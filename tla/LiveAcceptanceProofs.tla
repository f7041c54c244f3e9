------------------------ MODULE LiveAcceptanceProofs ------------------------
(***************************************************************************)
(* Proofs about LiveAcceptance, for any number of freezes and runs and any *)
(* number of faults: a complete file is never written again, the hash file *)
(* is the hash of the specimen, what is sealed bears out what a run said,  *)
(* and the experiment implements its abstract record.                      *)
(***************************************************************************)
EXTENDS LiveAcceptance, FiniteSetTheorems, TLAPS

SpecimenFiles == {"specimen", "specimen.sha256"}

(* What is on disk, and who writes it: a file being written is partial and *)
(* has one writer, and only freezes write the specimen and its hash.       *)
DiskInv ==
    /\ disk \in [Files -> {"absent", "partial", "complete"}]
    /\ content = [f \in Files |-> content[f]]
    /\ pc = [p \in Processes |-> pc[p]]
    /\ mem = [p \in Processes |-> mem[p]]
    /\ provider \in [Runners -> ProviderNames]
    /\ \A p \in Processes, f \in Files : pc[p] = <<"write", f>> =>
         disk[f] = "partial" /\ f \notin ProviderNames
    /\ \A p, q \in Processes, f \in Files :
         pc[p] = <<"write", f>> /\ pc[q] = <<"write", f>> => p = q
    /\ \A p \in Runners, f \in SpecimenFiles :
         pc[p] # <<"create", f>> /\ pc[p] # <<"write", f>>

(* Between the two files of a freeze, what is on disk is its specimen. *)
HalfFrozen(p) ==
    pc[p] = <<"create", "specimen.sha256">> \/ pc[p] = <<"write", "specimen.sha256">>

HashInv ==
    /\ \A p \in Freezers : HalfFrozen(p) =>
         disk["specimen"] = "complete" /\ content["specimen"] = mem[p].specimen
    /\ HashMatchesSpecimen

-----------------------------------------------------------------------------
(* What follows the write of a file. *)
LEMMA AfterFiles ==
    ASSUME NEW file \in Files \ ProviderNames
    PROVE  /\ \A f \in Files : After(file) # <<"write", f>>
           /\ After(file) # <<"create", "specimen">>
           /\ After(file) = <<"create", "specimen.sha256">> => file = "specimen"
  BY SMT DEF After

-----------------------------------------------------------------------------
(* Steps that leave the disk alone. *)

WriteStage(stage) == \E f \in Files : stage = <<"write", f>>
FreezeStage(stage) ==
    \E f \in SpecimenFiles : stage = <<"create", f>> \/ stage = <<"write", f>>

Quiet(p, stage) ==
    /\ Goto(p, stage)
    /\ ~WriteStage(stage)
    /\ p \in Runners => ~FreezeStage(stage)
    /\ UNCHANGED <<disk, content>>
    /\ stage # <<"create", "specimen.sha256">>
    /\ mem' = [q \in Processes |-> mem'[q]]
    /\ \A q \in Processes \ {p} : mem'[q] = mem[q]
    /\ provider' \in [Runners -> ProviderNames]

LEMMA QuietKeepsDisk ==
    ASSUME DiskInv, NEW p \in Processes, NEW stage, Quiet(p, stage)
    PROVE  DiskInv'
<1>1. /\ pc' = [q \in Processes |-> pc'[q]]
      /\ pc'[p] = stage
      /\ \A q \in Processes \ {p} : pc'[q] = pc[q]
  BY DEF DiskInv, Quiet, Goto
<1>2. \A q \in Processes, f \in Files : pc'[q] = <<"write", f>> => q # p /\ pc[q] = <<"write", f>>
  BY <1>1 DEF Quiet, WriteStage
<1>3. \A q \in Runners, f \in SpecimenFiles :
        pc'[q] # <<"create", f>> /\ pc'[q] # <<"write", f>>
  <2> TAKE q \in Runners, f \in SpecimenFiles
  <2>1. q \in Processes BY DEF Processes
  <2>2. CASE q = p BY <1>1, <2>2 DEF Quiet, FreezeStage
  <2>3. CASE q # p
    <3>1. pc'[q] = pc[q] BY <1>1, <2>1, <2>3
    <3> QED BY <3>1 DEF DiskInv
  <2> QED BY <2>2, <2>3
<1> HIDE DEF Processes, SpecimenFiles, Files
<1> QED BY <1>1, <1>2, <1>3 DEF DiskInv, Quiet

LEMMA SetKeepsMem ==
    ASSUME DiskInv, NEW p \in Processes, NEW name, NEW value, Set(p, name, value)
    PROVE  /\ mem' = [q \in Processes |-> mem'[q]]
           /\ \A q \in Processes \ {p} : mem'[q] = mem[q]
  BY DEF Set, DiskInv

(* Every step of a process but the writes is quiet, and only a freeze that *)
(* has checked goes on to create the specimen.                             *)
LEMMA StepsAreQuiet ==
    ASSUME DiskInv, NEW p \in Processes,
           \/ p \in Freezers /\ Freeze(p)
           \/ p \in Runners /\ Run(p)
           \/ Kill(p)
    PROVE  \E stage : Quiet(p, stage)
<1> USE DEF Quiet, Goto, WriteStage, FreezeStage, SpecimenFiles, Fail, files, worker
<1>mem. UNCHANGED mem => mem' = [q \in Processes |-> mem'[q]] /\ \A q \in Processes \ {p} : mem'[q] = mem[q]
  BY DEF DiskInv
<1>provider. UNCHANGED provider => provider' \in [Runners -> ProviderNames]
  BY DEF DiskInv
<1>1. CASE Kill(p)
  <2> WITNESS <<"killed">>
  <2> QED BY <1>1, <1>mem, <1>provider DEF Kill
<1>2. CASE p \in Freezers /\ Freeze(p)
  <2>0. p \notin Runners BY <1>2, LiveAssumption
  <2>1. CASE CurrentCommit(p)
    <3>1. Goto(p, <<"failed">>) \/ Goto(p, <<"select", commit>>) BY <2>1 DEF CurrentCommit
    <3> QED BY <2>1, <2>0, <3>1, <1>mem, <1>provider DEF CurrentCommit
  <2>2. CASE Select(p)
    <3>1. Goto(p, <<"failed">>) \/ Goto(p, <<"check">>) BY <2>2 DEF Select
    <3>2. /\ mem' = [q \in Processes |-> mem'[q]]
          /\ \A q \in Processes \ {p} : mem'[q] = mem[q]
      BY <2>2, <1>mem, SetKeepsMem DEF Select
    <3>3. UNCHANGED <<disk, content, provider>> BY <2>2 DEF Select
    <3> QED BY <1>provider, <2>0, <3>1, <3>2, <3>3
  <2>3. CASE CheckUnfrozen(p)
    <3>1. Goto(p, <<"failed">>) \/ Goto(p, <<"create", "specimen">>) BY <2>3 DEF CheckUnfrozen
    <3> QED BY <2>3, <2>0, <3>1, <1>mem, <1>provider DEF CheckUnfrozen
  <2>4. CASE Reload(p)
    <3>1. Goto(p, <<"failed">>) \/ Goto(p, <<"done">>) BY <2>4 DEF Reload
    <3> QED BY <2>4, <2>0, <3>1, <1>mem, <1>provider DEF Reload
  <2> QED BY <1>2, <2>1, <2>2, <2>3, <2>4 DEF Freeze
<1>3. CASE p \in Runners /\ Run(p)
  <2> DEFINE stages == {<<"failed">>, <<"fresh">>, <<"discover">>, <<"mkdir">>, <<"commit">>,
                        <<"copy">>, <<"create", "frozen-specimen">>, <<"close">>,
                        <<"dispatch", Providers[2]>>, <<"create", "provider-results">>,
                        <<"create", "model-catalog-post">>, <<"create", "reconciliation">>,
                        <<"create", "seal">>}
  <2>1. \E stage \in stages : Goto(p, stage)
    <3> HIDE DEF Goto
    <3>1. Prepare(p) => \E stage \in stages : Goto(p, stage)
      BY DEF Prepare, Load, CheckFresh, Discover, Mkdir, CheckCommit, Copy
    <3>2. CloseDispatcher(p) => \E stage \in stages : Goto(p, stage)
      BY DEF CloseDispatcher
    <3>3. Dispatch(p) \/ Rediscover(p) \/ Reconcile(p) \/ Seal(p) => \E stage \in stages : Goto(p, stage)
      BY DEF Dispatch, Rediscover, Reconcile, Seal
    <3> QED BY <1>3, <3>1, <3>2, <3>3 DEF Run
  <2>2. UNCHANGED <<disk, content>>
    <3>1. Prepare(p) => UNCHANGED <<disk, content>>
      BY DEF Prepare, Load, CheckFresh, Discover, Mkdir, CheckCommit, Copy
    <3> QED BY <1>3, <3>1 DEF Run, Dispatch, CloseDispatcher, Rediscover, Reconcile, Seal
  <2>3. /\ mem' = [q \in Processes |-> mem'[q]]
        /\ \A q \in Processes \ {p} : mem'[q] = mem[q]
    <3>1. Prepare(p) => UNCHANGED mem \/ \E n, v : Set(p, n, v)
      BY DEF Prepare, Load, CheckFresh, Discover, Mkdir, CheckCommit, Copy
    <3>2. Run(p) => UNCHANGED mem \/ \E n, v : Set(p, n, v)
      BY <3>1 DEF Run, Dispatch, CloseDispatcher, Rediscover, Reconcile, Seal
    <3> QED BY <1>3, <3>2, <1>mem, SetKeepsMem
  <2>4. \A stage \in stages : ~WriteStage(stage) /\ ~FreezeStage(stage)
                               /\ stage # <<"create", "specimen.sha256">>
    OBVIOUS
  <2>5. provider' \in [Runners -> ProviderNames]
    <3>1. Prepare(p) => UNCHANGED provider
      BY DEF Prepare, Load, CheckFresh, Discover, Mkdir, CheckCommit, Copy, worker
    <3> QED BY <1>3, <3>1 DEF Run, Dispatch, CloseDispatcher, Rediscover, Reconcile, Seal, worker, DiskInv
  <2> QED BY <2>1, <2>2, <2>3, <2>4, <2>5
<1> QED BY <1>1, <1>2, <1>3

-----------------------------------------------------------------------------
(* Steps that write. *)

LEMMA CreateKeepsDisk ==
    ASSUME DiskInv, NEW p \in Processes, NEW file \in Files \ ProviderNames, Create(p, file)
    PROVE  DiskInv'
<1>0. UNCHANGED provider BY DEF Create, Write, worker
<1>1. /\ mem' = [q \in Processes |-> mem'[q]]
      /\ content' = [f \in Files |-> content'[f]]
      /\ pc' = [q \in Processes |-> pc'[q]]
      /\ \A q \in Processes \ {p} : pc'[q] = pc[q]
  BY DEF Create, DiskInv, Goto, Fail
<1>2. CASE CreatesNothing(file)
  <2>1. pc'[p] = <<"failed">> /\ UNCHANGED <<disk, content, mem>>
    BY <1>2 DEF Create, DiskInv, Goto, Fail
  <2>2. Quiet(p, <<"failed">>)
    BY <1>0, <1>1, <1>2, <2>1 DEF Quiet, Create, Fail, WriteStage, FreezeStage, DiskInv
  <2> QED BY <2>2, QuietKeepsDisk
<1>3. CASE ~CreatesNothing(file)
  <2>1. /\ pc[p] = <<"create", file>> /\ pc'[p] = <<"write", file>>
        /\ disk[file] = "absent"
        /\ disk' = [disk EXCEPT ![file] = "partial"]
    BY <1>3 DEF Create, DiskInv, Goto, CreatesNothing
  <2>2. disk' \in [Files -> {"absent", "partial", "complete"}] /\ disk'[file] = "partial"
    BY <2>1 DEF DiskInv
  <2>3. \A q \in Processes : pc[q] # <<"write", file>>
    BY <2>1 DEF DiskInv
  <2>4. \A q \in Processes, f \in Files :
          pc'[q] = <<"write", f>> => IF q = p THEN f = file ELSE f # file /\ pc[q] = <<"write", f>>
    BY <1>1, <2>1, <2>3
  <2>5. \A q \in Processes, f \in Files : pc'[q] = <<"write", f>> =>
        disk'[f] = "partial" /\ f \notin ProviderNames
    BY <2>1, <2>2, <2>4 DEF DiskInv
  <2>6. \A q, r \in Processes, f \in Files :
          pc'[q] = <<"write", f>> /\ pc'[r] = <<"write", f>> => q = r
    BY <2>4 DEF DiskInv
  <2>7. \A q \in Runners, f \in SpecimenFiles :
          pc'[q] # <<"create", f>> /\ pc'[q] # <<"write", f>>
    <3> TAKE q \in Runners, f \in SpecimenFiles
    <3>1. q \in Processes BY DEF Processes
    <3>2. pc[q] # <<"create", f>> /\ pc[q] # <<"write", f>> BY DEF DiskInv
    <3>3. CASE q = p BY <2>1, <3>2, <3>3
    <3>4. CASE q # p BY <1>1, <3>1, <3>2, <3>4
    <3> QED BY <3>3, <3>4
  <2> QED BY <1>0, <1>1, <2>2, <2>5, <2>6, <2>7 DEF DiskInv
<1> QED BY <1>2, <1>3

LEMMA WriteKeepsDisk ==
    ASSUME DiskInv, NEW p \in Processes, NEW file \in Files \ ProviderNames, Write(p, file)
    PROVE  DiskInv'
<1>0. UNCHANGED provider BY DEF Create, Write, worker
<1>1. /\ mem' = [q \in Processes |-> mem'[q]]
      /\ content' = [f \in Files |-> content'[f]]
      /\ pc' = [q \in Processes |-> pc'[q]]
      /\ \A q \in Processes \ {p} : pc'[q] = pc[q]
      /\ disk' \in [Files -> {"absent", "partial", "complete"}]
      /\ \A f \in Files \ {file} : disk'[f] = disk[f]
  BY DEF Write, DiskInv, Goto, Fail
<1>2. pc[p] = <<"write", file>> /\ (pc'[p] = <<"failed">> \/ pc'[p] = After(file))
  BY DEF Write, DiskInv, Goto, Fail
<1>3. \A f \in Files : pc'[p] # <<"write", f>>
  BY <1>2, AfterFiles
<1>4. \A q \in Processes, f \in Files :
        pc'[q] = <<"write", f>> => q # p /\ f # file /\ pc[q] = <<"write", f>>
  BY <1>1, <1>2, <1>3 DEF DiskInv
<1>5. \A q \in Processes, f \in Files : pc'[q] = <<"write", f>> =>
        disk'[f] = "partial" /\ f \notin ProviderNames
  BY <1>1, <1>4 DEF DiskInv
<1>6. \A q, r \in Processes, f \in Files :
        pc'[q] = <<"write", f>> /\ pc'[r] = <<"write", f>> => q = r
  BY <1>4 DEF DiskInv
<1>7. \A q \in Runners, f \in SpecimenFiles :
        pc'[q] # <<"create", f>> /\ pc'[q] # <<"write", f>>
  <2> TAKE q \in Runners, f \in SpecimenFiles
  <2>1. q \in Processes /\ f \in Files BY DEF Processes, SpecimenFiles, Files
  <2>2. pc[q] # <<"create", f>> /\ pc[q] # <<"write", f>> BY DEF DiskInv
  <2>3. CASE q = p
    <3>1. file \notin SpecimenFiles BY <1>2, <2>3 DEF DiskInv
    <3>2. pc'[p] # <<"create", f>> BY <1>2, <3>1, AfterFiles DEF SpecimenFiles
    <3> QED BY <1>3, <2>1, <2>3, <3>2
  <2>4. CASE q # p BY <1>1, <2>1, <2>2, <2>4
  <2> QED BY <2>3, <2>4
<1> QED BY <1>0, <1>1, <1>5, <1>6, <1>7 DEF DiskInv

LEMMA AnswerKeepsDisk ==
    ASSUME DiskInv, NEW p \in Runners, Answer(p)
    PROVE  /\ DiskInv'
           /\ \A f \in Files \ ProviderNames : disk'[f] = disk[f] /\ content'[f] = content[f]
           /\ \A q \in Processes \ {p} : mem'[q] = mem[q]
           /\ UNCHANGED pc
<1>1. PICK observation, verdicts :
        /\ Audit(provider[p], observation) \/ UNCHANGED <<content, disk>>
        /\ mem' = [mem EXCEPT ![p].results[provider[p]] = Append(@, verdicts)]
  BY DEF Answer
<1>2. provider[p] \in ProviderNames /\ ProviderNames \subseteq Files /\ p \in Processes
  BY DEF DiskInv, Files, Bundle, Processes
<1>3. UNCHANGED <<pc, provider>> BY DEF Answer
<1>4. /\ content' = [f \in Files |-> content'[f]]
      /\ disk' \in [Files -> {"absent", "partial", "complete"}]
      /\ \A f \in Files \ ProviderNames : disk'[f] = disk[f] /\ content'[f] = content[f]
  BY <1>1, <1>2 DEF Audit, DiskInv
<1>5. mem' = [q \in Processes |-> mem'[q]] /\ \A q \in Processes \ {p} : mem'[q] = mem[q]
  BY <1>1 DEF DiskInv
<1>6. \A q \in Processes, f \in Files : pc'[q] = <<"write", f>> =>
        disk'[f] = "partial" /\ f \notin ProviderNames
  <2> TAKE q \in Processes, f \in Files
  <2>1. pc'[q] = pc[q] BY <1>3
  <2>2. f \notin ProviderNames => disk'[f] = disk[f] BY <1>4
  <2>3. pc[q] = <<"write", f>> => disk[f] = "partial" /\ f \notin ProviderNames
    BY DEF DiskInv
  <2> QED BY <2>1, <2>2, <2>3
<1>7. DiskInv'
  <2>1. \A q, r \in Processes, f \in Files :
          pc'[q] = <<"write", f>> /\ pc'[r] = <<"write", f>> => q = r
    BY <1>3 DEF DiskInv
  <2>2. \A q \in Runners, f \in SpecimenFiles :
          pc'[q] # <<"create", f>> /\ pc'[q] # <<"write", f>>
    BY <1>3 DEF DiskInv
  <2>3. pc' = [q \in Processes |-> pc'[q]] /\ provider' \in [Runners -> ProviderNames]
    BY <1>3 DEF DiskInv
  <2> QED BY <1>4, <1>5, <1>6, <2>1, <2>2, <2>3 DEF DiskInv
<1> QED BY <1>3, <1>4, <1>5, <1>7

(* What a step does to the shared state, in one place. *)
LEMMA Steps ==
    ASSUME [Next]_vars
    PROVE  \/ \E p \in Processes, file \in Files \ ProviderNames : Create(p, file) \/ Write(p, file)
           \/ \E p \in Processes :
                \/ p \in Freezers /\ Freeze(p)
                \/ p \in Runners /\ Run(p)
                \/ Kill(p)
           \/ \E p \in Runners : Answer(p)
           \/ UNCHANGED <<disk, content, pc, mem, provider>>
<1>1. CASE Change BY <1>1 DEF Change, files, worker
<1>2. CASE UNCHANGED vars BY <1>2 DEF vars, files, worker
<1>3. ASSUME NEW p \in Processes, Step(p)
      PROVE  \/ \E file \in Files \ ProviderNames : Create(p, file) \/ Write(p, file)
             \/ p \in Freezers /\ Freeze(p)
             \/ p \in Runners /\ Run(p)
  BY <1>3 DEF Step, WriteFile, Processes
<1>4. ASSUME NEW p \in Processes, Step(p) \/ Kill(p)
      PROVE  \/ \E file \in Files \ ProviderNames : Create(p, file) \/ Write(p, file)
             \/ p \in Freezers /\ Freeze(p)
             \/ p \in Runners /\ Run(p)
             \/ Kill(p)
  BY <1>3, <1>4
<1>5. Next \/ UNCHANGED vars OBVIOUS
<1>6. Next => \/ \E p \in Processes : Step(p) \/ Kill(p)
              \/ \E p \in Runners : Answer(p)
              \/ Change
  BY DEF Next
<1> QED BY <1>1, <1>2, <1>4, <1>5, <1>6

-----------------------------------------------------------------------------
(* Every file has one writer at a time, and it was the one to create it.   *)
THEOREM DiskCorrect == Spec => []DiskInv
<1>1. Init => DiskInv
  <2> SUFFICES ASSUME Init PROVE DiskInv
    OBVIOUS
  <2>1. pc = [q \in Processes |-> pc[q]]
        /\ \A q \in Processes : pc[q] \in {<<"killed">>, <<"checkout">>, <<"load">>}
    BY DEF Init
  <2>2. \A q \in Processes : \A f : pc[q] # <<"create", f>> /\ pc[q] # <<"write", f>>
    BY <2>1
  <2>3. provider \in [Runners -> ProviderNames]
    BY DEF Init, Providers, ProviderNames
  <2>4. /\ disk \in [Files -> {"absent", "partial", "complete"}]
        /\ content = [f \in Files |-> content[f]]
        /\ mem = [q \in Processes |-> mem[q]]
    BY DEF Init
  <2> QED BY <2>1, <2>2, <2>3, <2>4 DEF DiskInv, Processes
<1>2. DiskInv /\ [Next]_vars => DiskInv'
  <2> SUFFICES ASSUME DiskInv, [Next]_vars PROVE DiskInv'
    OBVIOUS
  <2>1. ASSUME UNCHANGED <<disk, content, pc, mem, provider>> PROVE DiskInv'
    BY <2>1 DEF DiskInv
  <2> QED BY <2>1, Steps, CreateKeepsDisk, WriteKeepsDisk, StepsAreQuiet, QuietKeepsDisk, AnswerKeepsDisk
<1> QED BY <1>1, <1>2, PTL DEF Spec

(* A complete file is never written again, whatever fails or is killed. *)
THEOREM CreatedOnce == Spec => CreateOnly
<1>1. DiskInv /\ [Next]_vars => [\A f \in Files \ ProviderNames : Kept(f)]_vars
  <2> SUFFICES ASSUME DiskInv, [Next]_vars, NEW f \in Files \ ProviderNames PROVE Kept(f)
    OBVIOUS
  <2>1. ASSUME NEW p \in Processes, NEW file \in Files \ ProviderNames, Create(p, file) PROVE Kept(f)
    BY <2>1 DEF Create, CreatesNothing, Kept, DiskInv
  <2>2. ASSUME NEW p \in Processes, NEW file \in Files \ ProviderNames, Write(p, file) PROVE Kept(f)
    BY <2>2 DEF Write, Kept, DiskInv
  <2>3. ASSUME UNCHANGED <<disk, content>> PROVE Kept(f)
    BY <2>3 DEF Kept
  <2>4. ASSUME NEW p \in Processes, NEW stage, Quiet(p, stage) PROVE Kept(f)
    BY <2>3, <2>4 DEF Quiet
  <2> QED BY <2>1, <2>2, <2>3, <2>4, Steps, StepsAreQuiet, AnswerKeepsDisk DEF Kept
<1> QED BY <1>1, DiskCorrect, PTL DEF Spec, CreateOnly

-----------------------------------------------------------------------------
(* The hash file that a freeze leaves is the hash of the specimen beside   *)
(* it, whichever of several freezes was first and wherever one stopped.    *)
THEOREM HashIsOfSpecimen == Spec => []HashMatchesSpecimen
<1>1. Init => HashInv
  BY DEF Init, HashInv, HalfFrozen, HashMatchesSpecimen, Files, Processes
<1>2. DiskInv /\ HashInv /\ [Next]_vars => HashInv'
  <2> SUFFICES ASSUME DiskInv, HashInv, [Next]_vars PROVE HashInv'
    OBVIOUS
  <2>0. SpecimenFiles \subseteq Files \ ProviderNames /\ Freezers \subseteq Processes
    BY DEF SpecimenFiles, Files, ProviderNames, Bundle, Processes
  <2>1. ASSUME NEW p \in Processes, NEW file \in Files \ ProviderNames, Create(p, file) PROVE HashInv'
    <3>1. /\ UNCHANGED <<content, mem>>
          /\ pc[p] = <<"create", file>>
          /\ pc'[p] = <<"failed">> \/ pc'[p] = <<"write", file>>
          /\ \A q \in Processes \ {p} : pc'[q] = pc[q]
      BY <2>1 DEF Create, DiskInv, Goto, Fail
    <3>2. \A f \in SpecimenFiles : /\ disk[f] = "complete" => disk'[f] = "complete"
                                   /\ disk'[f] = "complete" => disk[f] = "complete"
      BY <2>0, <2>1 DEF Create, CreatesNothing, DiskInv
    <3>3. \A q \in Freezers : HalfFrozen(q)' => HalfFrozen(q)
      BY <2>0, <3>1 DEF HalfFrozen
    <3> QED BY <3>1, <3>2, <3>3 DEF HashInv, HashMatchesSpecimen, SpecimenFiles
  <2>2. ASSUME NEW p \in Processes, NEW file \in Files \ ProviderNames, Write(p, file) PROVE HashInv'
    <3>1. /\ UNCHANGED mem
          /\ pc[p] = <<"write", file>> /\ disk[file] = "partial"
          /\ \A q \in Processes \ {p} : pc'[q] = pc[q]
          /\ \A f \in Files \ {file} : disk'[f] = disk[f] /\ content'[f] = content[f]
      BY <2>2 DEF Write, DiskInv, Goto, Fail
    <3>2. \/ disk'[file] = "complete" /\ content'[file] = Payload(p, file) /\ pc'[p] = After(file)
          \/ disk'[file] = "absent" /\ pc'[p] = <<"failed">>
      BY <2>2 DEF Write, DiskInv, Goto, Fail
    <3>3. \A q \in Freezers : HalfFrozen(q) => file # "specimen"
      BY <3>1 DEF HashInv
    <3>4. ASSUME NEW q \in Freezers, HalfFrozen(q)'
          PROVE  disk'["specimen"] = "complete" /\ content'["specimen"] = mem'[q].specimen
      <4>1. CASE q = p
        <5>1. pc'[p] = After(file) /\ disk'[file] = "complete" /\ content'[file] = Payload(p, file)
          BY <3>2, <3>4, <4>1 DEF HalfFrozen
        <5>2. file = "specimen"
          BY <3>4, <4>1, <5>1, <2>0, AfterFiles DEF HalfFrozen, SpecimenFiles
        <5> QED BY <3>1, <4>1, <5>1, <5>2 DEF Payload
      <4>2. CASE q # p
        <5>1. HalfFrozen(q) BY <2>0, <3>1, <3>4, <4>2 DEF HalfFrozen
        <5> QED BY <2>0, <3>1, <3>3, <5>1 DEF HashInv, SpecimenFiles
      <4> QED BY <4>1, <4>2
    <3>5. HashMatchesSpecimen'
      <4>1. CASE file = "specimen.sha256"
        <5>1. p \in Freezers /\ HalfFrozen(p)
          BY <3>1, <4>1 DEF DiskInv, HalfFrozen, SpecimenFiles, Processes
        <5> QED BY <2>0, <3>1, <3>2, <4>1, <5>1 DEF HashInv, HashMatchesSpecimen, Payload, SpecimenFiles
      <4>2. CASE file = "specimen"
        <5>1. disk["specimen.sha256"] # "complete" BY <3>1, <4>2 DEF HashInv, HashMatchesSpecimen
        <5> QED BY <2>0, <3>1, <4>2, <5>1 DEF HashMatchesSpecimen, SpecimenFiles
      <4>3. CASE file \notin SpecimenFiles
        BY <2>0, <3>1, <4>3 DEF HashInv, HashMatchesSpecimen, SpecimenFiles
      <4> QED BY <4>1, <4>2, <4>3 DEF SpecimenFiles
    <3> QED BY <3>4, <3>5 DEF HashInv
  <2>3. ASSUME NEW p \in Processes, NEW stage, Quiet(p, stage) PROVE HashInv'
    <3>1. pc'[p] = stage /\ \A q \in Processes \ {p} : pc'[q] = pc[q]
      BY <2>3 DEF Quiet, Goto, DiskInv
    <3>2. \A q \in Freezers : HalfFrozen(q)' => q # p /\ HalfFrozen(q)
      BY <2>0, <2>3, <3>1 DEF HalfFrozen, Quiet, WriteStage, SpecimenFiles
    <3> QED BY <2>0, <2>3, <3>2 DEF HashInv, HashMatchesSpecimen, Quiet
  <2>4. ASSUME NEW p \in Runners, Answer(p) PROVE HashInv'
    <3>1. \A q \in Freezers : mem'[q] = mem[q]
      BY <2>0, <2>4, AnswerKeepsDisk, LiveAssumption
    <3>2. /\ UNCHANGED pc
          /\ \A f \in SpecimenFiles : disk'[f] = disk[f] /\ content'[f] = content[f]
      BY <2>0, <2>4, AnswerKeepsDisk
    <3> QED BY <3>1, <3>2 DEF HashInv, HalfFrozen, HashMatchesSpecimen, SpecimenFiles
  <2>5. ASSUME UNCHANGED <<disk, content, pc, mem, provider>> PROVE HashInv'
    BY <2>5 DEF HashInv, HalfFrozen, HashMatchesSpecimen
  <2> QED BY <2>1, <2>2, <2>3, <2>4, <2>5, Steps, StepsAreQuiet
<1>3. HashInv => HashMatchesSpecimen
  BY DEF HashInv
<1> QED BY <1>1, <1>2, <1>3, DiskCorrect, PTL DEF Spec

-----------------------------------------------------------------------------
LocalNames == {"specimen", "copy", "pre", "post", "results", "report", "seal"}

(* The stages of a run, from the last to the first.                        *)
Making(file) == {<<"create", file>>, <<"write", file>>}
Sealing == {<<"seal">>, <<"done">>} \cup Making("seal")
Reconciling == Sealing \cup {<<"reconcile">>} \cup Making("reconciliation")
Rediscovering == Reconciling \cup {<<"rediscover">>} \cup Making("model-catalog-post")
Answered == Rediscovering \cup Making("provider-results")
Asking == {<<"dispatch", "typesafe">>, <<"dispatch", "vercel-typesafe">>, <<"close">>}
Copied == Answered \cup Asking
Copying == Copied \cup Making("model-catalog-pre")
Entered == Copying \cup {<<"commit">>, <<"copy">>} \cup Making("frozen-specimen")
Before == {<<"load">>, <<"fresh">>, <<"discover">>, <<"mkdir">>}
RunnerStages == Before \cup Entered \cup {<<"failed">>, <<"killed">>}

Evidence == Bundle \cup {"seal"}
Inside(p) == pc[p] \in Entered \/ left[p] > 0

AuditSet(s) == {Observed(s, o) : o \in UNION {Outcomes[n] : n \in ProviderNames}}
VerdictSet(s) == {Verdicts(s.template.questions, o, persisted) : o \in AuditSet(s), persisted \in BOOLEAN}

FrozenSpecimen == content["specimen"][1]

Aligned(p, n) == \A i \in 1..Len(content[n]) : mem[p].results[n][i] = content[n][i].verdicts
NotAsked(p, n) == content[n] = <<>> /\ mem[p].results[n] = <<>>
Going(p, n) ==
    /\ Len(mem[p].results[n]) + left[p] = RunsOf(p)
    /\ Len(content[n]) <= Len(mem[p].results[n])
    /\ Len(content[n]) = Len(mem[p].results[n]) => Aligned(p, n)
Complete(p, n) ==
    /\ Len(mem[p].results[n]) = RunsOf(p)
    /\ Len(content[n]) = RunsOf(p)
    /\ Aligned(p, n)

Has(file, value) == disk[file] = "complete" /\ content[file] = value

ReportOf(p) ==
    [specimen |-> Specimen(p), authority_promoted |-> FALSE,
     status |-> Reconciled(Specimen(p), [n \in ProviderNames |-> content[n]],
                           mem[p].results, mem[p].post = <<Specimen(p).model_catalog>>)]
SealOf(p) == [status |-> mem[p].report[1].status, files |-> [f \in Bundle |-> content[f]]]

RunnerOK(p) ==
    /\ pc[p] \in RunnerStages
    /\ left[p] \in 0..MaxRuns
    /\ left[p] > 0 => pc[p] \in {<<"close">>, <<"failed">>}
    /\ \A n \in ProviderNames :
         \/ mem[p].results[n] = <<>>
         \/ mem[p].specimen # None /\ mem[p].results[n] \in Seq(VerdictSet(Specimen(p)))

HasSpecimen(p) ==
    /\ mem[p].specimen # None => 
         mem[p].specimen = content["specimen"] /\ ValidSpecimen(Specimen(p))
    /\ (Inside(p) \/ pc[p] \in Before \ {<<"load">>}) => mem[p].specimen # None
    /\ pc[p] \in Entered \cup {<<"mkdir">>} => mem[p].pre = <<Specimen(p).model_catalog>>
    /\ pc[p] \in Copying \cup Making("frozen-specimen") => mem[p].copy = mem[p].specimen
    /\ pc[p] \in Copying => Has("frozen-specimen", mem[p].specimen)
    /\ pc[p] \in Copied => Has("model-catalog-pre", mem[p].pre)

HasAnswers(p) ==
    /\ pc[p] \in Before \cup (Entered \ Copied) \cup {<<"dispatch", "typesafe">>} =>
         \A n \in ProviderNames : mem[p].results[n] = <<>>
    /\ pc[p] \in (Entered \ Copied) \cup {<<"dispatch", "typesafe">>} =>
         \A n \in ProviderNames : NotAsked(p, n)
    /\ pc[p] = <<"close">> /\ provider[p] = "typesafe" =>
         Going(p, "typesafe") /\ NotAsked(p, "vercel-typesafe")
    /\ pc[p] = <<"dispatch", "vercel-typesafe">> => NotAsked(p, "vercel-typesafe")
    /\ pc[p] \in Answered \cup {<<"dispatch", "vercel-typesafe">>} => Complete(p, "typesafe")
    /\ pc[p] = <<"close">> /\ provider[p] = "vercel-typesafe" => Complete(p, "typesafe")
    /\ pc[p] = <<"close">> /\ provider[p] = "vercel-typesafe" => Going(p, "vercel-typesafe")
    /\ pc[p] \in Answered => Complete(p, "vercel-typesafe")

HasBundle(p) ==
    /\ pc[p] \in Rediscovering => disk["provider-results"] = "complete"
    /\ pc[p] \in Reconciling \cup Making("model-catalog-post") => mem[p].post # None
    /\ pc[p] \in Reconciling => Has("model-catalog-post", mem[p].post)
    /\ pc[p] \in Sealing \cup Making("reconciliation") => mem[p].report = <<ReportOf(p)>>
    /\ pc[p] \in Sealing => Has("reconciliation", mem[p].report)
    /\ pc[p] \in Making("seal") \cup {<<"done">>} => mem[p].seal = <<SealOf(p)>>
    /\ pc[p] = <<"done">> => Has("seal", mem[p].seal)

FreezerOK(p) ==
    /\ \A f \in Evidence : pc[p] \notin Making(f)
    /\ pc[p] \notin {<<"checkout">>, <<"failed">>, <<"killed">>} /\ pc[p][1] # "select" =>
        mem[p].specimen = <<mem[p].specimen[1]>>

DirectoryInv ==
    /\ catalog \in Catalogs /\ commit \in Commits \cup {Dirty} /\ outDir \in BOOLEAN
    /\ left \in [Runners -> 0..MaxRuns]
    /\ \A f \in Files : content[f] = None <=> disk[f] # "complete"
    /\ ~outDir => \A f \in Evidence : disk[f] = "absent"
    /\ \A p \in Runners : Inside(p) => outDir
    /\ \A p, q \in Runners : Inside(p) /\ Inside(q) => p = q
    /\ content["specimen"] = None \/ content["specimen"] = <<FrozenSpecimen>>
    /\ \A n \in ProviderNames :
         \/ content[n] = <<>>
         \/ content["specimen"] # None /\ content[n] \in Seq(AuditSet(FrozenSpecimen))
    /\ disk["seal"] = "complete" => \E p \in Runners : pc[p] = <<"done">>

MemInv == \A p \in Processes :
    /\ mem[p] = [x \in LocalNames |-> mem[p][x]]
    /\ mem[p].results = [n \in ProviderNames |-> mem[p].results[n]]

RunInv ==
    /\ MemInv
    /\ DirectoryInv
    /\ \A p \in Freezers : FreezerOK(p)
    /\ \A p \in Runners : RunnerOK(p) /\ HasSpecimen(p) /\ HasAnswers(p) /\ HasBundle(p)


Facts(p) == RunnerOK(p) /\ HasSpecimen(p) /\ HasAnswers(p) /\ HasBundle(p)

-----------------------------------------------------------------------------
(* What a process knows of itself is not disturbed by another, unless that *)
(* one writes evidence.                                                    *)
LEMMA OthersKeepFacts ==
    ASSUME NEW p \in Runners, Facts(p),
           pc'[p] = pc[p], mem'[p] = mem[p], left'[p] = left[p], provider'[p] = provider[p],
           Inside(p) => \A f \in Evidence : disk'[f] = disk[f] /\ content'[f] = content[f],
           mem[p].specimen # None => content'["specimen"] = content["specimen"]
    PROVE  Facts(p)'
<1>1. RunnerOK(p)' BY DEF Facts, RunnerOK, Specimen
<1>2. pc[p] \in Entered => Inside(p)
  BY DEF Inside
<1>3. ASSUME pc[p] \in Entered PROVE \A f \in Evidence : disk'[f] = disk[f] /\ content'[f] = content[f]
   BY <1>2, <1>3
<1>4. Inside(p)' <=> Inside(p) BY DEF Inside
<1>5. HasSpecimen(p)'
  BY <1>3, <1>4 DEF Facts, HasSpecimen, Specimen, Has, Evidence, Bundle, Entered, Copying
<1>6. HasAnswers(p)'
  BY <1>3, ZenonT(30) DEF Facts, HasAnswers, NotAsked, Going, Complete, Aligned, RunsOf, Specimen, Evidence, Bundle, ProviderNames, Entered, Copying, Copied, Asking
<1>7. HasBundle(p)'
  BY <1>3 DEF Facts, HasBundle, ReportOf, SealOf, Has, Evidence, Bundle, ProviderNames, Entered, Copying, Copied, Answered, Rediscovering, Reconciling, Sealing, Making, RunsOf, Specimen
<1> QED BY <1>1, <1>5, <1>6, <1>7 DEF Facts

-----------------------------------------------------------------------------
(* A run's own steps.                                                      *)
Plain(p, stage) ==
    /\ pc'[p] = stage
    /\ left'[p] = left[p]

(* Only <<name>> of its locals changes.                                    *)
Only(p, name, value) ==
    /\ mem'[p] = [x \in LocalNames |-> IF x = name THEN value ELSE mem[p][x]]
    /\ mem[p] = [x \in LocalNames |-> mem[p][x]]

(* A run that failed or was killed keeps only what is on disk. *)
LEMMA FailedFacts ==
    ASSUME NEW p \in Runners, Facts(p),
           \/ pc'[p] = <<"failed">> /\ left'[p] = left[p]
           \/ pc'[p] = <<"killed">> /\ left'[p] = 0,
           mem'[p] = mem[p], content'["specimen"] = content["specimen"],
           MaxRuns \in Nat
    PROVE  Facts(p)'
<1> USE DEF Making, Sealing, Reconciling, Rediscovering, Answered, Asking, Copied, Copying, Entered, Before, RunnerStages
<1>1. pc'[p] \in RunnerStages OBVIOUS
<1>2. left'[p] \in 0..MaxRuns BY DEF Facts, RunnerOK
<1>3. left'[p] > 0 => pc'[p] \in {<<"close">>, <<"failed">>} BY DEF Facts, RunnerOK
<1>4. \A n \in ProviderNames :
        \/ mem'[p].results[n] = <<>>
        \/ mem'[p].specimen # None /\ mem'[p].results[n] \in Seq(VerdictSet(Specimen(p)'))
  BY DEF Facts, RunnerOK, Specimen
<1>5. RunnerOK(p)'
  BY <1>1, <1>2, <1>3, <1>4 DEF RunnerOK
<1>6. HasSpecimen(p)'
  <2>1. Inside(p)' => Inside(p) BY DEF Inside
  <2> QED BY <2>1 DEF Facts, HasSpecimen, Specimen
<1>7. HasAnswers(p)' BY DEF HasAnswers
<1>8. HasBundle(p)' BY DEF HasBundle
<1> QED BY <1>5, <1>6, <1>7, <1>8 DEF Facts

(* A step that leaves the locals, the counts and the disk alone.           *)
LEMMA PlainOK ==
    ASSUME NEW p \in Runners, RunnerOK(p), NEW stage \in RunnerStages, Plain(p, stage),
           mem'[p].results = mem[p].results,
           Specimen(p)' = Specimen(p),
           mem[p].specimen # None => mem'[p].specimen # None,
           pc[p] \in {<<"close">>, <<"failed">>} => left[p] = 0
    PROVE  RunnerOK(p)'
<1>2. left'[p] = left[p] /\ left[p] \in 0..MaxRuns BY DEF RunnerOK, Plain
<1>3. left'[p] > 0 => pc'[p] \in {<<"close">>, <<"failed">>} BY DEF RunnerOK, Plain
<1>4. \A n \in ProviderNames :
        \/ mem'[p].results[n] = <<>>
        \/ mem'[p].specimen # None /\ mem'[p].results[n] \in Seq(VerdictSet(Specimen(p)'))
  BY DEF RunnerOK
<1> QED BY <1>2, <1>3, <1>4 DEF RunnerOK, Plain


Own(p) == DiskInv /\ MemInv /\ DirectoryInv /\ Facts(p)

(* A local variable of a run is set, and the others are kept. *)
LEMMA Setting ==
    ASSUME NEW p \in Runners, Own(p), NEW name \in LocalNames, NEW value, Set(p, name, value)
    PROVE  mem'[p] = [x \in LocalNames |-> IF x = name THEN value ELSE mem[p][x]]
<1>1. p \in Processes BY DEF Processes
<1>2. mem = [q \in Processes |-> mem[q]] /\ mem[p] = [x \in LocalNames |-> mem[p][x]]
  BY <1>1 DEF Own, DiskInv, MemInv
<1> QED BY <1>1, <1>2 DEF Set

(* A process goes to the stage it is sent to. *)
LEMMA Arrives ==
    ASSUME NEW p \in Runners, Own(p), NEW stage, Goto(p, stage)
    PROVE  pc'[p] = stage
  BY DEF Goto, Own, DiskInv, Processes

(* A run that fails by itself. *)
LEMMA FailFacts ==
    ASSUME NEW p \in Runners, Own(p), Fail(p), UNCHANGED <<disk, content, left, provider, mem>>
    PROVE  Facts(p)'
<1>1. pc'[p] = <<"failed">> BY Arrives DEF Fail
<1>2. Facts(p) /\ mem'[p] = mem[p] /\ content'["specimen"] = content["specimen"] /\ left'[p] = left[p]
  BY DEF Own
<1>3. MaxRuns \in Nat BY LiveAssumption
<1> QED BY <1>1, <1>2, <1>3, FailedFacts

(* Up to the providers: what each step of `run` establishes. *)
LEMMA LoadFacts ==
    ASSUME NEW p \in Runners, Own(p), Load(p)
    PROVE  Facts(p)'
<1> USE DEF Making, Sealing, Reconciling, Rediscovering, Answered, Asking, Copied, Copying, Entered, Before, RunnerStages
<1>1. Facts(p) /\ UNCHANGED <<disk, content, left, provider>> /\ pc[p] = <<"load">> BY DEF Own, Load, files, worker
<1>2. CASE Fail(p) /\ UNCHANGED mem
  BY <1>1, <1>2, FailFacts
<1>3. CASE Loadable /\ Set(p, "specimen", content["specimen"]) /\ Goto(p, <<"fresh">>)
  <2>1. mem'[p] = [x \in LocalNames |-> IF x = "specimen" THEN content["specimen"] ELSE mem[p][x]]
    BY <1>3, Setting DEF LocalNames
  <2>2. mem'[p].specimen = content["specimen"] /\ mem'[p].results = mem[p].results BY <2>1 DEF LocalNames
  <2>3. pc'[p] = <<"fresh">> BY <1>3, Arrives
  <2>4. left[p] = 0 /\ left'[p] = 0 BY <1>1 DEF Facts, RunnerOK
  <2>5. \A n \in ProviderNames : mem'[p].results[n] = <<>> BY <1>1, <2>2 DEF Facts, HasAnswers
  <2>6. content["specimen"] # None /\ ValidSpecimen(content["specimen"][1])
    BY <1>3 DEF Loadable, Own, DirectoryInv, Files
  <2>7. RunnerOK(p)' BY <2>3, <2>4, <2>5, LiveAssumption DEF RunnerOK
  <2>8. HasSpecimen(p)' BY <1>1, <2>2, <2>3, <2>4, <2>6 DEF HasSpecimen, Specimen, Inside
  <2>9. HasAnswers(p)' BY <2>3, <2>5 DEF HasAnswers
  <2>10. HasBundle(p)' BY <2>3 DEF HasBundle
  <2> QED BY <2>7, <2>8, <2>9, <2>10 DEF Facts
<1> QED BY <1>2, <1>3 DEF Load

(* A directory that exists stops the run before it does anything. *)
LEMMA CheckFreshFacts ==
    ASSUME NEW p \in Runners, Own(p), CheckFresh(p)
    PROVE  Facts(p)'
<1> USE DEF Making, Sealing, Reconciling, Rediscovering, Answered, Asking, Copied, Copying, Entered, Before, RunnerStages
<1>1. Facts(p) /\ UNCHANGED <<disk, content, left, provider, mem>> /\ pc[p] = <<"fresh">>
  BY DEF Own, CheckFresh, files, worker
<1>2. CASE Fail(p)
  BY <1>1, <1>2, FailFacts
<1>3. CASE Goto(p, <<"discover">>)
  <2>3. pc'[p] = <<"discover">> BY <1>3, Arrives
  <2>4. left[p] = 0 BY <1>1 DEF Facts, RunnerOK
  <2>7. RunnerOK(p)' BY <1>1, <2>3, <2>4, PlainOK DEF Facts, Plain, Specimen
  <2>8. HasSpecimen(p)' BY <1>1, <2>3, <2>4 DEF Facts, HasSpecimen, Specimen, Inside
  <2>9. HasAnswers(p)' BY <1>1, <2>3 DEF Facts, HasAnswers
  <2>10. HasBundle(p)' BY <2>3 DEF HasBundle
  <2> QED BY <2>7, <2>8, <2>9, <2>10 DEF Facts
<1> QED BY <1>2, <1>3 DEF CheckFresh

(* The first discovery is a local until it is written. *)
LEMMA DiscoverFacts ==
    ASSUME NEW p \in Runners, Own(p), Discover(p)
    PROVE  Facts(p)'
<1> USE DEF Making, Sealing, Reconciling, Rediscovering, Answered, Asking, Copied, Copying, Entered, Before, RunnerStages
<1>1. Facts(p) /\ UNCHANGED <<disk, content, left, provider>> /\ pc[p] = <<"discover">>
  BY DEF Own, Discover, files, worker
<1>2. CASE Fail(p) /\ UNCHANGED mem
  BY <1>1, <1>2, FailFacts
<1>3. CASE SameCatalog(p) /\ Set(p, "pre", <<catalog>>) /\ Goto(p, <<"mkdir">>)
  <2>1. mem'[p] = [x \in LocalNames |-> IF x = "pre" THEN <<catalog>> ELSE mem[p][x]]
    BY <1>3, Setting DEF LocalNames
  <2>2. mem'[p].specimen = mem[p].specimen /\ mem'[p].results = mem[p].results /\ mem'[p].pre = <<catalog>> BY <2>1 DEF LocalNames
  <2>3. pc'[p] = <<"mkdir">> BY <1>3, Arrives
  <2>4. left[p] = 0 BY <1>1 DEF Facts, RunnerOK
  <2>7. RunnerOK(p)' BY <1>1, <2>2, <2>3, <2>4, PlainOK DEF Facts, Plain, Specimen
  <2>8. HasSpecimen(p)' BY <1>1, <1>3, <2>2, <2>3, <2>4 DEF Facts, HasSpecimen, Specimen, Inside, SameCatalog
  <2>9. HasAnswers(p)' BY <1>1, <2>2, <2>3 DEF Facts, HasAnswers
  <2>10. HasBundle(p)' BY <2>3 DEF HasBundle
  <2> QED BY <2>7, <2>8, <2>9, <2>10 DEF Facts
<1> QED BY <1>2, <1>3 DEF Discover

(* Whoever makes the directory is alone in it. *)
LEMMA MkdirFacts ==
    ASSUME NEW p \in Runners, Own(p), Mkdir(p)
    PROVE  Facts(p)'
<1> USE DEF Making, Sealing, Reconciling, Rediscovering, Answered, Asking, Copied, Copying, Entered, Before, RunnerStages
<1>1. Facts(p) /\ UNCHANGED <<disk, content, left, provider, mem>> /\ pc[p] = <<"mkdir">>
  BY DEF Own, Mkdir, files, worker
<1>2. CASE Fail(p)
  BY <1>1, <1>2, FailFacts
<1>3. CASE ~outDir /\ Goto(p, <<"commit">>)
  <2>3. pc'[p] = <<"commit">> BY <1>3, Arrives
  <2>4. left[p] = 0 BY <1>1 DEF Facts, RunnerOK
  <2>5. \A n \in ProviderNames : content[n] = <<>>
    BY <1>3 DEF Own, DirectoryInv, Evidence, Bundle, Files, None
  <2>7. RunnerOK(p)' BY <1>1, <2>3, <2>4, PlainOK DEF Facts, Plain, Specimen
  <2>8. HasSpecimen(p)' BY <1>1, <2>3, <2>4 DEF Facts, HasSpecimen, Specimen, Inside
  <2>9. HasAnswers(p)' BY <1>1, <2>3, <2>5 DEF Facts, HasAnswers, NotAsked
  <2>10. HasBundle(p)' BY <2>3 DEF HasBundle
  <2> QED BY <2>7, <2>8, <2>9, <2>10 DEF Facts
<1> QED BY <1>2, <1>3 DEF Mkdir

(* A checkout at another commit stops the run with the directory made. *)
LEMMA CheckCommitFacts ==
    ASSUME NEW p \in Runners, Own(p), CheckCommit(p)
    PROVE  Facts(p)'
<1> USE DEF Making, Sealing, Reconciling, Rediscovering, Answered, Asking, Copied, Copying, Entered, Before, RunnerStages
<1>1. Facts(p) /\ UNCHANGED <<disk, content, left, provider, mem>> /\ pc[p] = <<"commit">>
  BY DEF Own, CheckCommit, files, worker
<1>2. CASE Fail(p)
  BY <1>1, <1>2, FailFacts
<1>3. CASE Goto(p, <<"copy">>)
  <2>3. pc'[p] = <<"copy">> BY <1>3, Arrives
  <2>4. left[p] = 0 BY <1>1 DEF Facts, RunnerOK
  <2>7. RunnerOK(p)' BY <1>1, <2>3, <2>4, PlainOK DEF Facts, Plain, Specimen
  <2>8. HasSpecimen(p)' BY <1>1, <2>3, <2>4 DEF Facts, HasSpecimen, Specimen, Inside
  <2>9. HasAnswers(p)' BY <1>1, <2>3 DEF Facts, HasAnswers, NotAsked
  <2>10. HasBundle(p)' BY <2>3 DEF HasBundle
  <2> QED BY <2>7, <2>8, <2>9, <2>10 DEF Facts
<1> QED BY <1>2, <1>3 DEF CheckCommit

(* The copy of the specimen is a local until it is written. *)
LEMMA CopyFacts ==
    ASSUME NEW p \in Runners, Own(p), Copy(p)
    PROVE  Facts(p)'
<1> USE DEF Making, Sealing, Reconciling, Rediscovering, Answered, Asking, Copied, Copying, Entered, Before, RunnerStages
<1>1. Facts(p) /\ UNCHANGED <<disk, content, left, provider>> /\ pc[p] = <<"copy">>
  BY DEF Own, Copy, files, worker
<1>2. CASE Fail(p) /\ UNCHANGED mem
  BY <1>1, <1>2, FailFacts
<1>3. CASE Set(p, "copy", content["specimen"]) /\ Goto(p, <<"create", "frozen-specimen">>)
  <2>1. mem'[p] = [x \in LocalNames |-> IF x = "copy" THEN content["specimen"] ELSE mem[p][x]]
    BY <1>3, Setting DEF LocalNames
  <2>2. mem'[p].specimen = mem[p].specimen /\ mem'[p].results = mem[p].results /\ mem'[p].pre = mem[p].pre
        /\ mem'[p].copy = content["specimen"] BY <2>1 DEF LocalNames
  <2>3. pc'[p] = <<"create", "frozen-specimen">> BY <1>3, Arrives
  <2>4. left[p] = 0 BY <1>1 DEF Facts, RunnerOK
  <2>7. RunnerOK(p)' BY <1>1, <2>2, <2>3, <2>4, PlainOK DEF Facts, Plain, Specimen
  <2>8. HasSpecimen(p)' BY <1>1, <1>3, <2>2, <2>3, <2>4 DEF Facts, HasSpecimen, Specimen, Inside
  <2>9. HasAnswers(p)' BY <1>1, <2>2, <2>3 DEF Facts, HasAnswers, NotAsked
  <2>10. HasBundle(p)' BY <2>3 DEF HasBundle
  <2> QED BY <2>7, <2>8, <2>9, <2>10 DEF Facts
<1> QED BY <1>2, <1>3 DEF Copy


(* The providers: requests and answers add up to the runs asked for. *)
LEMMA DispatchFacts ==
    ASSUME NEW p \in Runners, Own(p), Dispatch(p)
    PROVE  Facts(p)'
<1> USE DEF Making, Sealing, Reconciling, Rediscovering, Answered, Asking, Copied, Copying, Entered, Before, RunnerStages
<1>1. Facts(p) /\ UNCHANGED <<disk, content, mem>>
  BY DEF Own, Dispatch, files
<1>2. PICK n \in ProviderNames : pc[p] = <<"dispatch", n>> /\ provider' = [provider EXCEPT ![p] = n]
  BY DEF Dispatch
<1>3. pc'[p] = <<"close">> BY Arrives DEF Dispatch
<1>4. provider'[p] = n BY <1>2 DEF Own, DiskInv
<1>5. left'[p] = RunsOf(p) BY DEF Dispatch, Own, DirectoryInv
<1>6. mem[p].specimen # None /\ ValidSpecimen(Specimen(p))
  BY <1>1, <1>2 DEF Facts, HasSpecimen, Inside, ProviderNames
<1>7. RunsOf(p) \in 1..MaxRuns BY <1>6 DEF ValidSpecimen, RunsOf
<1>8. NotAsked(p, n)
  BY <1>1, <1>2 DEF Facts, HasAnswers, ProviderNames
<1>9. Going(p, n)'
  <2>1. mem'[p].results[n] = <<>> /\ content'[n] = <<>> BY <1>1, <1>8 DEF NotAsked
  <2>2. Len(mem'[p].results[n]) = 0 /\ Len(content'[n]) = 0 BY <2>1
  <2>3. RunsOf(p)' = RunsOf(p) BY <1>1 DEF RunsOf, Specimen
  <2> QED BY <1>5, <1>7, <2>2, <2>3 DEF Going, Aligned
<1>10. RunnerOK(p)'
  <2>1. left'[p] \in 0..MaxRuns BY <1>5, <1>7, LiveAssumption
  <2>2. \A m \in ProviderNames :
        \/ mem'[p].results[m] = <<>>
        \/ mem'[p].specimen # None /\ mem'[p].results[m] \in Seq(VerdictSet(Specimen(p)'))
    BY <1>1 DEF Facts, RunnerOK, Specimen
  <2> QED BY <1>3, <2>1, <2>2 DEF RunnerOK
<1>11. HasSpecimen(p)'
  BY <1>1, <1>2, <1>3, <1>6 DEF Facts, HasSpecimen, Specimen, Inside, Has, ProviderNames
<1>12. HasAnswers(p)'
  <2>1. n = "typesafe" => NotAsked(p, "vercel-typesafe")'
    BY <1>1, <1>2 DEF Facts, HasAnswers, NotAsked, ProviderNames
  <2>2. n = "vercel-typesafe" => Complete(p, "typesafe")'
    BY <1>1, <1>2 DEF Facts, HasAnswers, Complete, Aligned, RunsOf, Specimen
  <2> QED BY <1>2, <1>3, <1>4, <1>9, <2>1, <2>2 DEF HasAnswers, ProviderNames
<1>13. HasBundle(p)' BY <1>3 DEF HasBundle
<1> QED BY <1>10, <1>11, <1>12, <1>13 DEF Facts

(* A dispatcher closed in time has one audit per answer, in order. *)
LEMMA CloseFacts ==
    ASSUME NEW p \in Runners, Own(p), CloseDispatcher(p)
    PROVE  Facts(p)'
<1> USE DEF Making, Sealing, Reconciling, Rediscovering, Answered, Asking, Copied, Copying, Entered, Before, RunnerStages
<1>1. Facts(p) /\ UNCHANGED <<disk, content, mem, left, provider>> /\ pc[p] = <<"close">>
  BY DEF Own, CloseDispatcher, files, worker
<1>2. CASE Fail(p) BY <1>1, <1>2, FailFacts
<1>3. CASE /\ MayClose(p)
           /\ Goto(p, IF provider[p] = Providers[1] THEN <<"dispatch", Providers[2]>>
                                                    ELSE <<"create", "provider-results">>)
  <2>1. pc'[p] = IF provider[p] = "typesafe" THEN <<"dispatch", "vercel-typesafe">>
                                             ELSE <<"create", "provider-results">>
    BY <1>3, Arrives DEF Providers
  <2>2. provider[p] \in ProviderNames BY DEF Own, DiskInv
  <2>3. Going(p, provider[p]) BY <1>1, <2>2 DEF Facts, HasAnswers, ProviderNames
  <2>4. left[p] = 0 /\ Len(content[provider[p]]) = RunsOf(p)
    BY <1>3 DEF MayClose, AllAudited
  <2>5. mem[p].specimen # None /\ ValidSpecimen(Specimen(p))
    BY <1>1 DEF Facts, HasSpecimen, Inside
  <2>51. \A m \in ProviderNames :
        \/ mem'[p].results[m] = <<>>
        \/ mem'[p].specimen # None /\ mem'[p].results[m] \in Seq(VerdictSet(Specimen(p)'))
    BY <1>1 DEF Facts, RunnerOK, Specimen
  <2>52. Len(mem[p].results[provider[p]]) \in Nat
    <3>1. mem[p].results[provider[p]] = <<>> \/ mem[p].results[provider[p]] \in Seq(VerdictSet(Specimen(p)))
      BY <2>2, <1>1 DEF Facts, RunnerOK
    <3> QED BY <3>1
  <2>6. Complete(p, provider[p])
    BY <2>3, <2>4, <2>52 DEF Going, Complete
  <2>7. RunnerOK(p)' BY <1>1, <2>1, <2>4, <2>51, LiveAssumption DEF RunnerOK
  <2>8. HasSpecimen(p)'
    BY <1>1, <2>1, <2>5 DEF Facts, HasSpecimen, Specimen, Inside, Has
  <2>9. HasAnswers(p)'
    <3>1. Complete(p, provider[p])' BY <1>1, <2>6 DEF Complete, Aligned, RunsOf, Specimen
    <3>2. provider[p] = "typesafe" => NotAsked(p, "vercel-typesafe")'
      BY <1>1 DEF Facts, HasAnswers, NotAsked
    <3>3. provider[p] # "typesafe" => Complete(p, "typesafe")'
      BY <1>1, <2>2 DEF Facts, HasAnswers, Complete, Aligned, RunsOf, Specimen, ProviderNames
    <3> QED BY <1>1, <2>1, <2>2, <3>1, <3>2, <3>3 DEF HasAnswers, ProviderNames
  <2>10. HasBundle(p)' BY <2>1 DEF HasBundle
  <2> QED BY <2>7, <2>8, <2>9, <2>10 DEF Facts
<1> QED BY <1>2, <1>3 DEF CloseDispatcher

(* The second discovery, with the answers all in. *)
LEMMA RediscoverFacts ==
    ASSUME NEW p \in Runners, Own(p), Rediscover(p)
    PROVE  Facts(p)'
<1> USE DEF Making, Sealing, Reconciling, Rediscovering, Answered, Asking, Copied, Copying, Entered, Before, RunnerStages
<1>1. Facts(p) /\ UNCHANGED <<disk, content, left, provider>> /\ pc[p] = <<"rediscover">>
  BY DEF Own, Rediscover, files, worker
<1>2. CASE Fail(p) /\ UNCHANGED mem BY <1>1, <1>2, FailFacts
<1>3. CASE Set(p, "post", <<catalog>>) /\ Goto(p, <<"create", "model-catalog-post">>)
  <2>1. mem'[p] = [x \in LocalNames |-> IF x = "post" THEN <<catalog>> ELSE mem[p][x]]
    BY <1>3, Setting DEF LocalNames
  <2>2. /\ mem'[p].specimen = mem[p].specimen /\ mem'[p].results = mem[p].results
        /\ mem'[p].pre = mem[p].pre /\ mem'[p].copy = mem[p].copy
        /\ mem'[p].post = <<catalog>>
    BY <2>1 DEF LocalNames
  <2>3. pc'[p] = <<"create", "model-catalog-post">> BY <1>3, Arrives
  <2>4. left[p] = 0 BY <1>1 DEF Facts, RunnerOK
  <2>7. RunnerOK(p)' BY <1>1, <2>2, <2>3, <2>4, PlainOK DEF Facts, Plain, Specimen
  <2>8. HasSpecimen(p)' BY <1>1, <2>2, <2>3, <2>4 DEF Facts, HasSpecimen, Specimen, Inside, Has
  <2>9. HasAnswers(p)'
    <3>1. \A n \in ProviderNames : Complete(p, n)'
      BY <1>1, <2>2 DEF Facts, HasAnswers, Complete, Aligned, RunsOf, Specimen, ProviderNames
    <3> QED BY <2>3, <3>1 DEF HasAnswers, ProviderNames
  <2>10. HasBundle(p)' BY <1>1, <2>2, <2>3 DEF Facts, HasBundle, None
  <2> QED BY <2>7, <2>8, <2>9, <2>10 DEF Facts
<1> QED BY <1>2, <1>3 DEF Rediscover

(* The report is about the audits as they are and will stay. *)
LEMMA ReconcileFacts ==
    ASSUME NEW p \in Runners, Own(p), Reconcile(p)
    PROVE  Facts(p)'
<1> USE DEF Making, Sealing, Reconciling, Rediscovering, Answered, Asking, Copied, Copying, Entered, Before, RunnerStages
<1>1. Facts(p) /\ UNCHANGED <<disk, content, left, provider>> /\ pc[p] = <<"reconcile">>
  BY DEF Own, Reconcile, files, worker
<1>3. Set(p, "report", <<ReportOf(p)>>) /\ Goto(p, <<"create", "reconciliation">>)
  BY DEF Reconcile, ReportOf
<1>21. mem'[p] = [x \in LocalNames |-> IF x = "report" THEN <<ReportOf(p)>> ELSE mem[p][x]]
  BY <1>3, Setting DEF LocalNames
<1>22. /\ mem'[p].specimen = mem[p].specimen /\ mem'[p].results = mem[p].results
      /\ mem'[p].pre = mem[p].pre /\ mem'[p].copy = mem[p].copy
      /\ mem'[p].post = mem[p].post
      /\ mem'[p].report = <<ReportOf(p)>>
  BY <1>21 DEF LocalNames
<1>23. pc'[p] = <<"create", "reconciliation">> BY <1>3, Arrives
<1>24. left[p] = 0 BY <1>1 DEF Facts, RunnerOK
<1>27. RunnerOK(p)' BY <1>1, <1>22, <1>23, <1>24, PlainOK DEF Facts, Plain, Specimen
<1>28. HasSpecimen(p)' BY <1>1, <1>22, <1>23, <1>24 DEF Facts, HasSpecimen, Specimen, Inside, Has
<1>29. HasAnswers(p)'
  <2>1. \A n \in ProviderNames : Complete(p, n)'
    BY <1>1, <1>22 DEF Facts, HasAnswers, Complete, Aligned, RunsOf, Specimen, ProviderNames
  <2> QED BY <1>23, <2>1 DEF HasAnswers, ProviderNames
<1>30. ReportOf(p)' = ReportOf(p)
  BY <1>1, <1>22 DEF ReportOf, Specimen
<1>31. HasBundle(p)' BY <1>1, <1>22, <1>23, <1>30 DEF Facts, HasBundle, Has
<1> QED BY <1>27, <1>28, <1>29, <1>31 DEF Facts

(* All of the bundle is there when it is sealed. *)
LEMMA SealFacts ==
    ASSUME NEW p \in Runners, Own(p), Seal(p)
    PROVE  Facts(p)'
<1> USE DEF Making, Sealing, Reconciling, Rediscovering, Answered, Asking, Copied, Copying, Entered, Before, RunnerStages
<1>1. Facts(p) /\ UNCHANGED <<disk, content, left, provider>> /\ pc[p] = <<"seal">>
  BY DEF Own, Seal, files, worker
<1>3. Set(p, "seal", <<Sealed(p)>>) /\ Goto(p, <<"create", "seal">>)
  BY DEF Seal
<1>21. mem'[p] = [x \in LocalNames |-> IF x = "seal" THEN <<Sealed(p)>> ELSE mem[p][x]]
  BY <1>3, Setting DEF LocalNames
<1>22. /\ mem'[p].specimen = mem[p].specimen /\ mem'[p].results = mem[p].results
      /\ mem'[p].pre = mem[p].pre /\ mem'[p].copy = mem[p].copy
      /\ mem'[p].post = mem[p].post /\ mem'[p].report = mem[p].report
      /\ mem'[p].seal = <<Sealed(p)>>
  BY <1>21 DEF LocalNames
<1>23. pc'[p] = <<"create", "seal">> BY <1>3, Arrives
<1>24. left[p] = 0 BY <1>1 DEF Facts, RunnerOK
<1>27. RunnerOK(p)' BY <1>1, <1>22, <1>23, <1>24, PlainOK DEF Facts, Plain, Specimen
<1>28. HasSpecimen(p)' BY <1>1, <1>22, <1>23, <1>24 DEF Facts, HasSpecimen, Specimen, Inside, Has
<1>29. HasAnswers(p)'
  <2>1. \A n \in ProviderNames : Complete(p, n)'
    BY <1>1, <1>22 DEF Facts, HasAnswers, Complete, Aligned, RunsOf, Specimen, ProviderNames
  <2> QED BY <1>23, <2>1 DEF HasAnswers, ProviderNames
<1>30. ReportOf(p)' = ReportOf(p)
  BY <1>1, <1>22 DEF ReportOf, Specimen
<1>31. \A f \in Bundle : disk[f] # "absent"
  <2>1. \A n \in ProviderNames : Len(content[n]) = RunsOf(p)
    BY <1>1 DEF Facts, HasAnswers, Complete, ProviderNames
  <2>2. RunsOf(p) \in 1..MaxRuns
    BY <1>1 DEF Facts, HasSpecimen, ValidSpecimen, RunsOf, Inside
  <2>3. \A n \in ProviderNames : disk[n] = "complete"
    BY <2>1, <2>2 DEF Own, DirectoryInv, None, Files, Bundle
  <2> QED BY <1>1, <2>3 DEF Facts, HasBundle, HasSpecimen, Has, Bundle
<1>32. Sealed(p) = SealOf(p)
  <2>1. {f \in Bundle : disk[f] # "absent"} = Bundle BY <1>31
  <2> QED BY <2>1 DEF Sealed, SealOf
<1>33. SealOf(p)' = SealOf(p) BY <1>1, <1>22 DEF SealOf
<1>34. HasBundle(p)' BY <1>1, <1>22, <1>23, <1>30, <1>32, <1>33 DEF Facts, HasBundle, Has
<1> QED BY <1>27, <1>28, <1>29, <1>34 DEF Facts

(* A killed run has no worker left. *)
LEMMA KillFacts ==
    ASSUME NEW p \in Runners, Own(p), Kill(p)
    PROVE  Facts(p)'
<1>1. pc'[p] = <<"killed">> BY Arrives DEF Kill
<1>2. left'[p] = 0 /\ mem'[p] = mem[p] /\ content'["specimen"] = content["specimen"] /\ Facts(p)
  BY DEF Kill, files, Own
<1>3. MaxRuns \in Nat BY LiveAssumption
<1> QED BY <1>1, <1>2, <1>3, FailedFacts


(* What Append does to a sequence. *)
LEMMA Appended ==
    ASSUME NEW S, NEW s \in Seq(S), NEW e \in S
    PROVE  /\ Append(s, e) \in Seq(S)
           /\ Len(s) \in Nat /\ Len(Append(s, e)) = Len(s) + 1
           /\ \A i \in 1..Len(s) : Append(s, e)[i] = s[i]
           /\ Append(s, e)[Len(s) + 1] = e
  OBVIOUS

(* No answers yet is a sequence of answers of any kind. *)
LEMMA NoneIsSequence == \A S : <<>> \in Seq(S)
  OBVIOUS

(* A sequence that something was appended to is not empty. *)
LEMMA AppendedSome ==
    ASSUME NEW S, NEW s \in Seq(S), NEW x
    PROVE  Append(s, x) # <<>>
<1>1. s \in Seq(S \cup {x}) OBVIOUS
<1>2. Len(Append(s, x)) = Len(s) + 1 /\ Len(s) \in Nat BY <1>1
<1>3. Len(<<>>) = 0 OBVIOUS
<1> QED BY <1>2, <1>3

(* A run creates and writes its files one after another. *)
LEMMA CreateFacts ==
    ASSUME NEW p \in Runners, Own(p), NEW file \in Files \ ProviderNames, Create(p, file)
    PROVE  Facts(p)'
<1> USE DEF Making, Sealing, Reconciling, Rediscovering, Answered, Asking, Copied, Copying, Entered, Before, RunnerStages
<1>1. Facts(p) /\ UNCHANGED <<content, mem, left, provider>> /\ pc[p] = <<"create", file>>
  BY DEF Own, Create, worker
<1>2. CASE Fail(p) /\ UNCHANGED disk BY <1>1, <1>2, FailFacts
<1>3. CASE /\ Goto(p, <<"write", file>>) /\ disk' = [disk EXCEPT ![file] = "partial"]
           /\ disk[file] = "absent"
  <2>1. file \notin SpecimenFiles BY <1>1 DEF Own, DiskInv
  <2>2. file \in {"frozen-specimen", "model-catalog-pre", "provider-results", "model-catalog-post",
                  "reconciliation", "seal"}
    BY <2>1 DEF Files, Bundle, SpecimenFiles, ProviderNames
  <2>3. pc'[p] = <<"write", file>> BY <1>3, Arrives
  <2>4. left[p] = 0 BY <1>1, <2>2 DEF Facts, RunnerOK
  <2>5. \A f \in Evidence \ {file} : disk'[f] = disk[f]
    BY <1>3 DEF Own, DiskInv, Evidence, Files
  <2>7. RunnerOK(p)' BY <1>1, <2>2, <2>3, <2>4, PlainOK DEF Facts, Plain, Specimen
  <2>8. HasSpecimen(p)'
    BY <1>1, <2>2, <2>3, <2>4, <2>5 DEF Facts, HasSpecimen, Specimen, Inside, Has, Evidence, Bundle
  <2>9. HasAnswers(p)'
    <3>1. \A n \in ProviderNames : (Complete(p, n)' <=> Complete(p, n)) /\ (NotAsked(p, n)' <=> NotAsked(p, n))
      BY <1>1 DEF Complete, Aligned, RunsOf, Specimen, NotAsked
    <3> QED BY <1>1, <2>2, <2>3, <3>1 DEF Facts, HasAnswers, ProviderNames
  <2>10. HasBundle(p)'
    <3>1. ReportOf(p)' = ReportOf(p) /\ SealOf(p)' = SealOf(p)
      BY <1>1 DEF ReportOf, SealOf, Specimen
    <3> QED BY <1>1, <2>2, <2>3, <2>5, <3>1 DEF Facts, HasBundle, Has, Evidence, Bundle
  <2> QED BY <2>7, <2>8, <2>9, <2>10 DEF Facts
<1> QED BY <1>2, <1>3 DEF Create, CreatesNothing, Own, DiskInv

(* A file that has been written holds the local it was written from. *)
LEMMA WriteFacts ==
    ASSUME NEW p \in Runners, Own(p), NEW file \in Files \ ProviderNames, Write(p, file)
    PROVE  Facts(p)'
<1> USE DEF Making, Sealing, Reconciling, Rediscovering, Answered, Asking, Copied, Copying, Entered, Before, RunnerStages
<1>1. Facts(p) /\ UNCHANGED <<mem, left, provider>> /\ pc[p] = <<"write", file>>
  BY DEF Own, Write, worker
<1>10. file \notin SpecimenFiles BY <1>1 DEF Own, DiskInv
<1>2. CASE Fail(p) /\ UNCHANGED content
  <2>1. pc'[p] = <<"failed">> BY <1>2, Arrives DEF Fail
  <2>2. MaxRuns \in Nat BY LiveAssumption
  <2> QED BY <1>1, <1>2, <2>1, <2>2, FailedFacts
<1>3. CASE /\ disk' = [disk EXCEPT ![file] = "complete"]
           /\ content' = [content EXCEPT ![file] = Payload(p, file)]
           /\ Goto(p, After(file))
  <2>2. file \in {"frozen-specimen", "model-catalog-pre", "provider-results", "model-catalog-post",
                  "reconciliation", "seal"}
    BY <1>10 DEF Files, Bundle, SpecimenFiles, ProviderNames
  <2>3. pc'[p] = After(file) BY <1>3, Arrives
  <2>4. left[p] = 0 BY <1>1, <2>2 DEF Facts, RunnerOK
  <2>5. \A f \in Files \ {file} : disk'[f] = disk[f] /\ content'[f] = content[f]
    BY <1>3 DEF Own, DiskInv
  <2>6. disk'[file] = "complete" /\ content'[file] = Payload(p, file)
    BY <1>3 DEF Own, DiskInv
  <2>61. content'["specimen"] = content["specimen"] BY <1>10, <2>5 DEF SpecimenFiles, Files
  <2>62. \A n \in ProviderNames : content'[n] = content[n]
    BY <2>2, <2>5 DEF Files, Bundle, ProviderNames
  <2>7. RunnerOK(p)'
    <3>1. After(file) \in RunnerStages BY <2>2 DEF After
    <3> QED BY <1>1, <2>2, <2>3, <2>4, <3>1, PlainOK DEF Facts, Plain, Specimen
  <2>8. HasSpecimen(p)'
    BY <1>1, <2>2, <2>3, <2>4, <2>5, <2>6, <2>61 DEF Facts, HasSpecimen, Specimen, Inside, Has, Files, Bundle, After, Payload
  <2>9. HasAnswers(p)'
    <3>1. \A n \in ProviderNames : (Complete(p, n)' <=> Complete(p, n)) /\ (NotAsked(p, n)' <=> NotAsked(p, n))
      BY <1>1, <2>62 DEF Complete, Aligned, RunsOf, Specimen, NotAsked
    <3> QED BY <1>1, <2>2, <2>3, <3>1 DEF Facts, HasAnswers, ProviderNames, After
  <2>10. HasBundle(p)'
    <3>1. ReportOf(p)' = ReportOf(p)
      BY <1>1, <2>62 DEF ReportOf, Specimen
    <3>2. file = "seal" => SealOf(p)' = SealOf(p)
      BY <1>1, <2>5 DEF SealOf, Files, Bundle
    <3> QED BY <1>1, <2>2, <2>3, <2>5, <2>6, <3>1, <3>2 DEF Facts, HasBundle, Has, Files, Bundle, After, Payload
  <2> QED BY <2>7, <2>8, <2>9, <2>10 DEF Facts
<1> QED BY <1>2, <1>3 DEF Write

(* The worker of a run answers one request.                                *)
Asked(p, n, observation, persisted) ==
    /\ content'[n] = IF persisted THEN Append(content[n], observation) ELSE content[n]
    /\ mem'[p].results[n] = Append(mem[p].results[n],
                               Verdicts(Specimen(p).template.questions, observation, persisted))

(* What an answer does, said of the audit and the results it is about. *)
LEMMA AnswerDoes ==
    ASSUME NEW p \in Runners, Own(p), Answer(p)
    PROVE  \E outcome \in Outcomes[provider[p]], persisted \in BOOLEAN :
             /\ Asked(p, provider[p], Observed(Specimen(p), outcome), persisted)
             /\ persisted => disk' = [disk EXCEPT ![provider[p]] = "complete"]
             /\ persisted => content' = [content EXCEPT ![provider[p]] = Append(@, Observed(Specimen(p), outcome))]
             /\ ~persisted => UNCHANGED <<disk, content>>
             /\ mem'[p] = [x \in LocalNames |-> IF x = "results" THEN mem'[p].results ELSE mem[p][x]]
             /\ mem'[p].results = [n \in ProviderNames |-> mem'[p].results[n]]
             /\ \A n \in ProviderNames \ {provider[p]} : mem'[p].results[n] = mem[p].results[n]
<1>1. PICK outcome \in Outcomes[provider[p]], persisted \in BOOLEAN :
         LET observation == Observed(Specimen(p), outcome)
             verdicts    == Verdicts(Specimen(p).template.questions, observation, persisted)
         IN  /\ IF persisted
                  THEN Audit(provider[p], observation) /\ NoFault
                  ELSE UNCHANGED <<content, disk>> /\ Fault
             /\ mem' = [mem EXCEPT ![p].results[provider[p]] = Append(@, verdicts)]
  BY DEF Answer
<1> DEFINE observation == Observed(Specimen(p), outcome)
           verdicts    == Verdicts(Specimen(p).template.questions, observation, persisted)
<1>2. p \in Processes /\ provider[p] \in ProviderNames /\ ProviderNames \subseteq Files
  BY DEF Processes, Own, DiskInv, Files, Bundle
<1>3. /\ mem = [q \in Processes |-> mem[q]] /\ mem[p] = [x \in LocalNames |-> mem[p][x]]
      /\ mem[p].results = [n \in ProviderNames |-> mem[p].results[n]]
  BY <1>2 DEF Own, DiskInv, MemInv
<1>4. mem' = [mem EXCEPT ![p].results[provider[p]] = Append(@, verdicts)] BY <1>1
<1> HIDE DEF verdicts
<1>5. /\ mem'[p] = [x \in LocalNames |-> IF x = "results" THEN mem'[p].results ELSE mem[p][x]]
      /\ mem'[p].results = [n \in ProviderNames |-> mem'[p].results[n]]
      /\ \A n \in ProviderNames \ {provider[p]} : mem'[p].results[n] = mem[p].results[n]
      /\ mem'[p].results[provider[p]] = Append(mem[p].results[provider[p]], verdicts)
  BY <1>2, <1>3, <1>4 DEF LocalNames
<1> HIDE DEF observation
<1>6. /\ persisted => disk' = [disk EXCEPT ![provider[p]] = "complete"]
      /\ persisted => content' = [content EXCEPT ![provider[p]] = Append(@, observation)]
      /\ ~persisted => UNCHANGED <<disk, content>>
  BY <1>1 DEF Audit, observation
<1>7. content'[provider[p]] = IF persisted THEN Append(content[provider[p]], observation) ELSE content[provider[p]]
  BY <1>6, <1>2 DEF Own, DiskInv
<1>8. Asked(p, provider[p], observation, persisted)
  BY <1>5, <1>7 DEF Asked, verdicts
<1> QED BY <1>5, <1>6, <1>8 DEF observation

(* An answer that is audited keeps results and audit in step. *)
LEMMA AnswerFacts ==
    ASSUME NEW p \in Runners, Own(p), Answer(p)
    PROVE  Facts(p)'
<1> USE DEF Making, Sealing, Reconciling, Rediscovering, Answered, Asking, Copied, Copying, Entered, Before, RunnerStages
<1>1. PICK outcome \in Outcomes[provider[p]], persisted \in BOOLEAN :
             /\ Asked(p, provider[p], Observed(Specimen(p), outcome), persisted)
             /\ persisted => disk' = [disk EXCEPT ![provider[p]] = "complete"]
             /\ persisted => content' = [content EXCEPT ![provider[p]] = Append(@, Observed(Specimen(p), outcome))]
             /\ ~persisted => UNCHANGED <<disk, content>>
             /\ mem'[p] = [x \in LocalNames |-> IF x = "results" THEN mem'[p].results ELSE mem[p][x]]
             /\ mem'[p].results = [n \in ProviderNames |-> mem'[p].results[n]]
             /\ \A n \in ProviderNames \ {provider[p]} : mem'[p].results[n] = mem[p].results[n]
  BY AnswerDoes
<1>2. Facts(p) /\ UNCHANGED <<pc, provider>> /\ left[p] > 0 BY DEF Answer, Own
<1>3. left[p] \in 1..MaxRuns /\ left'[p] = left[p] - 1
  BY <1>2 DEF Answer, Own, DirectoryInv
<1>4. pc[p] \in {<<"close">>, <<"failed">>} BY <1>2 DEF Facts, RunnerOK
<1>5. /\ mem'[p].specimen = mem[p].specimen /\ mem'[p].pre = mem[p].pre /\ mem'[p].copy = mem[p].copy
      /\ Specimen(p)' = Specimen(p) /\ RunsOf(p)' = RunsOf(p)
  BY <1>1 DEF LocalNames, Specimen, RunsOf
<1>6. mem[p].specimen = content["specimen"] /\ mem[p].specimen # None /\ ValidSpecimen(Specimen(p))
  BY <1>2 DEF Facts, HasSpecimen, Inside
<1>7. provider[p] \in ProviderNames /\ ProviderNames \subseteq Files BY DEF Own, DiskInv, Files, Bundle
<1>8. \A f \in Files \ ProviderNames : disk'[f] = disk[f] /\ content'[f] = content[f]
  BY <1>1, <1>7 DEF Own, DiskInv
<1>9. \A n \in ProviderNames \ {provider[p]} : content'[n] = content[n]
  BY <1>1, <1>7 DEF Own, DiskInv
<1> DEFINE observation == Observed(Specimen(p), outcome)
           verdicts    == Verdicts(Specimen(p).template.questions, observation, persisted)
<1>10. observation \in AuditSet(Specimen(p)) /\ verdicts \in VerdictSet(Specimen(p))
  BY <1>7 DEF AuditSet, VerdictSet
<1>11. persisted => verdicts = observation.verdicts BY DEF Verdicts
<1> HIDE DEF verdicts
<1>12. mem'[p].results[provider[p]] = Append(mem[p].results[provider[p]], verdicts)
  BY <1>1 DEF Asked, verdicts
<1> HIDE DEF observation
<1>13. content'[provider[p]] = IF persisted THEN Append(content[provider[p]], observation) ELSE content[provider[p]]
  BY <1>1 DEF Asked, observation
<1>14. mem[p].results[provider[p]] \in Seq(VerdictSet(Specimen(p)))
  BY <1>2, <1>7, NoneIsSequence DEF Facts, RunnerOK
<1>15. content[provider[p]] \in Seq(AuditSet(Specimen(p)))
  <2>1. AuditSet(FrozenSpecimen) = AuditSet(Specimen(p)) BY <1>6 DEF FrozenSpecimen, Specimen
  <2> QED BY <2>1, <1>7, NoneIsSequence DEF Own, DirectoryInv
<1>16. /\ mem'[p].results[provider[p]] \in Seq(VerdictSet(Specimen(p)))
       /\ LET s == mem[p].results[provider[p]]
              t == mem'[p].results[provider[p]]
          IN  /\ Len(s) \in Nat /\ Len(t) = Len(s) + 1
              /\ \A i \in 1..Len(s) : t[i] = s[i]
              /\ t[Len(s) + 1] = verdicts
  <2> DEFINE s == mem[p].results[provider[p]]
             t == mem'[p].results[provider[p]]
             V == VerdictSet(Specimen(p))
  <2>1. s \in Seq(V) /\ verdicts \in V /\ t = Append(s, verdicts) BY <1>10, <1>12, <1>14
  <2> HIDE DEF s, t, V
  <2>2. /\ t \in Seq(V) /\ Len(s) \in Nat /\ Len(t) = Len(s) + 1
        /\ \A i \in 1..Len(s) : t[i] = s[i]
        /\ t[Len(s) + 1] = verdicts
    BY <2>1, Appended
  <2> QED BY <2>2 DEF s, t, V
<1>161. Len(content[provider[p]]) \in Nat BY <1>15
<1>162. persisted =>
          LET s == content[provider[p]]
              t == content'[provider[p]]
          IN  /\ Len(t) = Len(s) + 1
              /\ \A i \in 1..Len(s) : t[i] = s[i]
              /\ t[Len(s) + 1] = observation
  BY <1>10, <1>13, <1>15, Appended
<1>17. RunnerOK(p)'
  <2>1. \A n \in ProviderNames :
        \/ mem'[p].results[n] = <<>>
        \/ mem'[p].specimen # None /\ mem'[p].results[n] \in Seq(VerdictSet(Specimen(p)'))
    <3> TAKE n \in ProviderNames
    <3>1. CASE n = provider[p] BY <1>5, <1>6, <1>16, <3>1
    <3>2. CASE n # provider[p] BY <1>1, <1>2, <1>5, <3>2 DEF Facts, RunnerOK
    <3> QED BY <3>1, <3>2
  <2>2. left'[p] \in 0..MaxRuns BY <1>3, LiveAssumption
  <2> QED BY <1>2, <1>4, <2>1, <2>2 DEF RunnerOK
<1>18. HasSpecimen(p)'
  <2>1. content'["specimen"] = content["specimen"] BY <1>8 DEF Files, ProviderNames
  <2>2. Has("frozen-specimen", mem[p].specimen) => Has("frozen-specimen", mem[p].specimen)'
    BY <1>5, <1>8 DEF Has, Files, Bundle, ProviderNames
  <2>3. Has("model-catalog-pre", mem[p].pre) => Has("model-catalog-pre", mem[p].pre)'
    BY <1>5, <1>8 DEF Has, Files, Bundle, ProviderNames
  <2> QED BY <1>2, <1>4, <1>5, <1>6, <2>1, <2>2, <2>3 DEF Facts, HasSpecimen
<1>19. HasAnswers(p)'
  <2> SUFFICES ASSUME NEW n, n = provider[p] PROVE HasAnswers(p)' OBVIOUS
  <2>1. CASE pc[p] = <<"close">>
    <3>1. Going(p, n) BY <1>2, <1>7, <2>1 DEF Facts, HasAnswers, ProviderNames
    <3>2. Len(mem'[p].results[n]) = Len(mem[p].results[n]) + 1 /\ Len(mem[p].results[n]) \in Nat
      BY <1>16
    <3>3. ASSUME ~persisted PROVE Going(p, n)'
      <4>1. Len(content'[n]) = Len(content[n]) /\ Len(content[n]) \in Nat BY <1>13, <1>161, <3>3
      <4>2. left[p] \in Int /\ left'[p] = left[p] - 1 BY <1>3, LiveAssumption
      <4>3. Len(mem'[p].results[n]) + left'[p] = RunsOf(p)'
        <5>1. Len(mem'[p].results[n]) + left'[p] = Len(mem[p].results[n]) + left[p] BY <3>2, <4>2, SMTT(30)
        <5>2. Len(mem[p].results[n]) + left[p] = RunsOf(p) BY <3>1 DEF Going
        <5>3. RunsOf(p)' = RunsOf(p) BY <1>5
        <5> QED BY <5>1, <5>2, <5>3
      <4>4. Len(content'[n]) <= Len(mem'[p].results[n]) /\ Len(content'[n]) # Len(mem'[p].results[n])
        BY <3>1, <3>2, <4>1, SMTT(30) DEF Going
      <4> QED BY <4>3, <4>4 DEF Going
    <3>4. ASSUME persisted PROVE Going(p, n)'
      <4>1. Len(content'[n]) = Len(content[n]) + 1 /\ Len(content[n]) \in Nat
        BY <1>161, <1>162, <3>4
      <4>2. Len(content[n]) = Len(mem[p].results[n]) => Aligned(p, n)'
        <5> SUFFICES ASSUME Len(content[n]) = Len(mem[p].results[n]), NEW i \in 1..Len(content'[n])
                     PROVE  mem'[p].results[n][i] = content'[n][i].verdicts
          BY DEF Aligned
        <5>1. CASE i = Len(content[n]) + 1
          BY <1>11, <1>16, <1>162, <3>4, <5>1
        <5>2. CASE i \in 1..Len(content[n])
          <6>1. mem[p].results[n][i] = content[n][i].verdicts BY <3>1, <5>2 DEF Going, Aligned
          <6> QED BY <1>16, <1>162, <3>4, <5>2, <6>1
        <5>3. i \in 1..Len(content[n]) \/ i = Len(content[n]) + 1 BY <4>1
        <5> QED BY <5>1, <5>2, <5>3
      <4>5. left[p] \in Int /\ left'[p] = left[p] - 1 BY <1>3, LiveAssumption
      <4>3. Len(mem'[p].results[n]) + left'[p] = RunsOf(p)'
        <5>1. Len(mem'[p].results[n]) + left'[p] = Len(mem[p].results[n]) + left[p] BY <3>2, <4>5, SMTT(30)
        <5>2. Len(mem[p].results[n]) + left[p] = RunsOf(p) BY <3>1 DEF Going
        <5>3. RunsOf(p)' = RunsOf(p) BY <1>5
        <5> QED BY <5>1, <5>2, <5>3
      <4>4. /\ Len(content'[n]) <= Len(mem'[p].results[n])
            /\ Len(content'[n]) = Len(mem'[p].results[n]) => Len(content[n]) = Len(mem[p].results[n])
        <5>1. Len(content[n]) <= Len(mem[p].results[n]) BY <3>1 DEF Going
        <5> QED BY <3>2, <4>1, <5>1, SMTT(30)
      <4> QED BY <4>2, <4>3, <4>4 DEF Going
    <3>5. Going(p, n)' BY <3>3, <3>4
    <3>6. n = "typesafe" => NotAsked(p, "vercel-typesafe")'
      BY <1>1, <1>2, <1>9, <2>1 DEF Facts, HasAnswers, NotAsked, ProviderNames
    <3>7. n = "vercel-typesafe" => Complete(p, "typesafe")'
      <4> SUFFICES ASSUME n = "vercel-typesafe" PROVE Complete(p, "typesafe")'
        OBVIOUS
      <4>1. content'["typesafe"] = content["typesafe"] /\ mem'[p].results["typesafe"] = mem[p].results["typesafe"]
        BY <1>1, <1>9 DEF ProviderNames
      <4> QED BY <1>2, <1>5, <2>1, <4>1 DEF Facts, HasAnswers, Complete, Aligned
    <3> QED BY <1>2, <1>7, <2>1, <3>5, <3>6, <3>7 DEF HasAnswers, ProviderNames
  <2>2. CASE pc[p] = <<"failed">> BY <1>2, <2>2 DEF HasAnswers
  <2> QED BY <1>4, <2>1, <2>2
<1>20. HasBundle(p)' BY <1>2, <1>4 DEF HasBundle
<1> QED BY <1>17, <1>18, <1>19, <1>20 DEF Facts


-----------------------------------------------------------------------------
FileStep(p) == \E file \in Files \ ProviderNames : Create(p, file) \/ Write(p, file)

(* What a step of p, or of its worker, leaves to the others.               *)
LeavesOthers(p) ==
    /\ \A q \in Processes \ {p} : pc'[q] = pc[q] /\ mem'[q] = mem[q]
    /\ \A q \in Runners \ {p} : left'[q] = left[q] /\ provider'[q] = provider[q]

EvidenceKept == \A f \in Evidence : disk'[f] = disk[f] /\ content'[f] = content[f]
SpecimenKept == \A f \in SpecimenFiles : disk'[f] = disk[f] /\ content'[f] = content[f]

(* A process does nothing to the locals, the counts or the stage of another. *)
LEMMA QuietLeavesOthers ==
    ASSUME DiskInv, NEW p \in Processes, NEW stage, Quiet(p, stage),
           \A q \in Runners \ {p} : left'[q] = left[q] /\ provider'[q] = provider[q]
    PROVE  LeavesOthers(p) /\ EvidenceKept /\ SpecimenKept
  BY DEF Quiet, LeavesOthers, EvidenceKept, SpecimenKept, Goto, DiskInv

(* Only a run's own step sends its workers out or calls them in. *)
LEMMA WorkersLeft ==
    ASSUME DiskInv, left \in [Runners -> 0..MaxRuns], NEW p \in Processes,
           FileStep(p) \/ Freeze(p) \/ Run(p) \/ Kill(p) \/ Answer(p)
    PROVE  \A q \in Runners \ {p} : left'[q] = left[q] /\ provider'[q] = provider[q]
<1>1. CASE FileStep(p) BY <1>1 DEF FileStep, Create, Write, worker
<1>2. CASE Freeze(p) BY <1>2 DEF Freeze, CurrentCommit, Select, CheckUnfrozen, Reload, worker
<1>3. CASE Run(p)
  <2>1. Prepare(p) => UNCHANGED worker
    BY DEF Prepare, Load, CheckFresh, Discover, Mkdir, CheckCommit, Copy
  <2>2. CloseDispatcher(p) \/ Rediscover(p) \/ Reconcile(p) \/ Seal(p) => UNCHANGED worker
    BY DEF CloseDispatcher, Rediscover, Reconcile, Seal
  <2>3. Dispatch(p) => \A q \in Runners \ {p} : left'[q] = left[q] /\ provider'[q] = provider[q]
    BY DEF Dispatch, DiskInv
  <2> QED BY <1>3, <2>1, <2>2, <2>3 DEF Run, worker
<1>4. CASE Kill(p) BY <1>4 DEF Kill
<1>5. CASE Answer(p) BY <1>5 DEF Answer
<1> QED BY <1>1, <1>2, <1>3, <1>4, <1>5

(* Writing a file changes nothing but the file and the stage. *)
LEMMA FileStepLeaves ==
    ASSUME DiskInv, NEW p \in Processes, NEW file \in Files \ ProviderNames,
           Create(p, file) \/ Write(p, file)
    PROVE  /\ LeavesOthers(p) /\ UNCHANGED <<outDir, mem, catalog, commit, left, provider>>
           /\ \A f \in Files \ {file} : disk'[f] = disk[f] /\ content'[f] = content[f]
           /\ pc[p] \in Making(file)
           /\ \/ pc'[p] = <<"failed">>
              \/ pc'[p] = <<"write", file>> /\ pc[p] = <<"create", file>>
              \/ pc'[p] = After(file) /\ pc[p] = <<"write", file>>
                 /\ disk'[file] = "complete" /\ content'[file] = Payload(p, file)
           /\ \/ disk'[file] = "complete" /\ content'[file] = Payload(p, file) /\ pc'[p] = After(file)
                 /\ pc[p] = <<"write", file>>
              \/ disk[file] # "complete" /\ disk'[file] # "complete" /\ content'[file] = content[file]
              \/ disk'[file] = disk[file] /\ content'[file] = content[file]
<1>1. CASE Create(p, file)
  BY <1>1 DEF Create, CreatesNothing, LeavesOthers, Goto, Fail, DiskInv, Making, worker, world
<1>2. CASE Write(p, file)
  <2>1. disk[file] = "partial" BY <1>2 DEF Write, DiskInv
  <2> QED BY <1>2, <2>1 DEF Write, LeavesOthers, Goto, Fail, DiskInv, Making, worker, world
<1> QED BY <1>1, <1>2

(* Freezes leave the evidence alone, and runs the specimen; a run does     *)
(* nothing to the evidence from outside of its directory.                  *)
LEMMA FreezerLeaves ==
    ASSUME DiskInv, RunInv, NEW p \in Freezers, FileStep(p) \/ Freeze(p) \/ Kill(p)
    PROVE  /\ LeavesOthers(p) /\ EvidenceKept /\ UNCHANGED <<outDir, catalog, commit, provider>>
           /\ content["specimen"] # None => content'["specimen"] = content["specimen"]
<1>0. p \in Processes /\ p \notin Runners BY LiveAssumption DEF Processes
<1>1. CASE FileStep(p)
  <2>1. PICK file \in Files \ ProviderNames : Create(p, file) \/ Write(p, file) BY <1>1 DEF FileStep
  <2>2. pc[p] \in Making(file) BY <1>0, <2>1, FileStepLeaves
  <2>3. file \notin Evidence BY <2>2 DEF RunInv, FreezerOK
  <2>4. EvidenceKept BY <1>0, <2>1, <2>3, FileStepLeaves DEF EvidenceKept, Evidence, Files
  <2>5. content["specimen"] # None => content'["specimen"] = content["specimen"]
    <3>1. content["specimen"] # None => disk["specimen"] = "complete"
      BY DEF RunInv, DirectoryInv, Files
    <3>2. Create(p, file) => UNCHANGED content BY DEF Create
    <3>3. Write(p, file) => disk[file] = "partial" BY DEF Write, DiskInv, Processes
    <3>4. file # "specimen" => content'["specimen"] = content["specimen"]
      BY <1>0, <2>1, FileStepLeaves DEF Files
    <3> QED BY <2>1, <3>1, <3>2, <3>3, <3>4
  <2> QED BY <1>0, <2>1, <2>4, <2>5, FileStepLeaves
<1>2. CASE Freeze(p) \/ Kill(p)
  <2>1. PICK stage : Quiet(p, stage) BY <1>0, <1>2, StepsAreQuiet
  <2>2. left \in [Runners -> 0..MaxRuns] BY DEF RunInv, DirectoryInv
  <2>3. \A q \in Runners \ {p} : left'[q] = left[q] /\ provider'[q] = provider[q]
    BY <1>0, <1>2, <2>2, WorkersLeft
  <2>4. LeavesOthers(p) /\ EvidenceKept BY <1>0, <2>1, <2>3, QuietLeavesOthers
  <2>5. UNCHANGED <<outDir, catalog, commit, provider, content>>
    <3>1. Freeze(p) => UNCHANGED <<files, world, worker>>
      BY DEF Freeze, CurrentCommit, Select, CheckUnfrozen, Reload
    <3>2. Kill(p) => UNCHANGED <<files, world, provider>> BY DEF Kill
    <3> QED BY <1>2, <3>1, <3>2 DEF files, world, worker
  <2> QED BY <2>4, <2>5
<1> QED BY <1>1, <1>2

(* A run touches evidence only from inside the directory. *)
LEMMA RunnerLeaves ==
    ASSUME DiskInv, RunInv, NEW p \in Runners, FileStep(p) \/ Run(p) \/ Kill(p) \/ Answer(p)
    PROVE  /\ LeavesOthers(p) /\ SpecimenKept /\ UNCHANGED <<catalog, commit>>
           /\ ~Inside(p) => EvidenceKept
<1>0. p \in Processes /\ SpecimenFiles \subseteq Files \ ProviderNames
  BY DEF Processes, SpecimenFiles, Files, Bundle, ProviderNames
<1>2. left \in [Runners -> 0..MaxRuns] BY DEF RunInv, DirectoryInv
<1>3. \A q \in Runners \ {p} : left'[q] = left[q] /\ provider'[q] = provider[q]
  BY <1>0, <1>2, WorkersLeft
<1>4. CASE FileStep(p)
  <2>1. PICK file \in Files \ ProviderNames : Create(p, file) \/ Write(p, file) BY <1>4 DEF FileStep
  <2>2. pc[p] \in Making(file) BY <1>0, <2>1, FileStepLeaves
  <2>3. file \notin SpecimenFiles BY <2>2 DEF DiskInv, Making
  <2>4. SpecimenKept BY <1>0, <2>1, <2>3, FileStepLeaves DEF SpecimenKept
  <2>5. Inside(p)
    <3>1. file \in {"frozen-specimen", "model-catalog-pre", "provider-results", "model-catalog-post",
                    "reconciliation", "seal"}
      BY <2>3 DEF Files, Bundle, SpecimenFiles, ProviderNames
    <3> QED BY <2>2, <3>1 DEF Inside, Entered, Copying, Copied, Answered, Rediscovering, Reconciling, Sealing, Making
  <2> QED BY <1>0, <2>1, <2>4, <2>5, FileStepLeaves
<1>5. CASE Run(p) \/ Kill(p)
  <2>1. PICK stage : Quiet(p, stage) BY <1>0, <1>5, StepsAreQuiet
  <2>2. LeavesOthers(p) /\ EvidenceKept /\ SpecimenKept BY <1>0, <1>3, <2>1, QuietLeavesOthers
  <2>3. Prepare(p) => UNCHANGED world
    BY DEF Prepare, Load, CheckFresh, Discover, Mkdir, CheckCommit, Copy
  <2>4. Run(p) \/ Kill(p) => UNCHANGED world
    BY <2>3 DEF Run, Dispatch, CloseDispatcher, Rediscover, Reconcile, Seal, Kill
  <2> QED BY <1>5, <2>2, <2>4 DEF world
<1>6. CASE Answer(p)
  <2>1. Inside(p) BY <1>6 DEF Answer, Inside
  <2>2. UNCHANGED <<catalog, commit>> BY <1>6 DEF Answer, world
  <2>3. LeavesOthers(p) BY <1>3, <1>6, AnswerKeepsDisk DEF LeavesOthers
  <2>4. SpecimenKept BY <1>0, <1>6, AnswerKeepsDisk DEF SpecimenKept
  <2> QED BY <2>1, <2>2, <2>3, <2>4
<1> QED BY <1>4, <1>5, <1>6


(* A step of p is one of these.                                            *)
StepOf(p) ==
    \/ p \in Freezers /\ (FileStep(p) \/ Freeze(p) \/ Kill(p))
    \/ p \in Runners /\ (FileStep(p) \/ Run(p) \/ Kill(p) \/ Answer(p))


(* Of a run alone, and then of every run after a step of any process. *)
LEMMA RunnersOwn ==
    ASSUME DiskInv, RunInv, NEW p \in Runners
    PROVE  Own(p)
  BY DEF RunInv, Own, Facts

(* Every step of a run keeps what the run knows of itself. *)
LEMMA OwnFacts ==
    ASSUME DiskInv, RunInv, NEW p \in Runners, FileStep(p) \/ Run(p) \/ Kill(p) \/ Answer(p)
    PROVE  Facts(p)'
<1>1. Own(p) BY RunnersOwn
<1>2. CASE FileStep(p) BY <1>1, <1>2, CreateFacts, WriteFacts DEF FileStep
<1>3. CASE Run(p)
  <2>1. Prepare(p) => Facts(p)'
    BY <1>1, LoadFacts, CheckFreshFacts, DiscoverFacts, MkdirFacts, CheckCommitFacts, CopyFacts DEF Prepare
  <2> QED BY <1>1, <1>3, <2>1, DispatchFacts, CloseFacts, RediscoverFacts, ReconcileFacts, SealFacts DEF Run
<1>4. CASE Kill(p) BY <1>1, <1>4, KillFacts
<1>5. CASE Answer(p) BY <1>1, <1>5, AnswerFacts
<1> QED BY <1>2, <1>3, <1>4, <1>5

(* Only the run that made the directory is inside it. *)
LEMMA OnlyOneInside ==
    ASSUME RunInv, NEW p \in Runners, NEW q \in Runners, Inside(p), Inside(q)
    PROVE  p = q
  BY DEF RunInv, DirectoryInv

(* ... and what every other run knows of itself. *)
LEMMA AllFacts ==
    ASSUME DiskInv, RunInv, NEW p \in Processes, StepOf(p),
           NEW q \in Runners
    PROVE  Facts(q)'
<1>0. q \in Processes /\ Facts(q) BY DEF Processes, RunInv, Facts
<1>1. mem[q].specimen # None => content["specimen"] # None
  BY <1>0 DEF Facts, HasSpecimen
<1>2. CASE p \in Freezers
  <2>1. p \notin Runners BY <1>2, LiveAssumption
  <2>2. /\ LeavesOthers(p) /\ EvidenceKept
        /\ content["specimen"] # None => content'["specimen"] = content["specimen"]
    BY <1>2, <2>1, FreezerLeaves DEF StepOf
  <2> QED BY <1>0, <1>1, <1>2, <2>1, <2>2, OthersKeepFacts DEF LeavesOthers, EvidenceKept
<1>3. CASE p \in Runners /\ p # q
  <2>1. /\ LeavesOthers(p) /\ SpecimenKept
        /\ ~Inside(p) => EvidenceKept
    BY <1>3, RunnerLeaves, LiveAssumption DEF StepOf
  <2>2. Inside(q) => ~Inside(p) BY <1>3, OnlyOneInside
  <2>3. content'["specimen"] = content["specimen"] BY <2>1 DEF SpecimenKept, SpecimenFiles
  <2> QED BY <1>0, <1>3, <2>1, <2>2, <2>3, OthersKeepFacts DEF LeavesOthers, EvidenceKept
<1>4. CASE p \in Runners /\ p = q BY <1>4, OwnFacts, LiveAssumption DEF StepOf
<1> QED BY <1>2, <1>3, <1>4 DEF Processes

-----------------------------------------------------------------------------
(* The locals.                                                             *)
LEMMA SetName ==
    ASSUME DiskInv, MemInv, NEW p \in Processes, NEW name \in LocalNames, NEW value, Set(p, name, value)
    PROVE  mem'[p] = [x \in LocalNames |-> IF x = name THEN value ELSE mem[p][x]]
<1>2. mem = [q \in Processes |-> mem[q]] /\ mem[p] = [x \in LocalNames |-> mem[p][x]]
  BY DEF DiskInv, MemInv
<1> QED BY <1>2 DEF Set

(* A step sets at most one of the locals, an answer apart. *)
LEMMA SetsOne ==
    ASSUME NEW p \in Processes, StepOf(p)
    PROVE  \/ UNCHANGED mem
           \/ \E name \in LocalNames \ {"results"} : \E value : Set(p, name, value)
           \/ p \in Runners /\ Answer(p)
<1>1. CASE FileStep(p) BY <1>1 DEF FileStep, Create, Write
<1>2. CASE Kill(p) BY <1>2 DEF Kill
<1>3. CASE Freeze(p)
  <2>1. Select(p) => UNCHANGED mem \/ \E value : Set(p, "specimen", value)
    BY DEF Select
  <2> QED BY <1>3, <2>1 DEF Freeze, CurrentCommit, CheckUnfrozen, Reload, LocalNames
<1>4. CASE Run(p)
  <2> HIDE DEF Set
  <2>1. Load(p) => UNCHANGED mem \/ \E value : Set(p, "specimen", value) BY DEF Load
  <2>2. Discover(p) => UNCHANGED mem \/ \E value : Set(p, "pre", value) BY DEF Discover
  <2>3. Copy(p) => UNCHANGED mem \/ \E value : Set(p, "copy", value) BY DEF Copy
  <2>4. Rediscover(p) => UNCHANGED mem \/ \E value : Set(p, "post", value) BY DEF Rediscover
  <2>5. Reconcile(p) => \E value : Set(p, "report", value) BY DEF Reconcile
  <2>6. Seal(p) => \E value : Set(p, "seal", value) BY DEF Seal
  <2>7. CheckFresh(p) \/ Mkdir(p) \/ CheckCommit(p) \/ Dispatch(p) \/ CloseDispatcher(p) => UNCHANGED mem
    BY DEF CheckFresh, Mkdir, CheckCommit, Dispatch, CloseDispatcher
  <2>8. {"specimen", "pre", "copy", "post", "report", "seal"} \subseteq LocalNames \ {"results"}
    BY DEF LocalNames
  <2> QED BY <1>4, <2>1, <2>2, <2>3, <2>4, <2>5, <2>6, <2>7, <2>8 DEF Run, Prepare
<1> QED BY <1>1, <1>2, <1>3, <1>4 DEF StepOf

(* The locals stay records of the same names. *)
LEMMA MemStep ==
    ASSUME DiskInv, RunInv, NEW p \in Processes, LeavesOthers(p), StepOf(p)
    PROVE  MemInv'
<1> DEFINE Names == LocalNames \ {"results"}
<1>1. ASSUME NEW name \in Names, NEW value, Set(p, name, value)
      PROVE  /\ mem'[p] = [x \in LocalNames |-> mem'[p][x]]
             /\ mem'[p].results = [n \in ProviderNames |-> mem'[p].results[n]]
  <2>1. mem'[p] = [x \in LocalNames |-> IF x = name THEN value ELSE mem[p][x]]
    BY <1>1, SetName DEF RunInv
  <2>2. mem'[p].results = mem[p].results BY <2>1 DEF LocalNames
  <2> QED BY <2>1, <2>2 DEF RunInv, MemInv
<1>2. ASSUME mem'[p] = mem[p]
      PROVE  /\ mem'[p] = [x \in LocalNames |-> mem'[p][x]]
             /\ mem'[p].results = [n \in ProviderNames |-> mem'[p].results[n]]
  BY <1>2 DEF RunInv, MemInv
<1>3. UNCHANGED mem \/ (\E name \in Names : \E value : Set(p, name, value)) \/ (p \in Runners /\ Answer(p))
  BY SetsOne
<1>4. ASSUME p \in Runners, Answer(p)
      PROVE  /\ mem'[p] = [x \in LocalNames |-> mem'[p][x]]
             /\ mem'[p].results = [n \in ProviderNames |-> mem'[p].results[n]]
  <2>1. Own(p) BY <1>4, RunnersOwn
  <2>2. /\ mem'[p] = [x \in LocalNames |-> IF x = "results" THEN mem'[p].results ELSE mem[p][x]]
        /\ mem'[p].results = [n \in ProviderNames |-> mem'[p].results[n]]
    BY <1>4, <2>1, AnswerDoes
  <2> QED BY <2>2
<1>5. /\ mem'[p] = [x \in LocalNames |-> mem'[p][x]]
      /\ mem'[p].results = [n \in ProviderNames |-> mem'[p].results[n]]
  <2> HIDE DEF Names
  <2> QED BY <1>1, <1>2, <1>3, <1>4
<1> QED BY <1>5 DEF MemInv, LeavesOthers, RunInv

-----------------------------------------------------------------------------
(* A freeze's own steps.                                                   *)
LEMMA FreezerStep ==
    ASSUME DiskInv, RunInv, NEW p \in Freezers, FileStep(p) \/ Freeze(p) \/ Kill(p)
    PROVE  FreezerOK(p)'
<1>0. p \in Processes /\ p \notin Runners BY LiveAssumption DEF Processes
<1>p. \A stage : Goto(p, stage) => pc'[p] = stage BY <1>0 DEF Goto, DiskInv
<1>f. FreezerOK(p) BY DEF RunInv
<1> USE DEF Making
<1>1. CASE FileStep(p)
  <2>1. PICK file \in Files \ ProviderNames : Create(p, file) \/ Write(p, file) BY <1>1 DEF FileStep
  <2>2. /\ pc[p] \in Making(file) /\ UNCHANGED mem
        /\ pc'[p] \in {<<"failed">>, <<"write", file>>, After(file)}
    BY <1>0, <2>1, FileStepLeaves
  <2>3. file \in SpecimenFiles BY <1>f, <2>2 DEF FreezerOK, Files, Evidence, SpecimenFiles
  <2>4. mem[p].specimen = <<mem[p].specimen[1]>> BY <1>f, <2>2 DEF FreezerOK
  <2>5. \A f \in Evidence : pc'[p] \notin Making(f)
    BY <2>2, <2>3 DEF Evidence, Bundle, ProviderNames, SpecimenFiles, After
  <2> QED BY <2>2, <2>4, <2>5 DEF FreezerOK
<1>2. CASE Kill(p) \/ Fail(p)
  BY <1>2, <1>p DEF FreezerOK, Kill, Fail
<1>3. CASE CurrentCommit(p) /\ ~Fail(p)
  <2>1. pc'[p] = <<"select", commit>> BY <1>3, <1>p DEF CurrentCommit
  <2> QED BY <2>1 DEF FreezerOK
<1>4. CASE Select(p) /\ ~Fail(p)
  <2>1. PICK value : Set(p, "specimen", <<value>>) /\ pc'[p] = <<"check">> BY <1>4, <1>p DEF Select
  <2>2. mem'[p] = [x \in LocalNames |-> IF x = "specimen" THEN <<value>> ELSE mem[p][x]]
    BY <1>0, <2>1, SetName DEF LocalNames, RunInv
  <2>3. mem'[p].specimen = <<value>> BY <2>2 DEF LocalNames
  <2> QED BY <2>1, <2>3 DEF FreezerOK
<1>5. CASE CheckUnfrozen(p) /\ ~Fail(p)
  <2>1. pc'[p] = <<"create", "specimen">> /\ pc[p] = <<"check">> /\ UNCHANGED mem
    BY <1>5, <1>p DEF CheckUnfrozen
  <2> QED BY <1>f, <2>1 DEF FreezerOK, Evidence, Bundle, ProviderNames
<1>6. CASE Reload(p) /\ ~Fail(p)
  <2>1. pc'[p] = <<"done">> /\ pc[p] = <<"reload">> /\ UNCHANGED mem
    BY <1>6, <1>p DEF Reload
  <2> QED BY <1>f, <2>1 DEF FreezerOK
<1> QED BY <1>1, <1>2, <1>3, <1>4, <1>5, <1>6 DEF Freeze


(* Whoever makes a file of the evidence has entered the directory. *)
LEMMA StageOfEvidence ==
    ASSUME NEW f \in Evidence \ ProviderNames
    PROVE  Making(f) \subseteq Entered
  BY DEF Evidence, Bundle, ProviderNames, Entered, Copying, Copied, Answered, Rediscovering, Reconciling, Sealing, Making

(* A run gets inside its directory by making it.                           *)
LEMMA Enters ==
    ASSUME DiskInv, RunInv, NEW p \in Runners, FileStep(p) \/ Run(p) \/ Kill(p) \/ Answer(p)
    PROVE  /\ outDir' \in BOOLEAN /\ (outDir => outDir')
           /\ Inside(p)' /\ ~Inside(p) => ~outDir /\ outDir'
           /\ left' \in [Runners -> 0..MaxRuns]
           /\ pc[p] = <<"done">> => pc'[p] = <<"done">>
<1> USE DEF Making, Sealing, Reconciling, Rediscovering, Answered, Asking, Copied, Copying, Entered, Before
<1>p. \A stage : Goto(p, stage) => pc'[p] = stage BY DEF Goto, DiskInv, Processes
<1>o. outDir \in BOOLEAN /\ left \in [Runners -> 0..MaxRuns] /\ Facts(p)
  BY DEF RunInv, DirectoryInv, Facts
<1>0. p \in Processes BY DEF Processes
<1>1. CASE FileStep(p)
  <2>1. PICK file \in Files \ ProviderNames : Create(p, file) \/ Write(p, file) BY <1>1 DEF FileStep
  <2>2. pc[p] \in Making(file) /\ UNCHANGED <<outDir, left>> BY <1>0, <2>1, FileStepLeaves
  <2>3. file \notin SpecimenFiles BY <2>2 DEF DiskInv
  <2>4. Inside(p)
    <3>1. file \in Evidence \ ProviderNames BY <2>3 DEF Evidence, Files, SpecimenFiles
    <3>2. pc[p] \in Entered BY <2>2, <3>1, StageOfEvidence
    <3> QED BY <3>2 DEF Inside
  <2> QED BY <1>o, <2>2, <2>4
<1>2. CASE Kill(p)
  <2>1. pc'[p] = <<"killed">> /\ left' = [r \in Runners |-> IF r = p THEN 0 ELSE left[r]]
        /\ UNCHANGED outDir /\ pc[p] # <<"done">>
    BY <1>2, <1>p DEF Kill, files, Ended
  <2>2. left' \in [Runners -> 0..MaxRuns] BY <1>o, <2>1, LiveAssumption
  <2>3. ~Inside(p)' BY <2>1 DEF Inside
  <2> QED BY <1>o, <2>1, <2>2, <2>3
<1>3. CASE Answer(p)
  <2>1. UNCHANGED <<pc, outDir>> /\ left[p] > 0 /\ left' = [left EXCEPT ![p] = @ - 1]
    BY <1>3 DEF Answer
  <2>2. left' \in [Runners -> 0..MaxRuns] BY <1>o, <2>1, LiveAssumption
  <2> QED BY <1>o, <2>1, <2>2 DEF Inside
<1>5. CASE Run(p)
  <2>1. CASE Load(p) \/ CheckFresh(p) \/ Discover(p)
    <3>1. /\ UNCHANGED <<outDir, left>>
          /\ pc[p] \in {<<"load">>, <<"fresh">>, <<"discover">>}
          /\ pc'[p] \in {<<"failed">>, <<"fresh">>, <<"discover">>, <<"mkdir">>}
      BY <2>1, <1>p DEF Load, CheckFresh, Discover, Fail, files, worker
    <3> QED BY <1>o, <3>1 DEF Inside
  <2>2. CASE Mkdir(p)
    <3>1. UNCHANGED left /\ outDir' = TRUE /\ pc[p] = <<"mkdir">> BY <2>2 DEF Mkdir, worker
    <3>2. outDir => pc'[p] = <<"failed">> BY <2>2, <1>p DEF Mkdir, Fail
    <3> QED BY <1>o, <3>1, <3>2 DEF Inside
  <2>3. CASE CheckCommit(p) \/ Copy(p) \/ CloseDispatcher(p) \/ Rediscover(p) \/ Reconcile(p) \/ Seal(p)
    <3>1. UNCHANGED <<outDir, left>>
      BY <2>3 DEF CheckCommit, Copy, CloseDispatcher, Rediscover, Reconcile, Seal, files, worker
    <3>2. pc[p] \in {<<"commit">>, <<"copy">>, <<"close">>, <<"rediscover">>, <<"reconcile">>, <<"seal">>}
      BY <2>3 DEF CheckCommit, Copy, CloseDispatcher, Rediscover, Reconcile, Seal
    <3> QED BY <1>o, <3>1, <3>2 DEF Inside
  <2>4. CASE Dispatch(p)
    <3>1. UNCHANGED outDir /\ left' = [left EXCEPT ![p] = RunsOf(p)]
      BY <2>4 DEF Dispatch, files
    <3>2. pc[p] \in {<<"dispatch", "typesafe">>, <<"dispatch", "vercel-typesafe">>}
      BY <2>4 DEF Dispatch, ProviderNames
    <3>3. Inside(p) BY <3>2 DEF Inside
    <3>4. RunsOf(p) \in 0..MaxRuns
      BY <1>o, <3>3, LiveAssumption DEF Facts, HasSpecimen, ValidSpecimen, RunsOf
    <3>5. left' \in [Runners -> 0..MaxRuns] BY <1>o, <3>1, <3>4
    <3> QED BY <1>o, <3>1, <3>2, <3>3, <3>5
  <2> QED BY <1>5, <2>1, <2>2, <2>3, <2>4 DEF Run, Prepare
<1> QED BY <1>1, <1>2, <1>3, <1>5

(* What is written is never None.                                          *)
LEMMA Written ==
    ASSUME DiskInv, RunInv, NEW p \in Processes, NEW file \in Files \ ProviderNames,
           pc[p] = <<"write", file>>
    PROVE  /\ Payload(p, file) # None
           /\ file = "specimen" => Payload(p, file) = <<Payload(p, file)[1]>>
<1>1. CASE p \in Freezers
  <2>1. FreezerOK(p) BY <1>1 DEF RunInv
  <2>2. file \notin Evidence BY <2>1 DEF FreezerOK, Making
  <2>3. mem[p].specimen = <<mem[p].specimen[1]>> BY <2>1 DEF FreezerOK
  <2> QED BY <2>2, <2>3 DEF Payload, Evidence, Files, None
<1>2. CASE p \in Runners
  <2>1. Facts(p) BY <1>2 DEF RunInv, Facts
  <2>2. file \in Evidence \ ProviderNames BY <1>2 DEF DiskInv, Evidence, Files, SpecimenFiles
  <2>3. pc[p] \in Making(file) BY DEF Making
  <2>4. mem[p].specimen # None /\ mem[p].pre = <<Specimen(p).model_catalog>>
    BY <1>2, <2>1, <2>2, <2>3, StageOfEvidence DEF Facts, HasSpecimen, Inside
  <2>5. file = "frozen-specimen" => mem[p].copy # None
    BY <2>1, <2>3, <2>4 DEF Facts, HasSpecimen
  <2>6. mem[p].results # None
    <3>1. mem[p].results = [n \in ProviderNames |-> mem[p].results[n]] BY DEF RunInv, MemInv
    <3>2. DOMAIN mem[p].results = ProviderNames BY <3>1
    <3>3. DOMAIN None = {} BY DEF None
    <3> QED BY <3>2, <3>3 DEF ProviderNames
  <2>7. file = "model-catalog-post" => mem[p].post # None
    BY <2>1, <2>3 DEF Facts, HasBundle
  <2>8. file = "reconciliation" => mem[p].report # None
    BY <2>1, <2>3 DEF Facts, HasBundle, None
  <2>9. file = "seal" => mem[p].seal # None
    BY <2>1, <2>3 DEF Facts, HasBundle, None
  <2>10. mem[p].pre # None BY <2>4 DEF None
  <2> QED BY <2>2, <2>5, <2>6, <2>7, <2>8, <2>9, <2>10 DEF Payload, Evidence, Bundle
<1> QED BY <1>1, <1>2 DEF Processes


(* Audits, and the results they stand for, change by answers alone.        *)
LEMMA OnlyAnswersAudit ==
    ASSUME DiskInv, RunInv, NEW p \in Processes, StepOf(p), LeavesOthers(p),
           ~(p \in Runners /\ Answer(p))
    PROVE  /\ \A n \in ProviderNames : disk'[n] = disk[n] /\ content'[n] = content[n]
           /\ \A q \in Runners : mem'[q].results = mem[q].results
<1>1. \A n \in ProviderNames : disk'[n] = disk[n] /\ content'[n] = content[n]
  <2>1. CASE FileStep(p)
    <3>1. PICK file \in Files \ ProviderNames : Create(p, file) \/ Write(p, file) BY <2>1 DEF FileStep
    <3> QED BY <3>1, FileStepLeaves DEF Files, Bundle
  <2>2. CASE ~FileStep(p)
    <3>1. PICK stage : Quiet(p, stage) BY <2>2, StepsAreQuiet DEF StepOf
    <3> QED BY <3>1 DEF Quiet
  <2> QED BY <2>1, <2>2
<1>2. mem'[p].results = mem[p].results
  <2>1. CASE UNCHANGED mem BY <2>1
  <2>2. CASE \E name \in LocalNames \ {"results"} : \E value : Set(p, name, value)
    <3>0. PICK name \in LocalNames \ {"results"} : \E value : Set(p, name, value) BY <2>2
    <3>1. PICK value : Set(p, name, value) BY <3>0
    <3>2. mem'[p] = [x \in LocalNames |-> IF x = name THEN value ELSE mem[p][x]]
      BY <3>1, SetName DEF RunInv
    <3> QED BY <3>2 DEF LocalNames
  <2> QED BY <2>1, <2>2, SetsOne
<1> QED BY <1>1, <1>2 DEF LeavesOthers, Processes

(* The directory.                                                          *)
LEMMA DirectoryStep ==
    ASSUME DiskInv, RunInv, NEW p \in Processes, StepOf(p)
    PROVE  DirectoryInv'
<1> DirectoryInv /\ LiveAssumption BY LiveAssumption DEF RunInv
<1>0. p \in Runners \/ (p \in Freezers /\ p \notin Runners) BY LiveAssumption DEF Processes
<1>f. p \in Freezers => FileStep(p) \/ Freeze(p) \/ Kill(p) BY <1>0, LiveAssumption DEF StepOf
<1>r. p \in Runners => FileStep(p) \/ Run(p) \/ Kill(p) \/ Answer(p) BY <1>0, LiveAssumption DEF StepOf
<1>1. /\ LeavesOthers(p) /\ UNCHANGED <<catalog, commit>>
      /\ p \in Freezers => /\ EvidenceKept /\ UNCHANGED outDir
                           /\ content["specimen"] # None => content'["specimen"] = content["specimen"]
      /\ p \in Runners => SpecimenKept /\ (~Inside(p) => EvidenceKept)
  BY <1>0, <1>f, <1>r, FreezerLeaves, RunnerLeaves
<1>2. /\ outDir' \in BOOLEAN /\ (outDir => outDir')
      /\ \A q \in Runners : Inside(q)' /\ ~Inside(q) => q = p /\ ~outDir /\ outDir'
      /\ \A q \in Runners : pc[q] = <<"done">> => pc'[q] = <<"done">>
  <2>1. \A q \in Runners \ {p} : Inside(q)' <=> Inside(q)
    BY <1>1 DEF LeavesOthers, Inside, Processes
  <2>2. \A q \in Runners \ {p} : pc[q] = <<"done">> => pc'[q] = <<"done">>
    BY <1>1 DEF LeavesOthers, Processes
  <2>3. CASE p \in Runners BY <1>r, <2>1, <2>2, <2>3, Enters
  <2>4. CASE p \notin Runners BY <1>0, <1>1, <2>1, <2>2, <2>4 DEF DirectoryInv
  <2> QED BY <2>3, <2>4
<1>3. left' \in [Runners -> 0..MaxRuns]
  <2>1. CASE p \in Runners BY <1>r, <2>1, Enters
  <2>2. CASE p \notin Runners
    <3>1. FileStep(p) => UNCHANGED left BY DEF FileStep, Create, Write, worker
    <3>2. Freeze(p) => UNCHANGED left
      BY DEF Freeze, CurrentCommit, Select, CheckUnfrozen, Reload, worker
    <3>3. Kill(p) => left' = [r \in Runners |-> IF r = p THEN 0 ELSE left[r]] BY DEF Kill
    <3> QED BY <1>0, <1>f, <2>2, <3>1, <3>2, <3>3 DEF DirectoryInv
  <2> QED BY <2>1, <2>2
<1>4. \A f \in Files : content'[f] = None <=> disk'[f] # "complete"
  <2>1. CASE FileStep(p)
    <3>1. PICK file \in Files \ ProviderNames : Create(p, file) \/ Write(p, file) BY <2>1 DEF FileStep
    <3>2. pc[p] = <<"write", file>> => Payload(p, file) # None BY Written
    <3> QED BY <3>1, <3>2, FileStepLeaves DEF DirectoryInv
  <2>2. CASE p \in Runners /\ Answer(p)
    <3>1. PICK outcome \in Outcomes[provider[p]], persisted \in BOOLEAN :
             /\ persisted => disk' = [disk EXCEPT ![provider[p]] = "complete"]
             /\ persisted => content' = [content EXCEPT ![provider[p]] = Append(@, Observed(Specimen(p), outcome))]
             /\ ~persisted => UNCHANGED <<disk, content>>
      BY <2>2, RunnersOwn, AnswerDoes
    <3>2. \A x : Append(content[provider[p]], x) # None
      <4>1. content[provider[p]] = <<>> \/ content[provider[p]] \in Seq(AuditSet(FrozenSpecimen))
        BY <2>2 DEF DirectoryInv, DiskInv
      <4>2. content[provider[p]] \in Seq(AuditSet(FrozenSpecimen)) BY <4>1, NoneIsSequence
      <4>3. \A x : Append(content[provider[p]], x) # <<>> BY <4>2, AppendedSome
      <4> QED BY <4>3 DEF None
    <3>3. provider[p] \in Files BY <2>2 DEF DiskInv, Files, Bundle
    <3>4. \/ UNCHANGED <<disk, content>>
          \/ /\ disk' = [disk EXCEPT ![provider[p]] = "complete"]
             /\ content'[provider[p]] # None
             /\ \A f \in Files \ {provider[p]} : content'[f] = content[f]
      <4> DEFINE observation == Observed(Specimen(p), outcome)
      <4>1. persisted => content' = [content EXCEPT ![provider[p]] = Append(@, observation)] BY <3>1
      <4> HIDE DEF observation
      <4>2. persisted => /\ content'[provider[p]] # None
                         /\ \A f \in Files \ {provider[p]} : content'[f] = content[f]
        BY <4>1, <3>2, <3>3 DEF DiskInv
      <4> QED BY <4>2, <3>1
    <3> QED BY <3>3, <3>4 DEF DirectoryInv, DiskInv
  <2>3. CASE ~FileStep(p) /\ ~(p \in Runners /\ Answer(p))
    <3>1. PICK stage : Quiet(p, stage) BY <2>3, StepsAreQuiet DEF StepOf
    <3> QED BY <3>1 DEF Quiet, DirectoryInv
  <2> QED BY <2>1, <2>2, <2>3
<1>5. ~outDir' => \A f \in Evidence : disk'[f] = "absent"
  <2>1. ~outDir => EvidenceKept BY <1>0, <1>1 DEF DirectoryInv
  <2> QED BY <1>2, <2>1 DEF DirectoryInv, EvidenceKept
<1>6. \A q \in Runners : Inside(q)' => outDir'
  BY <1>2 DEF DirectoryInv
<1>7. \A q, r \in Runners : Inside(q)' /\ Inside(r)' => q = r
  BY <1>2 DEF DirectoryInv
<1>8. content'["specimen"] = None \/ content'["specimen"] = <<FrozenSpecimen'>>
  <2>1. CASE content'["specimen"] = content["specimen"] BY <2>1 DEF DirectoryInv, FrozenSpecimen
  <2>2. CASE content'["specimen"] # content["specimen"]
    <3>1. p \notin Runners BY <1>1, <2>2 DEF SpecimenKept, SpecimenFiles
    <3>2. FileStep(p)
      <4>1. SUFFICES ASSUME ~FileStep(p) PROVE FALSE OBVIOUS
      <4>2. PICK stage : Quiet(p, stage) BY <1>0, <1>f, <3>1, <4>1, StepsAreQuiet DEF StepOf
      <4> QED BY <2>2, <4>2 DEF Quiet
    <3>3. PICK file \in Files \ ProviderNames : Create(p, file) \/ Write(p, file) BY <3>2 DEF FileStep
    <3>4. file = "specimen" /\ content'["specimen"] = Payload(p, "specimen") /\ pc[p] = <<"write", "specimen">>
      BY <2>2, <3>3, FileStepLeaves DEF Files
    <3>5. Payload(p, "specimen") = <<Payload(p, "specimen")[1]>> BY <3>3, <3>4, Written
    <3> QED BY <3>4, <3>5 DEF FrozenSpecimen
  <2> QED BY <2>1, <2>2
<1>9. \A n \in ProviderNames :
         \/ content'[n] = <<>>
         \/ content'["specimen"] # None /\ content'[n] \in Seq(AuditSet(FrozenSpecimen'))
  <2> TAKE n \in ProviderNames
  <2>1. content["specimen"] # None => content'["specimen"] = content["specimen"]
    BY <1>0, <1>1 DEF SpecimenKept, SpecimenFiles
  <2>2. content["specimen"] # None => AuditSet(FrozenSpecimen') = AuditSet(FrozenSpecimen)
    BY <2>1 DEF FrozenSpecimen
  <2>3. CASE content'[n] = content[n] BY <2>1, <2>2, <2>3 DEF DirectoryInv
  <2>4. CASE content'[n] # content[n]
    <3>1. p \in Runners /\ Answer(p) BY <2>4, <1>1, OnlyAnswersAudit
    <3>2. PICK outcome \in Outcomes[provider[p]], persisted \in BOOLEAN :
             /\ persisted => content' = [content EXCEPT ![provider[p]] = Append(@, Observed(Specimen(p), outcome))]
             /\ ~persisted => UNCHANGED <<disk, content>>
      BY <3>1, RunnersOwn, AnswerDoes
    <3>3. provider[p] \in ProviderNames /\ ProviderNames \subseteq Files BY <3>1 DEF DiskInv, Files, Bundle
    <3>4. n = provider[p] /\ content'[n] = Append(content[n], Observed(Specimen(p), outcome))
      <4> DEFINE observation == Observed(Specimen(p), outcome)
      <4>1. \/ content' = [content EXCEPT ![provider[p]] = Append(@, observation)]
            \/ content' = content
        BY <3>2
      <4> HIDE DEF observation
      <4>3. content = [f \in Files |-> content[f]] /\ n \in Files BY <3>3 DEF DiskInv
      <4>4. content' = [content EXCEPT ![provider[p]] = Append(@, observation)] BY <2>4, <4>1
      <4>5. provider[p] \in Files BY <3>3
      <4>6. n = provider[p]
        BY <2>4, <4>3, <4>4, <4>5
      <4>2. n = provider[p] /\ content'[n] = Append(content[n], observation)
        BY <4>3, <4>4, <4>5, <4>6
      <4> QED BY <4>2 DEF observation
    <3>5. mem[p].specimen = content["specimen"] /\ mem[p].specimen # None
      BY <3>1 DEF RunInv, HasSpecimen, Answer, Inside
    <3>6. Observed(Specimen(p), outcome) \in AuditSet(FrozenSpecimen)
      BY <3>3, <3>5 DEF AuditSet, Specimen, FrozenSpecimen
    <3>7. content[n] \in Seq(AuditSet(FrozenSpecimen)) BY NoneIsSequence DEF DirectoryInv
    <3>8. content'[n] \in Seq(AuditSet(FrozenSpecimen)) BY <3>4, <3>6, <3>7, Appended
    <3> QED BY <2>1, <2>2, <3>5, <3>8
  <2> QED BY <2>3, <2>4
<1>10. disk'["seal"] = "complete" => \E q \in Runners : pc'[q] = <<"done">>
  <2> SUFFICES ASSUME disk'["seal"] = "complete" PROVE \E q \in Runners : pc'[q] = <<"done">>
    OBVIOUS
  <2>1. CASE disk["seal"] = "complete" BY <1>2, <2>1 DEF DirectoryInv
  <2>2. CASE disk["seal"] # "complete"
    <3>1. FileStep(p)
      <4>1. SUFFICES ASSUME ~FileStep(p) PROVE FALSE OBVIOUS
      <4>2. CASE p \in Runners /\ Answer(p)
        BY <2>2, <4>2, AnswerKeepsDisk DEF Files, ProviderNames
      <4>3. CASE ~(p \in Runners /\ Answer(p))
        <5>1. PICK stage : Quiet(p, stage) BY <4>1, <4>3, StepsAreQuiet DEF StepOf
        <5> QED BY <2>2, <5>1 DEF Quiet
      <4> QED BY <4>2, <4>3
    <3>2. PICK file \in Files \ ProviderNames : Create(p, file) \/ Write(p, file) BY <3>1 DEF FileStep
    <3>3. file = "seal" /\ pc'[p] = After("seal") BY <2>2, <3>2, FileStepLeaves DEF Files
    <3>4. p \in Runners BY <1>0, <1>1, <2>2 DEF EvidenceKept, Evidence
    <3> QED BY <3>3, <3>4 DEF After
  <2> QED BY <2>1, <2>2
<1>11. catalog' \in Catalogs /\ commit' \in Commits \cup {Dirty} BY <1>1 DEF DirectoryInv
<1> QED BY <1>2, <1>3, <1>4, <1>5, <1>6, <1>7, <1>8, <1>9, <1>10, <1>11 DEF DirectoryInv


(* Verdicts with a valid one among them are those of a valid observation   *)
(* that was written.                                                       *)
LEMMA ValidVerdicts ==
    ASSUME NEW s, NEW outcome, NEW persisted \in BOOLEAN
    PROVE  LET observation == Observed(s, outcome)
               verdicts    == Verdicts(s.template.questions, observation, persisted)
           IN  (\E k \in DOMAIN verdicts : verdicts[k].ok) =>
                  persisted /\ observation.ok /\ observation.verdicts = verdicts
<1> DEFINE observation == Observed(s, outcome)
           closed == Closed(s.template.questions)
<1>1. \A k \in DOMAIN closed : ~closed[k].ok BY DEF Closed
<1>2. observation.ok \/ observation.verdicts = closed BY DEF Observed, Observation
<1> HIDE DEF observation, closed
<1>3. CASE ~persisted
  <2>1. Verdicts(s.template.questions, observation, persisted) = closed BY <1>3 DEF Verdicts, closed
  <2> QED BY <1>1, <2>1 DEF observation
<1>4. CASE persisted
  <2>1. Verdicts(s.template.questions, observation, persisted) = observation.verdicts BY <1>4 DEF Verdicts
  <2> QED BY <1>1, <1>2, <1>4, <2>1 DEF observation
<1> QED BY <1>3, <1>4

(* An answer that counts is in the audit, and stays there. *)
LEMMA AuditStep ==
    ASSUME DiskInv, RunInv, AnswersAreAudited, NEW p \in Processes, StepOf(p), LeavesOthers(p)
    PROVE  AnswersAreAudited'
<1>1. CASE ~(p \in Runners /\ Answer(p))
  <2>1. /\ \A n \in ProviderNames : content'[n] = content[n]
        /\ \A q \in Runners : mem'[q].results = mem[q].results
    BY <1>1, OnlyAnswersAudit
  <2> QED BY <2>1 DEF AnswersAreAudited
<1>2. CASE p \in Runners /\ Answer(p)
  <2>1. PICK outcome \in Outcomes[provider[p]], persisted \in BOOLEAN :
             /\ Asked(p, provider[p], Observed(Specimen(p), outcome), persisted)
             /\ persisted => content' = [content EXCEPT ![provider[p]] = Append(@, Observed(Specimen(p), outcome))]
             /\ ~persisted => UNCHANGED <<disk, content>>
             /\ \A n \in ProviderNames \ {provider[p]} : mem'[p].results[n] = mem[p].results[n]
    BY <1>2, RunnersOwn, AnswerDoes
  <2> DEFINE n == provider[p]
             observation == Observed(Specimen(p), outcome)
             verdicts    == Verdicts(Specimen(p).template.questions, observation, persisted)
             old == mem[p].results[n]
             new == mem'[p].results[n]
  <2>2. (\E k \in DOMAIN verdicts : verdicts[k].ok) =>
           persisted /\ observation.ok /\ observation.verdicts = verdicts
    BY ValidVerdicts
  <2> HIDE DEF verdicts
  <2>3. new = Append(old, verdicts)
        /\ content'[n] = IF persisted THEN Append(content[n], observation) ELSE content[n]
    BY <2>1 DEF Asked, verdicts
  <2>4. \A m \in ProviderNames \ {n} : content'[m] = content[m] /\ mem'[p].results[m] = mem[p].results[m]
    <3>1. content' = content \/ content' = [content EXCEPT ![n] = Append(@, observation)] BY <2>1
    <3>2. ProviderNames \subseteq Files /\ content = [f \in Files |-> content[f]]
      BY DEF Files, Bundle, DiskInv
    <3> HIDE DEF observation, n
    <3> QED BY <2>1, <3>1, <3>2 DEF n
  <2> HIDE DEF observation
  <2>5. n \in ProviderNames /\ p \in Processes /\ Own(p) BY <1>2, RunnersOwn DEF DiskInv, Processes
  <2>6. /\ old \in Seq(VerdictSet(Specimen(p)))
        /\ content[n] \in Seq(AuditSet(FrozenSpecimen))
    BY <1>2, <2>5, NoneIsSequence DEF RunInv, RunnerOK, DirectoryInv
  <2> HIDE DEF n
  <2>7. /\ Len(old) \in Nat /\ DOMAIN new = 1..(Len(old) + 1) /\ new[Len(old) + 1] = verdicts
        /\ DOMAIN old = 1..Len(old) /\ \A i \in DOMAIN old : new[i] = old[i]
    <3>1. ASSUME NEW S, NEW s \in Seq(S), NEW t, t = Append(s, verdicts)
          PROVE  /\ Len(s) \in Nat /\ DOMAIN t = 1..(Len(s) + 1) /\ t[Len(s) + 1] = verdicts
                 /\ DOMAIN s = 1..Len(s) /\ \A i \in DOMAIN s : t[i] = s[i]
      BY <3>1
    <3> HIDE DEF old, new
    <3> QED BY <2>3, <2>6, <3>1
  <2>8. /\ \A j \in DOMAIN content[n] : j \in DOMAIN content'[n] /\ content'[n][j] = content[n][j]
        /\ persisted => \E j \in DOMAIN content'[n] : content'[n][j] = observation
    <3>1. ASSUME NEW S, NEW s \in Seq(S), NEW t, t = Append(s, observation)
          PROVE  /\ \A j \in DOMAIN s : j \in DOMAIN t /\ t[j] = s[j]
                 /\ \E j \in DOMAIN t : t[j] = observation
      <4>1. Len(s) + 1 \in DOMAIN t /\ t[Len(s) + 1] = observation BY <3>1
      <4> QED BY <3>1, <4>1
    <3> QED BY <2>3, <2>6, <3>1
  <2> SUFFICES ASSUME NEW q \in Runners, NEW m \in ProviderNames, NEW i \in DOMAIN mem'[q].results[m],
                      \E k \in DOMAIN mem'[q].results[m][i] : mem'[q].results[m][i][k].ok
               PROVE  \E j \in DOMAIN content'[m] :
                        content'[m][j].ok /\ content'[m][j].verdicts = mem'[q].results[m][i]
    BY DEF AnswersAreAudited
  <2>9. CASE i \in DOMAIN mem[q].results[m] /\ mem'[q].results[m][i] = mem[q].results[m][i]
    <3>1. PICK j \in DOMAIN content[m] : content[m][j].ok /\ content[m][j].verdicts = mem[q].results[m][i]
      BY <2>9 DEF AnswersAreAudited
    <3>2. j \in DOMAIN content'[m] /\ content'[m][j] = content[m][j] BY <2>4, <2>8
    <3> QED BY <2>9, <3>1, <3>2
  <2>10. CASE ~(i \in DOMAIN mem[q].results[m] /\ mem'[q].results[m][i] = mem[q].results[m][i])
    <3>1. q = p BY <2>10 DEF LeavesOthers, Processes
    <3>2. m = n BY <2>4, <2>10, <3>1
    <3>3. i \in DOMAIN new /\ ~(i \in DOMAIN old /\ new[i] = old[i]) BY <2>10, <3>1, <3>2
    <3>4. i = Len(old) + 1
      <4> HIDE DEF old, new
      <4> QED BY <2>7, <3>3
    <3>5. mem'[q].results[m][i] = verdicts BY <2>7, <3>1, <3>2, <3>4
    <3>6. persisted /\ observation.ok /\ observation.verdicts = verdicts BY <2>2, <3>5
    <3> QED BY <2>8, <3>2, <3>5, <3>6
  <2> QED BY <2>9, <2>10
<1> QED BY <1>1, <1>2

-----------------------------------------------------------------------------
ExperimentInv == RunInv /\ AnswersAreAudited

(* What a step is a step of. *)
LEMMA StepKinds ==
    ASSUME [Next]_vars
    PROVE  \/ \E p \in Processes : StepOf(p)
           \/ Change
           \/ UNCHANGED vars
<1>1. ASSUME NEW p \in Processes, Step(p) \/ Kill(p) PROVE StepOf(p)
  <2>1. WriteFile(p) => FileStep(p) BY DEF WriteFile, FileStep
  <2>2. Step(p) => FileStep(p) \/ (p \in Freezers /\ Freeze(p)) \/ (p \in Runners /\ Run(p))
    BY <2>1 DEF Step, Processes
  <2> QED BY <1>1, <2>2 DEF StepOf, Processes
<1>2. ASSUME NEW r \in Runners, Answer(r) PROVE r \in Processes /\ StepOf(r)
  BY <1>2 DEF StepOf, Processes
<1> QED BY <1>1, <1>2 DEF Next

(* The catalog and the checkout are not part of the evidence. *)
LEMMA QuietWorld ==
    ASSUME DiskInv, ExperimentInv, UNCHANGED <<files, pc, mem, worker>>,
           catalog' \in Catalogs, commit' \in Commits \cup {Dirty}
    PROVE  ExperimentInv'
<1> RunInv /\ AnswersAreAudited BY DEF ExperimentInv
<1> USE DEF files, worker
<1>1. MemInv' BY DEF RunInv, MemInv
<1>2. DirectoryInv' BY DEF RunInv, DirectoryInv, Inside, FrozenSpecimen
<1>3. \A p \in Freezers : FreezerOK(p)' BY DEF RunInv, FreezerOK
<1>4. ASSUME NEW p \in Runners PROVE Facts(p)'
  BY OthersKeepFacts DEF RunInv, Facts
<1>5. AnswersAreAudited' BY DEF AnswersAreAudited
<1> QED BY <1>1, <1>2, <1>3, <1>4, <1>5 DEF ExperimentInv, RunInv, Facts

(* No step of any process breaks the invariant of the experiment. *)
LEMMA ExperimentStep ==
    ASSUME DiskInv, ExperimentInv, [Next]_vars
    PROVE  ExperimentInv'
<1> RunInv /\ AnswersAreAudited BY DEF ExperimentInv
<1>1. ASSUME NEW p \in Processes, StepOf(p) PROVE ExperimentInv'
  <2>0. p \in Freezers \/ p \in Runners BY DEF Processes
  <2>1. LeavesOthers(p)
    BY <1>1, <2>0, LiveAssumption, FreezerLeaves, RunnerLeaves DEF StepOf
  <2>2. MemInv' BY <1>1, <2>1, MemStep
  <2>3. DirectoryInv' BY <1>1, DirectoryStep
  <2>4. \A q \in Runners : Facts(q)' BY <1>1, AllFacts
  <2>5. AnswersAreAudited' BY <1>1, <2>1, AuditStep
  <2>6. ASSUME NEW q \in Freezers PROVE FreezerOK(q)'
    <3>1. CASE q = p BY <1>1, <3>1, LiveAssumption, FreezerStep DEF StepOf
    <3>2. CASE q # p
      <4>1. pc'[q] = pc[q] /\ mem'[q] = mem[q] BY <2>1, <3>2 DEF LeavesOthers, Processes
      <4> QED BY <4>1 DEF FreezerOK, RunInv
    <3> QED BY <3>1, <3>2
  <2> QED BY <2>2, <2>3, <2>4, <2>5, <2>6 DEF ExperimentInv, RunInv, Facts
<1>2. CASE Change
  <2>1. catalog' \in Catalogs /\ commit' \in Commits \cup {Dirty}
    BY <1>2 DEF Change, RunInv, DirectoryInv
  <2> QED BY <1>2, <2>1, QuietWorld DEF Change
<1>3. CASE UNCHANGED vars
  BY <1>3, QuietWorld DEF vars, world, RunInv, DirectoryInv
<1> QED BY <1>1, <1>2, <1>3, StepKinds

(* Nothing has been done yet. *)
LEMMA ExperimentInit ==
    ASSUME Init
    PROVE  ExperimentInv
<1>1. /\ \A p \in Processes : pc[p] \in {<<"killed">>, <<"checkout">>, <<"load">>} /\ mem[p] = Locals
      /\ \A p \in Runners : pc[p] \in {<<"killed">>, <<"load">>}
    BY LiveAssumption DEF Init, Processes
<1>2. /\ \A p \in Runners : left[p] = 0
      /\ \A f \in Files : disk[f] = "absent" /\ content[f] = None
  BY DEF Init
<1>3. \A p \in Runners : ~Inside(p)
  BY <1>1, <1>2 DEF Inside, Entered, Copying, Copied, Asking, Answered, Rediscovering, Reconciling, Sealing, Making
<1>4. MemInv BY <1>1 DEF MemInv, Locals, LocalNames
<1>5. DirectoryInv
  <2>1. catalog \in Catalogs /\ commit \in Commits \cup {Dirty} /\ outDir = FALSE BY DEF Init
  <2>2. left \in [Runners -> 0..MaxRuns] BY LiveAssumption DEF Init
  <2>3. \A f \in Evidence \cup ProviderNames \cup {"specimen"} : f \in Files
    BY DEF Evidence, Bundle, Files
  <2>4. /\ content["specimen"] = None /\ disk["seal"] = "absent"
        /\ \A n \in ProviderNames : content[n] = None
        /\ \A f \in Evidence : disk[f] = "absent"
    BY <1>2, <2>3 DEF Evidence
  <2> QED BY <1>2, <1>3, <2>1, <2>2, <2>4 DEF DirectoryInv, None
<1>6. \A p \in Freezers : FreezerOK(p)
  BY <1>1 DEF FreezerOK, Making, Processes, Init
<1>7. ASSUME NEW p \in Runners
      PROVE  RunnerOK(p) /\ HasSpecimen(p) /\ HasAnswers(p) /\ HasBundle(p)
  <2> USE DEF Making, Sealing, Reconciling, Rediscovering, Answered, Asking, Copied, Copying, Entered, Before, RunnerStages
  <2>1. /\ pc[p] \in {<<"killed">>, <<"load">>} /\ left[p] = 0
        /\ mem[p].specimen = None /\ \A n \in ProviderNames : mem[p].results[n] = <<>>
    BY <1>1, <1>2 DEF Locals, Processes
  <2>2. RunnerOK(p) BY <2>1, LiveAssumption DEF RunnerOK
  <2>3. HasSpecimen(p) BY <2>1, <1>3 DEF HasSpecimen
  <2>4. HasAnswers(p) BY <2>1 DEF HasAnswers
  <2>5. HasBundle(p) BY <2>1 DEF HasBundle
  <2> QED BY <2>2, <2>3, <2>4, <2>5
<1>8. AnswersAreAudited
  BY <1>1 DEF AnswersAreAudited, Locals, Processes
<1> QED BY <1>4, <1>5, <1>6, <1>7, <1>8 DEF ExperimentInv, RunInv

(* The experiment's inductive invariant holds, beside DiskInv. *)
THEOREM ExperimentCorrect == Spec => []ExperimentInv
<1>1. Init => ExperimentInv BY ExperimentInit
<1>2. DiskInv /\ ExperimentInv /\ [Next]_vars => ExperimentInv' BY ExperimentStep
<1> QED BY <1>1, <1>2, DiskCorrect, PTL DEF Spec

(* A run that seals has all of the bundle complete. *)
LEMMA AllSealed ==
    ASSUME DiskInv, RunInv, NEW p \in Runners, pc[p] \in Sealing
    PROVE  \A f \in Bundle : disk[f] = "complete"
<1> USE DEF Making, Sealing, Reconciling, Rediscovering, Answered, Asking, Copied, Copying, Entered, Before
<1>1. Facts(p) BY DEF RunInv, Facts
<1>2. \A n \in ProviderNames : Len(content[n]) = RunsOf(p)
  BY <1>1 DEF Facts, HasAnswers, Complete, ProviderNames
<1>3. RunsOf(p) \in 1..MaxRuns
  BY <1>1 DEF Facts, HasSpecimen, ValidSpecimen, RunsOf, Inside
<1>4. \A n \in ProviderNames : disk[n] = "complete"
  BY <1>2, <1>3 DEF RunInv, DirectoryInv, None, Files, Bundle
<1> QED BY <1>1, <1>4 DEF Facts, HasBundle, HasSpecimen, Has, Bundle

(* What is on disk bears out what the runs said: every answer counted is in *)
(* the audit, the seal covers the whole bundle as it is, an exit code of 0  *)
(* stands for a sealed PASS, and at most one run ends.                      *)
THEOREM EvidenceBearsOut == Spec => []EvidenceInv
<1>1. DiskInv /\ ExperimentInv => EvidenceInv
  <2> SUFFICES ASSUME DiskInv, RunInv, AnswersAreAudited PROVE EvidenceInv
    BY DEF ExperimentInv
  <2>1. TypeOK BY DEF TypeOK, DiskInv, RunInv, DirectoryInv, Evidence
  <2>2. ASSUME NEW p \in Runners, pc[p] = <<"done">>
        PROVE  /\ disk["seal"] = "complete" /\ content["seal"] = <<SealOf(p)>>
               /\ content["seal"][1] = SealOf(p)
               /\ Inside(p) /\ pc[p] \in Sealing
    <3>1. HasBundle(p) BY DEF RunInv
    <3>2. pc[p] \in Sealing /\ pc[p] \in Entered
      BY <2>2 DEF Sealing, Entered, Copying, Copied, Answered, Rediscovering, Reconciling
    <3> QED BY <2>2, <3>1, <3>2 DEF HasBundle, Has, Inside
  <2>3. SealCoversEvidence
    <3> SUFFICES ASSUME disk["seal"] = "complete"
                 PROVE  /\ content["seal"][1].files = [f \in Bundle |-> content[f]]
                        /\ \A f \in Bundle : disk[f] = "complete"
      BY DEF SealCoversEvidence
    <3>1. PICK p \in Runners : pc[p] = <<"done">> BY DEF RunInv, DirectoryInv
    <3>2. content["seal"][1] = SealOf(p) BY <2>2, <3>1
    <3>3. \A f \in Bundle : disk[f] = "complete" BY <2>2, <3>1, AllSealed
    <3> QED BY <3>2, <3>3 DEF SealOf
  <2>4. ExitCodeTruthful
    <3> SUFFICES ASSUME NEW p \in Runners, pc[p] = <<"done">>
                 PROVE  /\ disk["seal"] = "complete"
                        /\ ExitCode(p) = 0 => content["seal"][1].status = "PASS"
                        /\ \A q \in Runners \ {p} : pc[q] # <<"done">>
      BY DEF ExitCodeTruthful
    <3>0. content["seal"][1] = SealOf(p) BY <2>2
    <3>1. content["seal"][1].status = mem[p].report[1].status BY <3>0 DEF SealOf
    <3>2. ExitCode(p) = 0 => mem[p].report[1].status = "PASS" BY DEF ExitCode
    <3>3. \A q \in Runners \ {p} : pc[q] # <<"done">> BY <2>2, OnlyOneInside
    <3> QED BY <2>2, <3>1, <3>2, <3>3
  <2> QED BY <2>1, <2>3, <2>4 DEF EvidenceInv
<1> QED BY <1>1, DiskCorrect, ExperimentCorrect, PTL


-----------------------------------------------------------------------------
(* Half away: the level a score is nearest to.                             *)
LEMMA NearestLevel ==
    ASSUME NEW levels \in 2..10, NEW x \in 0..(100 * (levels - 1)),
           NEW level, level = (x + 50) \div 100
    PROVE  /\ level \in 0..(levels - 1)
           /\ \A k \in 0..(levels - 1) :
                (100 * level - x) * (100 * level - x) <= (100 * k - x) * (100 * k - x)
<1>1. level \in Int /\ 100 * level <= x + 50 /\ x + 50 < 100 * level + 100
  OBVIOUS
<1>2. level \in 0..(levels - 1)
  BY <1>1
<1>3. ASSUME NEW k \in 0..(levels - 1)
      PROVE  (100 * level - x) * (100 * level - x) <= (100 * k - x) * (100 * k - x)
  <2> DEFINE a == 100 * level - x
             b == 100 * k - x
  <2>1. a \in Int /\ b \in Int BY <1>1
  <2>2. k = level \/ (b >= 50 /\ -50 < a /\ a <= 50 ) \/ (b <= -50 /\ -50 < a /\ a <= 50)
    BY <1>1
  <2>3. a = b \/ (b >= 0 /\ -b <= a /\ a <= b) \/ (b <= 0 /\ b <= a /\ a <= -b)
    BY <1>1, <2>1, <2>2
  <2> HIDE DEF a, b
  <2>4. a * a <= b * b
    <3>1. ASSUME NEW u \in Int, NEW w \in Int, -w <= u, u <= w PROVE u * u <= w * w
      <4>1. (w - u) \in Nat /\ (w + u) \in Nat BY <3>1
      <4>2. (w - u) * (w + u) >= 0 BY <4>1
      <4>3. (w - u) * (w + u) = w * w - u * u OBVIOUS
      <4> QED BY <4>2, <4>3
    <3>2. (-b) * (-b) = b * b /\ -b \in Int /\ -(-b) = b BY <2>1
    <3> QED BY <2>1, <2>3, <3>1, <3>2
  <2> QED BY <2>4 DEF a, b
<1> QED BY <1>2, <1>3

(* The value of a valid answer.                                            *)
ValueOK(q, value) ==
    /\ value # None
    /\ q.kind \in QuestionKinds
    /\ q.kind = "choice" => value = <<value[1]>>
    /\ q.kind = "noul" => value[1] \in 0..100
    /\ q.kind = "score" => q.levels \in 2..10 /\ value[1] \in 0..(100 * (q.levels - 1))

(* Answers that agree after projection may agree as they are. *)
LEMMA ProjectedAgree ==
    ASSUME NEW q, NEW a, NEW b, ValueOK(q, a), ValueOK(q, b), Agrees(q, a, b)
    PROVE  MayAgree(q, a[1], b[1])
<1>1. CASE q.kind = "choice" BY <1>1 DEF ValueOK, Agrees, Projected, MayAgree
<1>2. CASE q.kind = "noul" BY <1>2 DEF ValueOK, Agrees, Projected, MayAgree
<1>3. CASE q.kind = "score"
  <2> DEFINE l == (a[1] + 50) \div 100
             m == (b[1] + 50) \div 100
  <2>1. /\ q.levels \in 2..10
        /\ a[1] \in 0..(100 * (q.levels - 1)) /\ b[1] \in 0..(100 * (q.levels - 1))
    BY <1>3 DEF ValueOK
  <2>2. /\ l \in 0..(q.levels - 1) /\ m \in 0..(q.levels - 1)
        /\ \A k \in 0..(q.levels - 1) : (100 * l - a[1]) * (100 * l - a[1]) <= (100 * k - a[1]) * (100 * k - a[1])
        /\ \A k \in 0..(q.levels - 1) : (100 * m - b[1]) * (100 * m - b[1]) <= (100 * k - b[1]) * (100 * k - b[1])
    BY <2>1, NearestLevel, ZenonT(30)
  <2>3. l = m
    <3>1. ~(l > q.levels - 1) /\ ~(m > q.levels - 1) BY <2>1, <2>2
    <3>2. Projected(q, a) = <<l>> /\ Projected(q, b) = <<m>>
      BY <1>3, <3>1 DEF ValueOK, Projected
    <3> HIDE DEF l, m
    <3>3. <<l>> = <<m>> BY <3>2 DEF Agrees
    <3> QED BY <3>3
  <2>4. l \in Nearest(q, a[1]) /\ l \in Nearest(q, b[1])
    <3> HIDE DEF l, m
    <3> QED BY <2>2, <2>3 DEF Nearest
  <2> QED BY <1>3, <2>4 DEF MayAgree
<1> QED BY <1>1, <1>2, <1>3 DEF ValueOK, QuestionKinds

(* Answers that do not agree after projection differ as they are. *)
LEMMA ProjectedDiffer ==
    ASSUME NEW q, NEW a, NEW b, ValueOK(q, a), ValueOK(q, b), ~Agrees(q, a, b)
    PROVE  a[1] # b[1]
<1>1. CASE q.kind = "choice" BY <1>1 DEF ValueOK, Agrees, Projected, None
<1>2. CASE q.kind = "noul" BY <1>2 DEF ValueOK, Agrees, Projected, None
<1>3. CASE q.kind = "score" BY <1>3 DEF ValueOK, Agrees, Projected, None
<1> QED BY <1>1, <1>2, <1>3 DEF ValueOK, QuestionKinds

(* The observations of a specimen: they ask for its model, with one        *)
(* request, and a valid one holds a valid value for every question.        *)
LEMMA AuditsOf ==
    ASSUME NEW s, ValidSpecimen(s), NEW o \in AuditSet(s)
    PROVE  /\ o.requested_model = s.model
           /\ o.ok \in BOOLEAN
           /\ o.ok => o.request_hash = <<[model |-> s.model, state |-> s.template.state,
                                          questions |-> s.template.questions]>>
           /\ o.ok => \A j \in DOMAIN s.template.questions :
                LET q == s.template.questions[j] IN ValueOK(q, o.verdicts[q.key].value)
<1>1. PICK outcome : o = Observed(s, outcome) BY DEF AuditSet
<1> DEFINE questions == s.template.questions
           body == Received(outcome)
           answers == body[1].answers
<1>2. o.requested_model = s.model /\ o.ok \in BOOLEAN BY <1>1 DEF Observed, Observation
<1>3. o.ok => /\ o.request_hash = <<[model |-> s.model, state |-> s.template.state,
                                     questions |-> questions]>>
              /\ ValidBatch(questions, answers)
              /\ o.verdicts = Decoded(answers)
  BY <1>1 DEF Observed, Observation
<1>4. ASSUME o.ok, NEW j \in DOMAIN questions
      PROVE  ValueOK(questions[j], o.verdicts[questions[j].key].value)
  <2> DEFINE q == questions[j]
             answer == answers[q.key]
  <2>1. InContract(q, answer) /\ q.key \in DOMAIN answers
    BY <1>3, <1>4 DEF ValidBatch, Keys
  <2>2. ValidQuestion(q) BY DEF ValidSpecimen, ValidQuestions
  <2>3. o.verdicts[q.key].value = answer.value
    <3> HIDE DEF q, answers, questions
    <3> QED BY <1>3, <1>4, <2>1 DEF Decoded
  <2>4. InContract(q, answer) => ValueOK(q, answer.value)
    <3> HIDE DEF q, answer
    <3> SUFFICES ASSUME InContract(q, answer) PROVE ValueOK(q, answer.value)
      OBVIOUS
    <3>1. CASE q.kind = "choice"
      <4>1. PICK i \in DOMAIN q.options : <<q.options[i]>> = answer.value BY <3>1 DEF InContract
      <4>2. answer.value = <<answer.value[1]>> /\ answer.value # None BY <4>1 DEF None
      <4> QED BY <3>1, <4>2 DEF ValueOK, QuestionKinds
    <3>2. CASE q.kind = "noul"
      <4>1. answer.value # None /\ answer.value[1] \in 0..100 BY <3>2 DEF InContract
      <4> QED BY <3>2, <4>1 DEF ValueOK, QuestionKinds
    <3>3. CASE q.kind = "score"
      <4>1. answer.value # None /\ answer.value[1] \in 0..(100 * (q.levels - 1))
        BY <3>3 DEF InContract
      <4> QED BY <2>2, <3>3, <4>1 DEF ValueOK, QuestionKinds, ValidQuestion
    <3> QED BY <2>2, <3>1, <3>2, <3>3 DEF ValidQuestion, QuestionKinds
  <2>5. ValueOK(q, answer.value) BY <2>1, <2>4
  <2> HIDE DEF answer
  <2> QED BY <2>3, <2>5
<1> QED BY <1>2, <1>3, <1>4


(* The answers of a specimen: one per run and provider, and the verdicts   *)
(* returned are those of the audit.                                        *)
AnswersOf(s, audits, results) ==
    \A n \in ProviderNames :
        /\ audits[n] \in Seq(AuditSet(s)) /\ Len(audits[n]) = s.template.runs_per_provider
        /\ \A i \in 1..Len(audits[n]) : results[n][i] = audits[n][i].verdicts

(* What the record asks of a status.                                       *)
HonestStatus(s, audits, stable, status) ==
    LET Valid == \A n \in ProviderNames : \A i \in DOMAIN audits[n] : audits[n][i].ok
        Seen  == UNION {Range(audits[n]) : n \in ProviderNames}
        Bound == /\ Cardinality({o.model : o \in Seen}) = 1
                 /\ Cardinality({o.request_hash : o \in Seen}) = 1
                 /\ stable
        Raw(n, i, q) == audits[n][i].verdicts[q.key].value[1]
    IN  /\ status = "FAIL_PROVIDER" <=> ~Valid
        /\ Valid => (Bound <=> status \in {"PASS", "REVIEW_DISAGREEMENT"})
        /\ status = "PASS" =>
             \A i \in 1..s.template.runs_per_provider, j \in DOMAIN s.template.questions :
               LET q == s.template.questions[j]
               IN  MayAgree(q, Raw("typesafe", i, q), Raw("vercel-typesafe", i, q))
        /\ status = "REVIEW_DISAGREEMENT" =>
             \E i \in 1..s.template.runs_per_provider, j \in DOMAIN s.template.questions :
               LET q == s.template.questions[j]
               IN  Raw("typesafe", i, q) # Raw("vercel-typesafe", i, q)

(* The reconciliation of the answers of a specimen says what the record    *)
(* asks of it.                                                             *)
LEMMA ReconciledHonestly ==
    ASSUME NEW s, ValidSpecimen(s), NEW audits, NEW results, NEW stable \in BOOLEAN,
           AnswersOf(s, audits, results)
    PROVE  HonestStatus(s, audits, stable, Reconciled(s, audits, results, stable))
<1> DEFINE a == audits["typesafe"]
           b == audits["vercel-typesafe"]
           ra == results["typesafe"]
           rb == results["vercel-typesafe"]
           n == s.template.runs_per_provider
           questions == s.template.questions
           status == Reconciled(s, audits, results, stable)
           Valid == \A m \in ProviderNames : \A i \in DOMAIN audits[m] : audits[m][i].ok
           Seen == UNION {Range(audits[m]) : m \in ProviderNames}
           allValid == \A i \in 1..n : a[i].ok /\ b[i].ok
           sameRequest == \A i \in 1..n : a[i].request_hash = b[i].request_hash /\ a[i].request_hash # None
           observed == Range(a) \cup Range(b)
           oneModel == /\ \A o \in observed : o.requested_model = s.model
                       /\ Cardinality({o.model : o \in observed}) = 1
           agreement == \A i \in 1..n, j \in DOMAIN questions :
                          Agrees(questions[j], ra[i][questions[j].key].value, rb[i][questions[j].key].value)
           Bound == /\ Cardinality({o.model : o \in Seen}) = 1
                    /\ Cardinality({o.request_hash : o \in Seen}) = 1
                    /\ stable
           hash == <<[model |-> s.model, state |-> s.template.state, questions |-> questions]>>
<1>1. status = IF ~allValid THEN "FAIL_PROVIDER"
               ELSE IF ~sameRequest THEN "FAIL_REQUEST_DRIFT"
               ELSE IF ~oneModel THEN "FAIL_MODEL_DRIFT"
               ELSE IF ~stable THEN "FAIL_MODEL_CATALOG_DRIFT"
               ELSE IF ~agreement THEN "REVIEW_DISAGREEMENT"
               ELSE "PASS"
  BY DEF Reconciled, Providers
<1>2. /\ a \in Seq(AuditSet(s)) /\ b \in Seq(AuditSet(s)) /\ Len(a) = n /\ Len(b) = n
      /\ DOMAIN a = 1..n /\ DOMAIN b = 1..n
      /\ \A i \in 1..n : /\ ra[i] = a[i].verdicts /\ rb[i] = b[i].verdicts
                         /\ a[i] \in AuditSet(s) /\ b[i] \in AuditSet(s)
  BY DEF AnswersOf, ProviderNames
<1>3. n \in Nat /\ 1 \in 1..n BY LiveAssumption DEF ValidSpecimen
<1>4. Valid <=> allValid
  <2> HIDE DEF n
  <2> QED BY <1>2 DEF ProviderNames
<1>5. Seen = observed
  <2>1. {Range(audits[m]) : m \in ProviderNames} = {Range(a), Range(b)} BY DEF ProviderNames
  <2> HIDE DEF a, b
  <2> QED BY <2>1
<1>6. \A o \in observed : \E i \in 1..n : o = a[i] \/ o = b[i]
  <2> HIDE DEF a, b, n
  <2> QED BY <1>2 DEF Range
<1>7. a[1] \in observed
  <2> HIDE DEF a, b, n
  <2> QED BY <1>2, <1>3 DEF Range
<1>8. \A i \in 1..n : a[i].ok => a[i].request_hash = hash
  <2> HIDE DEF n, a
  <2> QED BY <1>2, AuditsOf
<1>9. \A i \in 1..n : b[i].ok => b[i].request_hash = hash
  <2> HIDE DEF n, b
  <2> QED BY <1>2, AuditsOf
<1>10. \A o \in observed : o.requested_model = s.model
  <2> HIDE DEF n, a, b, observed
  <2>1. \A o \in observed : o \in AuditSet(s) BY <1>2, <1>6
  <2> QED BY <2>1, AuditsOf
<1>11. allValid => /\ sameRequest
                   /\ Cardinality({o.request_hash : o \in Seen}) = 1
  <2> SUFFICES ASSUME allValid PROVE sameRequest /\ Cardinality({o.request_hash : o \in Seen}) = 1
    OBVIOUS
  <2>1. hash # None BY DEF None
  <2> HIDE DEF n, a, b, observed, Seen, hash
  <2>2. sameRequest BY <1>8, <1>9, <2>1
  <2>3. \A o \in Seen : o.request_hash = hash BY <1>5, <1>6, <1>8, <1>9
  <2>4. {o.request_hash : o \in Seen} = {hash} BY <1>5, <1>7, <2>3
  <2> QED BY <2>2, <2>4, FS_Singleton
<1>12. /\ status = "FAIL_PROVIDER" <=> ~Valid
       /\ Valid => (Bound <=> status \in {"PASS", "REVIEW_DISAGREEMENT"})
  <2>1. oneModel <=> Cardinality({o.model : o \in Seen}) = 1 BY <1>5, <1>10
  <2> HIDE DEF allValid, sameRequest, oneModel, agreement, Valid, Seen, status
  <2> QED BY <1>1, <1>4, <1>11, <2>1
<1>13. ASSUME allValid, NEW i \in 1..n, NEW j \in DOMAIN questions
       PROVE  /\ ValueOK(questions[j], ra[i][questions[j].key].value)
              /\ ValueOK(questions[j], rb[i][questions[j].key].value)
  <2>1. /\ a[i] \in AuditSet(s) /\ a[i].ok /\ ra[i] = a[i].verdicts
        /\ b[i] \in AuditSet(s) /\ b[i].ok /\ rb[i] = b[i].verdicts
    BY <1>2, <1>13
  <2> HIDE DEF a, b, ra, rb
  <2> QED BY <2>1, AuditsOf
<1>14. ASSUME status = "PASS", NEW i \in 1..n, NEW j \in DOMAIN questions
       PROVE  MayAgree(questions[j], a[i].verdicts[questions[j].key].value[1],
                                     b[i].verdicts[questions[j].key].value[1])
  <2>1. allValid /\ agreement
    <3> HIDE DEF allValid, sameRequest, oneModel, agreement, status
    <3> QED BY <1>1, <1>14
  <2>2. ra[i] = a[i].verdicts /\ rb[i] = b[i].verdicts BY <1>2
  <2>3. Agrees(questions[j], ra[i][questions[j].key].value, rb[i][questions[j].key].value)
    BY <2>1
  <2> HIDE DEF a, b, ra, rb, questions, n, status
  <2> QED BY <1>13, <2>1, <2>2, <2>3, ProjectedAgree
<1>15. ASSUME status = "REVIEW_DISAGREEMENT"
       PROVE  \E i \in 1..n, j \in DOMAIN questions :
                a[i].verdicts[questions[j].key].value[1] # b[i].verdicts[questions[j].key].value[1]
  <2>1. allValid /\ ~agreement
    <3> HIDE DEF allValid, sameRequest, oneModel, agreement, status
    <3> QED BY <1>1, <1>15
  <2>2. PICK i \in 1..n, j \in DOMAIN questions :
          ~Agrees(questions[j], ra[i][questions[j].key].value, rb[i][questions[j].key].value)
    BY <2>1
  <2>3. ra[i] = a[i].verdicts /\ rb[i] = b[i].verdicts BY <1>2
  <2> HIDE DEF a, b, ra, rb, questions, n, status
  <2> QED BY <1>13, <2>1, <2>2, <2>3, ProjectedDiffer
<1> HIDE DEF status
<1>16. HonestStatus(s, audits, stable, status) BY <1>12, <1>14, <1>15 DEF HonestStatus
<1> QED BY <1>16 DEF status


(* What a run seals is honest.                                             *)
LEMMA SealsHonestly ==
    ASSUME DiskInv, RunInv, NEW p \in Runners, pc[p] = <<"write", "seal">>
    PROVE  HonestBundle(FrozenSpecimen, SealOf(p))
<1> USE DEF Making, Sealing, Reconciling, Rediscovering, Answered, Asking, Copied, Copying, Entered, Before
<1> DEFINE s == Specimen(p)
           v == SealOf(p)
           stable == mem[p].post = <<s.model_catalog>>
           audits == [n \in ProviderNames |-> content[n]]
<1>1. Facts(p) BY DEF RunInv, Facts
<1>2. /\ mem[p].specimen # None /\ mem[p].specimen = content["specimen"] /\ ValidSpecimen(s)
      /\ mem[p].pre = <<s.model_catalog>> /\ mem[p].copy = mem[p].specimen
      /\ content["frozen-specimen"] = mem[p].specimen
      /\ content["model-catalog-pre"] = mem[p].pre
  BY <1>1 DEF Facts, HasSpecimen, Inside, Has
<1>3. /\ mem[p].report = <<ReportOf(p)>> /\ content["reconciliation"] = mem[p].report
      /\ content["model-catalog-post"] = mem[p].post
  BY <1>1 DEF Facts, HasBundle, Has
<1>4. FrozenSpecimen = s /\ content["specimen"] = <<s>>
  BY <1>2 DEF RunInv, DirectoryInv, FrozenSpecimen, Specimen
<1>5. \A n \in ProviderNames : Complete(p, n) BY <1>1 DEF Facts, HasAnswers, ProviderNames
<1>6. ASSUME NEW n \in ProviderNames
      PROVE  /\ audits[n] \in Seq(AuditSet(s)) /\ Len(audits[n]) = s.template.runs_per_provider
             /\ \A i \in 1..Len(audits[n]) : mem[p].results[n][i] = audits[n][i].verdicts
  <2>1. Len(content[n]) = s.template.runs_per_provider /\ Aligned(p, n)
    BY <1>5 DEF Complete, RunsOf
  <2>2. content[n] \in Seq(AuditSet(s))
    BY <1>4, NoneIsSequence DEF RunInv, DirectoryInv
  <2> QED BY <2>1, <2>2 DEF Aligned
<1>7. /\ v.files = [f \in Bundle |-> content[f]]
      /\ v.status = Reconciled(s, audits, mem[p].results, stable)
      /\ content["reconciliation"][1].specimen = s
      /\ content["reconciliation"][1].status = v.status
  <2>1. mem[p].report[1] = ReportOf(p) BY <1>3
  <2> QED BY <1>3, <2>1 DEF SealOf, ReportOf
<1>8. /\ DOMAIN v.files = Bundle
      /\ \A f \in Bundle : v.files[f] = content[f]
      /\ \A n \in ProviderNames : v.files[n] = audits[n]
  BY <1>7 DEF Bundle
<1> DEFINE Valid == \A n \in ProviderNames : \A i \in DOMAIN v.files[n] : v.files[n][i].ok
           Seen  == UNION {Range(v.files[n]) : n \in ProviderNames}
           Bound == /\ Cardinality({o.model : o \in Seen}) = 1
                    /\ Cardinality({o.request_hash : o \in Seen}) = 1
                    /\ v.files["model-catalog-post"] = v.files["model-catalog-pre"]
           Raw(n, i, q) == v.files[n][i].verdicts[q.key].value[1]
           runs == 1..s.template.runs_per_provider
           questions == s.template.questions
<1>9. (v.files["model-catalog-post"] = v.files["model-catalog-pre"]) <=> stable
  <2>1. v.files["model-catalog-post"] = mem[p].post /\ v.files["model-catalog-pre"] = <<s.model_catalog>>
    BY <1>2, <1>3, <1>8 DEF Bundle
  <2> QED BY <2>1
<1>10. Seen = UNION {Range(audits[n]) : n \in ProviderNames} 
  <2> HIDE DEF v, audits
  <2> QED BY <1>8
<1>11. /\ v.status = "FAIL_PROVIDER" <=> ~Valid
       /\ Valid => (Bound <=> v.status \in {"PASS", "REVIEW_DISAGREEMENT"})
       /\ v.status = "PASS" =>
            \A i \in runs, j \in DOMAIN questions :
              MayAgree(questions[j], Raw("typesafe", i, questions[j]), Raw("vercel-typesafe", i, questions[j]))
       /\ v.status = "REVIEW_DISAGREEMENT" =>
            \E i \in runs, j \in DOMAIN questions :
              Raw("typesafe", i, questions[j]) # Raw("vercel-typesafe", i, questions[j])
  <2> DEFINE AllOk == \A n \in ProviderNames : \A i \in DOMAIN audits[n] : audits[n][i].ok
             All == UNION {Range(audits[n]) : n \in ProviderNames}
             One == /\ Cardinality({o.model : o \in All}) = 1
                    /\ Cardinality({o.request_hash : o \in All}) = 1
                    /\ stable
             Value(n, i, q) == audits[n][i].verdicts[q.key].value[1]
  <2>1. stable \in BOOLEAN OBVIOUS
  <2>2. /\ v.status = "FAIL_PROVIDER" <=> ~AllOk
        /\ AllOk => (One <=> v.status \in {"PASS", "REVIEW_DISAGREEMENT"})
        /\ v.status = "PASS" =>
             \A i \in runs, j \in DOMAIN questions :
               MayAgree(questions[j], Value("typesafe", i, questions[j]), Value("vercel-typesafe", i, questions[j]))
        /\ v.status = "REVIEW_DISAGREEMENT" =>
             \E i \in runs, j \in DOMAIN questions :
               Value("typesafe", i, questions[j]) # Value("vercel-typesafe", i, questions[j])
    <3>1. AnswersOf(s, audits, mem[p].results)
      <4> HIDE DEF audits, s
      <4> QED BY <1>6 DEF AnswersOf
    <3>2. HonestStatus(s, audits, stable, v.status)
      <4> HIDE DEF audits, stable, s, v
      <4> QED BY <1>2, <1>7, <2>1, <3>1, ReconciledHonestly
    <3> HIDE DEF audits, stable, v
    <3> QED BY <3>2 DEF HonestStatus
  <2>3. /\ Valid <=> AllOk
        /\ Bound <=> One
        /\ \A i, q : Raw("typesafe", i, q) = Value("typesafe", i, q)
                     /\ Raw("vercel-typesafe", i, q) = Value("vercel-typesafe", i, q)
    <3>1. v.files["typesafe"] = audits["typesafe"] /\ v.files["vercel-typesafe"] = audits["vercel-typesafe"]
      BY <1>8 DEF ProviderNames
    <3>2. Bound <=> One
      <4> HIDE DEF v, audits, stable
      <4> QED BY <1>9, <1>10
    <3>3. Valid <=> AllOk
      <4> HIDE DEF v, audits
      <4> QED BY <1>8
    <3>4. \A i, q : Raw("typesafe", i, q) = Value("typesafe", i, q)
      <4> HIDE DEF v, audits
      <4> QED BY <3>1
    <3>5. \A i, q : Raw("vercel-typesafe", i, q) = Value("vercel-typesafe", i, q)
      <4> HIDE DEF v, audits
      <4> QED BY <3>1
    <3> QED BY <3>2, <3>3, <3>4, <3>5, ZenonT(30)
  <2> HIDE DEF Valid, AllOk, Bound, One, Raw, Value, v
  <2> QED BY <2>2, <2>3
<1>12. /\ v.files["frozen-specimen"] = <<s>>
       /\ v.files["model-catalog-pre"] = <<s.model_catalog>>
       /\ v.files["reconciliation"][1].specimen = s
       /\ v.files["reconciliation"][1].status = v.status
       /\ \A n \in ProviderNames : Len(v.files[n]) = s.template.runs_per_provider
  <2>1. /\ v.files["frozen-specimen"] = content["frozen-specimen"]
        /\ v.files["model-catalog-pre"] = content["model-catalog-pre"]
        /\ v.files["reconciliation"] = content["reconciliation"]
    BY <1>8 DEF Bundle
  <2>2. \A n \in ProviderNames : Len(v.files[n]) = s.template.runs_per_provider
    BY <1>6, <1>8
  <2> QED BY <1>2, <1>4, <1>7, <2>1, <2>2
<1> DEFINE Pairs == runs \X DOMAIN questions
<1>13. v.status = "PASS" =>
             \A pair \in Pairs :
               LET q == questions[pair[2]]
               IN  MayAgree(q, Raw(Providers[1], pair[1], q), Raw(Providers[2], pair[1], q))
  <2>1. \A pair \in Pairs : pair[1] \in runs /\ pair[2] \in DOMAIN questions
    <3> HIDE DEF runs, questions
    <3> QED OBVIOUS
  <2>2. Providers[1] = "typesafe" /\ Providers[2] = "vercel-typesafe" BY DEF Providers
  <2> HIDE DEF Raw, v, Pairs, runs, questions
  <2> QED BY <1>11, <2>1, <2>2
<1>14. v.status = "REVIEW_DISAGREEMENT" =>
             \E pair \in Pairs :
               LET q == questions[pair[2]]
               IN  Raw(Providers[1], pair[1], q) # Raw(Providers[2], pair[1], q)
  <2> SUFFICES ASSUME v.status = "REVIEW_DISAGREEMENT"
               PROVE  \E pair \in Pairs : LET q == questions[pair[2]]
                         IN  Raw(Providers[1], pair[1], q) # Raw(Providers[2], pair[1], q)
    OBVIOUS
  <2>1. PICK i \in runs, j \in DOMAIN questions :
              Raw("typesafe", i, questions[j]) # Raw("vercel-typesafe", i, questions[j])
    <3> HIDE DEF Raw, v, runs, questions
    <3> QED BY <1>11
  <2>2. <<i, j>> \in Pairs /\ <<i, j>>[1] = i /\ <<i, j>>[2] = j
    <3> HIDE DEF runs, questions
    <3> QED OBVIOUS
  <2>3. Providers[1] = "typesafe" /\ Providers[2] = "vercel-typesafe" BY DEF Providers
  <2> HIDE DEF Raw, v, Pairs, runs, questions
  <2> QED BY <2>1, <2>2, <2>3
<1>15. HonestBundle(s, v)
  <2> HIDE DEF v, s
  <2> QED BY <1>8, <1>11, <1>12, <1>13, <1>14 DEF HonestBundle
<1> QED BY <1>4, <1>15


-----------------------------------------------------------------------------
(* A file step freezes, seals, or does nothing that the record shows. *)
LEMMA FrozenOnce ==
    ASSUME DiskInv, RunInv, NEW p \in Processes, NEW file \in Files \ ProviderNames,
           Create(p, file) \/ Write(p, file)
    PROVE  \/ /\ disk'["specimen"] = "complete" <=> disk["specimen"] = "complete"
              /\ disk'["seal"] = "complete" <=> disk["seal"] = "complete"
              /\ content'["specimen"] = content["specimen"] /\ content'["seal"] = content["seal"]
           \/ /\ file = "specimen" /\ disk["specimen"] # "complete" /\ disk'["specimen"] = "complete"
              /\ content'["specimen"] # None
              /\ disk'["seal"] = disk["seal"] /\ content'["seal"] = content["seal"]
           \/ /\ file = "seal" /\ disk["seal"] # "complete" /\ disk'["seal"] = "complete"
              /\ pc[p] = <<"write", "seal">> /\ content'["seal"] = mem[p].seal
              /\ disk'["specimen"] = disk["specimen"] /\ content'["specimen"] = content["specimen"]
<1>1. /\ \A f \in Files \ {file} : disk'[f] = disk[f] /\ content'[f] = content[f]
      /\ \/ disk'[file] = "complete" /\ content'[file] = Payload(p, file) /\ pc'[p] = After(file)
            /\ pc[p] = <<"write", file>>
         \/ disk[file] # "complete" /\ disk'[file] # "complete" /\ content'[file] = content[file]
         \/ disk'[file] = disk[file] /\ content'[file] = content[file]
  BY FileStepLeaves
<1>2. pc[p] = <<"write", file>> => Payload(p, file) # None /\ disk[file] # "complete"
  BY Written DEF DiskInv
<1>3. "specimen" \in Files /\ "seal" \in Files BY DEF Files
<1>4. CASE file = "specimen" BY <1>1, <1>2, <1>3, <1>4
<1>5. CASE file = "seal"
  <2>1. Payload(p, file) = mem[p].seal BY <1>5 DEF Payload
  <2> QED BY <1>1, <1>2, <1>3, <1>5, <2>1
<1>6. CASE file \notin {"specimen", "seal"} BY <1>1, <1>3, <1>6
<1> QED BY <1>4, <1>5, <1>6

(* The experiment implements its record, whatever fails, is killed or       *)
(* changes under it: the specimen is frozen once, and the one verdict ever  *)
(* sealed is about it and follows from the answers that are sealed with it. *)
THEOREM ImplementsRecord == Spec => RecordSpec
<1> DEFINE frozen  == IF disk["specimen"] = "complete" THEN content["specimen"] ELSE None
           verdict == IF disk["seal"] = "complete" THEN content["seal"] ELSE None
<1>1. Init => Record!Init
  BY DEF Init, Record!Init, Files, None
<1>2. DiskInv /\ ExperimentInv /\ [Next]_vars => [Record!Next]_<<frozen, verdict>>
  <2> SUFFICES ASSUME DiskInv, RunInv, [Next]_vars
               PROVE  Record!Next \/ UNCHANGED <<frozen, verdict>>
    BY DEF ExperimentInv
  <2>0. DirectoryInv BY DEF RunInv
  <2>1. CASE UNCHANGED <<disk, content>> BY <2>1
  <2>2. ASSUME NEW p \in Processes, NEW file \in Files \ ProviderNames, Create(p, file) \/ Write(p, file)
        PROVE  Record!Next \/ UNCHANGED <<frozen, verdict>>
    <3>1. CASE /\ disk'["specimen"] = "complete" <=> disk["specimen"] = "complete"
               /\ disk'["seal"] = "complete" <=> disk["seal"] = "complete"
               /\ content'["specimen"] = content["specimen"] /\ content'["seal"] = content["seal"]
      BY <3>1
    <3>2. CASE /\ disk["specimen"] # "complete" /\ disk'["specimen"] = "complete"
               /\ content'["specimen"] # None
               /\ disk'["seal"] = disk["seal"] /\ content'["seal"] = content["seal"]
      <4>1. Record!Freeze BY <3>2 DEF Record!Freeze, None
      <4> QED BY <4>1 DEF Record!Next
    <3>3. CASE /\ file = "seal" /\ disk["seal"] # "complete" /\ disk'["seal"] = "complete"
               /\ pc[p] = <<"write", "seal">> /\ content'["seal"] = mem[p].seal
               /\ disk'["specimen"] = disk["specimen"] /\ content'["specimen"] = content["specimen"]
      <4>1. p \in Runners
        <5>1. p \in Freezers => FreezerOK(p) BY DEF RunInv
        <5> QED BY <3>3, <5>1 DEF FreezerOK, Making, Evidence, Processes
      <4>2. mem[p].seal = <<SealOf(p)>>
        <5>1. HasBundle(p) BY <4>1 DEF RunInv
        <5> QED BY <3>3, <5>1 DEF HasBundle, Making
      <4>3. HonestBundle(FrozenSpecimen, SealOf(p)) BY <3>3, <4>1, SealsHonestly
      <4>4. disk["specimen"] = "complete" /\ content["specimen"] # None
        <5>1. mem[p].specimen # None /\ mem[p].specimen = content["specimen"]
          <6>1. HasSpecimen(p) BY <4>1 DEF RunInv
          <6>2. Inside(p)
            BY <3>3 DEF Inside, Entered, Copying, Copied, Answered, Rediscovering, Reconciling, Sealing, Making
          <6> QED BY <6>1, <6>2 DEF HasSpecimen
        <5> QED BY <2>0, <5>1 DEF DirectoryInv, Files
      <4>5. frozen # <<>> /\ frozen[1] = FrozenSpecimen /\ verdict = <<>>
            /\ verdict' = <<SealOf(p)>> /\ UNCHANGED frozen
        <5>1. frozen = content["specimen"] /\ verdict = None BY <3>3, <4>4
        <5>2. UNCHANGED frozen BY <3>3
        <5>3. verdict' = <<SealOf(p)>> BY <3>3, <4>2
        <5> HIDE DEF frozen, verdict
        <5> QED BY <4>4, <5>1, <5>2, <5>3 DEF FrozenSpecimen, None
      <4>6. verdict'[1] = SealOf(p) /\ verdict' # <<>>
        <5> HIDE DEF frozen, verdict
        <5> QED BY <4>5
      <4>7. HonestBundle(frozen[1], verdict'[1]) BY <4>3, <4>5, <4>6
      <4>8. Record!Seal
        <5> HIDE DEF frozen, verdict
        <5> QED BY <4>5, <4>6, <4>7 DEF Record!Seal, frozen, verdict
      <4> QED BY <4>8 DEF Record!Next
    <3> QED BY <2>2, <3>1, <3>2, <3>3, FrozenOnce
  <2>3. ASSUME NEW p \in Runners, Answer(p) PROVE UNCHANGED <<frozen, verdict>>
    <3>1. "specimen" \in Files \ ProviderNames /\ "seal" \in Files \ ProviderNames
      BY DEF Files, ProviderNames
    <3> QED BY <2>3, <3>1, AnswerKeepsDisk
  <2>4. ASSUME NEW p \in Processes, NEW stage, Quiet(p, stage) PROVE UNCHANGED <<disk, content>>
    BY <2>4 DEF Quiet
  <2> HIDE DEF frozen, verdict
  <2> QED BY <2>1, <2>2, <2>3, <2>4, Steps, StepsAreQuiet
<1> QED BY <1>1, <1>2, DiskCorrect, ExperimentCorrect, PTL DEF Spec, RecordSpec, Record!Spec
=============================================================================
