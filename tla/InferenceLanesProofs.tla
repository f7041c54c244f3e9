------------------------ MODULE InferenceLanesProofs ------------------------
(***************************************************************************)
(* The lanes for any number of requests, of starts and of verifications,   *)
(* whatever the models answer: the permit of a lane, the index that a      *)
(* retrieval worker serves, the verdict on an outcome, and the answers     *)
(* that clients return.                                                    *)
(***************************************************************************)
EXTENDS InferenceLanes, FiniteSetTheorems, NaturalsInduction, WellFoundedInduction,
        TLAPS

(* The inductive invariant: the books themselves, the values that a permit *)
(* and an inference take, and that a request has no inference before its   *)
(* handler has arrived at the start of one - so that to start it takes the *)
(* permit for nothing that is in flight already.                           *)
PermitInv ==
  /\ client \in [Requests -> {"idle", "waiting", "done"}]
  /\ job \in [Requests -> {"none", "arrived", "joining", "replied", "cancelled"}]
  /\ run \in [Requests -> InFlight \cup {"none", "queued", "ended"}]
  /\ busy \in Requests \cup {NoOne}
  /\ \A r \in Requests : client[r] = "idle" => job[r] = "none"
  /\ \A r \in Requests : job[r] \in {"none", "arrived"} => run[r] = "none"
  /\ \A r \in Requests : lane = "generate" => run[r] \notin {"queued", "verify", "embed", "reverify"}
  /\ PermitBooks

LEMMA PermitInit == Init => PermitInv
  BY LaneAssumption DEF Init, PermitInv, PermitBooks, InFlight

LEMMA PermitStep ==
  ASSUME PermitInv, [Next]_vars
  PROVE  PermitInv'
<1> USE DEF laneVars, clientVars, jobVars, runVars
<1>1. ASSUME NEW r \in Requests, Ask(r) PROVE PermitInv'
  BY <1>1 DEF Ask, PermitInv, PermitBooks, InFlight
<1>2. ASSUME NEW r \in Requests, IntentArrives(r) \/ RetrieveArrives(r) PROVE PermitInv'
  <2>1. job[r] = "arrived" /\ run[r] = "none" /\ client[r] # "idle"
    BY <1>2 DEF IntentArrives, RetrieveArrives, PermitInv
  <2>2. UNCHANGED <<lane, client>>
    BY <1>2 DEF IntentArrives, RetrieveArrives
  <2>3. lane # "generate"
    BY <1>2 DEF IntentArrives, RetrieveArrives, IntentLane
  <2>4. \/ busy = NoOne /\ busy' = r /\ job' = [job EXCEPT ![r] = "joining"]
           /\ \E at \in {"running", "verify"} : run' = [run EXCEPT ![r] = at]
        \/ UNCHANGED <<busy, run>> /\ job' = [job EXCEPT ![r] = "replied"]
    BY <1>2 DEF IntentArrives, RetrieveArrives, Start, Reply
  <2> QED  BY <2>1, <2>2, <2>3, <2>4, LaneAssumption DEF PermitInv, PermitBooks, InFlight
<1>3. ASSUME NEW r \in Requests, ReflexArrives(r) \/ WorkArrives(r) PROVE PermitInv'
  <2>1. job[r] = "arrived" /\ run[r] = "none" /\ client[r] # "idle"
    BY <1>3 DEF ReflexArrives, WorkArrives, PermitInv
  <2>2. UNCHANGED <<lane, client, busy>>
    BY <1>3 DEF ReflexArrives, WorkArrives
  <2>3. \/ job' = [job EXCEPT ![r] = "joining"] /\ lane = "reflex" /\ run' = [run EXCEPT ![r] = "queued"]
        \/ job' = [job EXCEPT ![r] = "joining"] /\ lane = "generate" /\ run' = [run EXCEPT ![r] = "running"]
        \/ UNCHANGED run /\ job' = [job EXCEPT ![r] = "replied"]
    BY <1>3 DEF ReflexArrives, WorkArrives, Start, Reply
  <2> QED  BY <2>1, <2>2, <2>3 DEF PermitInv, PermitBooks, InFlight
<1>4. ASSUME NEW r \in Requests, IntentReplies(r) \/ ReflexReplies(r) \/ WorkReplies(r) \/ RetrieveReplies(r)
      PROVE  PermitInv'
  <2>1. job[r] = "joining" /\ client[r] # "idle" /\ job' = [job EXCEPT ![r] = "replied"]
    BY <1>4 DEF IntentReplies, ReflexReplies, WorkReplies, RetrieveReplies, Reply, PermitInv
  <2>2. UNCHANGED <<lane, client, run, busy>>
    BY <1>4 DEF IntentReplies, ReflexReplies, WorkReplies, RetrieveReplies
  <2> QED  BY <2>1, <2>2 DEF PermitInv, PermitBooks, InFlight
<1>5. ASSUME NEW r \in Requests, Receive(r) \/ GiveUp(r) \/ CallerCancelled(r) PROVE PermitInv'
  <2>1. client[r] = "waiting" /\ client' = [client EXCEPT ![r] = "done"]
    BY <1>5 DEF Receive, GiveUp, CallerCancelled, Return
  <2>2. UNCHANGED <<lane, job, run, busy>>
    BY <1>5 DEF Receive, GiveUp, CallerCancelled
  <2> QED  BY <2>1, <2>2 DEF PermitInv, PermitBooks, InFlight
<1>6. ASSUME NEW r \in Requests, GateTimeout(r) PROVE PermitInv'
  <2>1. /\ lane = "reflex" /\ client[r] = "waiting" /\ client' = [client EXCEPT ![r] = "done"]
        /\ job' = [job EXCEPT ![r] = "cancelled"]
        /\ run' = [run EXCEPT ![r] = IF run[r] = "queued" THEN "ended" ELSE run[r]]
        /\ UNCHANGED <<lane, busy>>
    BY <1>6 DEF GateTimeout, Return
  <2> QED  BY <2>1 DEF PermitInv, PermitBooks, InFlight
<1>7. ASSUME NEW r \in Requests, ReflexAcquires(r) PROVE PermitInv'
  <2>1. /\ run[r] = "queued" /\ lane # "generate" /\ UNCHANGED <<lane, client, job>>
        /\ \/ busy = NoOne /\ busy' = r /\ run' = [run EXCEPT ![r] = "running"]
           \/ run' = [run EXCEPT ![r] = "ended"] /\ UNCHANGED busy
    BY <1>7 DEF ReflexAcquires, PermitInv
  <2> QED  BY <2>1, LaneAssumption DEF PermitInv, PermitBooks, InFlight
<1>8. ASSUME NEW r \in Requests, Infer(r) PROVE PermitInv'
  <2>1. /\ run[r] = "running" /\ UNCHANGED <<lane, client, job, busy>>
        /\ run' = [run EXCEPT ![r] = IF lane = "generate" THEN "ended" ELSE "produced"]
    BY <1>8 DEF Infer
  <2> QED  BY <2>1 DEF PermitInv, PermitBooks, InFlight
<1>9. ASSUME NEW r \in Requests, Release(r) PROVE PermitInv'
  <2>1. /\ run[r] = "produced" /\ UNCHANGED <<lane, client, job>>
        /\ run' = [run EXCEPT ![r] = "ended"] /\ busy' = NoOne
    BY <1>9 DEF Release
  <2>2. lane # "generate" => busy = r
    BY <2>1 DEF PermitInv, PermitBooks, InFlight
  <2> QED  BY <2>1, <2>2, LaneAssumption DEF PermitInv, PermitBooks, InFlight
<1>10. ASSUME NEW r \in Requests, VerifyQuery(r) \/ EmbedQuery(r) \/ ReverifyQuery(r) PROVE PermitInv'
  <2>1. /\ run[r] \in {"verify", "embed", "reverify"} /\ UNCHANGED <<lane, client, job, busy>>
        /\ \E to \in {"embed", "reverify", "produced"} : run' = [run EXCEPT ![r] = to]
    BY <1>10 DEF VerifyQuery, EmbedQuery, ReverifyQuery
  <2> QED  BY <2>1 DEF PermitInv, PermitBooks, InFlight
<1>11. ASSUME UNCHANGED laneVars \/ VerifySchema PROVE PermitInv'
  <2>1. UNCHANGED <<lane, client, job, run, busy>>
    BY <1>11 DEF VerifySchema
  <2> QED  BY <2>1 DEF PermitInv, PermitBooks, InFlight
<1> QED
  BY <1>1, <1>2, <1>3, <1>4, <1>5, <1>6, <1>7, <1>8, <1>9, <1>10, <1>11
     DEF Next, LanesNext, Handle, Think, vars

(* "A timed-out inference keeps its concurrency permit until its socket    *)
(* finishes": the permit of a lane is held by the one request whose        *)
(* inference is in flight, and by nobody when there is none.               *)
THEOREM PermitBooksHold == Spec => []PermitBooks
<1>1. PermitInv => PermitBooks
  BY DEF PermitInv
<1> QED  BY PermitInit, PermitStep, <1>1, PTL DEF Spec
-----------------------------------------------------------------------------
(* The index of a retrieval worker.                                        *)

(* A file, or none.                                                        *)
FileOr(S) == S \cup {NoFile}

(* The values of the index and of its starts.                              *)
IndexTypeOK ==
  /\ tag \in Digests /\ moves \in 0..MaxMoves /\ corpus \in Corpora
  /\ data = [i \in Inodes |-> data[i]]
  /\ tmp \in FileOr(Inodes) /\ index \in FileOr(Inodes) /\ shared \in BOOLEAN
  /\ pc \in [Boots -> {"start", "inventory", "verify", "embed", "reverify", "open", "write",
                       "replace", "load", "serving", "failed"}]
  /\ raw \in [Boots -> FileOr(Corpora)]
  /\ \A b \in Boots : pc[b] # "start" => raw[b] \in Corpora
  /\ handle \in [Boots -> FileOr(Inodes)]
  /\ since \in [Boots -> Nat]
  /\ vec = [b \in Boots |-> vec[b]]
  /\ served = [b \in Boots |-> served[b]]

(* What a start knows of the model tag while it embeds, and what it has    *)
(* when it is done.                                                        *)
EmbeddingInv ==
  \A b \in Boots :
    /\ pc[b] = "embed" => since[b] <= moves /\ (tag # Admitted => since[b] < moves)
    /\ pc[b] = "reverify" => \E d \in Digests :
         /\ vec[b] = Built(raw[b], d)
         /\ d # Admitted => since[b] < moves /\ (since[b] + 1 = moves => tag # Admitted)
    /\ pc[b] \in {"open", "write"} => Whole(vec[b]) /\ Vouched(vec[b])

(* The files: who has one open, and what can be in them.                   *)
FilesInv ==
  /\ \A b \in Boots : (handle[b] # NoFile) = (pc[b] \in {"write", "replace"})
  /\ tmp # NoFile => tmp # index
  /\ \A i \in Inodes : Whole(data[i]) => Vouched(data[i])
  /\ shared \/ /\ \A a, b \in Boots : handle[a] # NoFile /\ handle[b] # NoFile => a = b
               /\ \A b \in Boots :
                    /\ handle[b] # NoFile => handle[b] = tmp
                    /\ pc[b] = "write" => data[handle[b]] = Empty
                    /\ pc[b] = "replace" => Whole(data[handle[b]])

(* The inductive invariant of the index.                                   *)
IndexInv == IndexTypeOK /\ EmbeddingInv /\ FilesInv /\ IndexSound

(* There is a file for another start: one more than the starts, one of them*)
(* without a file of its own.                                              *)
LEMMA FreshExists ==
  ASSUME IndexTypeOK, NEW b \in Boots, handle[b] = NoFile, tmp = NoFile
  PROVE  /\ FreshInode \in Inodes /\ FreshInode # index /\ FreshInode # tmp
         /\ \A c \in Boots : handle[c] # FreshInode
<1>1. \E i \in Inodes : i # index /\ i # tmp /\ \A c \in Boots : handle[c] # i
  <2> SUFFICES ASSUME \A i \in Inodes : i = index \/ \E c \in Boots : handle[c] = i PROVE FALSE
    BY IndexAssumption DEF IndexTypeOK
  <2> DEFINE f == [i \in Inodes |-> IF i = index THEN b ELSE CHOOSE c \in Boots : handle[c] = i]
  <2>1. f \in [Inodes -> Boots]
    OBVIOUS
  <2>2. PICK i \in Inodes, j \in Inodes : i # j /\ f[i] = f[j]
    <3> HIDE DEF f
    <3> QED  BY <2>1, IndexAssumption, FS_PigeonHole
  <2>3. \A k \in Inodes : k # index => handle[f[k]] = k
    OBVIOUS
  <2>4. f[index] = b \/ index \notin Inodes
    OBVIOUS
  <2> HIDE DEF f
  <2> QED  BY <2>2, <2>3, <2>4, IndexAssumption
<1> QED  BY <1>1 DEF FreshInode

(* The invariant of the index holds before the first start.                *)
LEMMA IndexStarts == IndexInit => IndexInv
<1> SUFFICES ASSUME IndexInit PROVE IndexInv
  OBVIOUS
<1>0. NoFile \notin Inodes /\ Inodes # {}
  BY IndexAssumption, FS_EmptySet, FS_CardinalityType
<1>1. PICK first \in FirstIndexes, i \in {CHOOSE i \in Inodes : TRUE} :
        /\ data = [j \in Inodes |-> IF j = i THEN first ELSE NoFile]
        /\ index = IF first = NoFile THEN NoFile ELSE i
  BY DEF IndexInit
<1>2. i \in Inodes
  BY <1>0
<1>3. IndexTypeOK
  <2>1. moves \in 0..MaxMoves
    BY IndexAssumption DEF IndexInit
  <2>2. tag \in Digests /\ corpus \in Corpora
    BY IndexAssumption DEF IndexInit
  <2> QED  BY <1>0, <1>1, <1>2, <2>1, <2>2 DEF IndexInit, IndexTypeOK, FileOr
<1>4. EmbeddingInv
  BY DEF IndexInit, EmbeddingInv
<1>5. \A j \in Inodes : Whole(data[j]) => j = i /\ first # NoFile
  BY <1>1 DEF Whole
<1>6. FilesInv
  <2>1. \A j \in Inodes : Whole(data[j]) => Vouched(data[j])
    BY <1>1, <1>5, FileAssumption
  <2> QED  BY <2>1 DEF IndexInit, FilesInv
<1>7. IndexSound
  BY <1>1, <1>2, FileAssumption DEF IndexInit, IndexSound, ServesItsCorpus, AdmittedVectors, WholeIndex
<1> QED  BY <1>3, <1>4, <1>6, <1>7 DEF IndexInv

(* Every step keeps the types,                                             *)
LEMMA IndexTypeStep ==
  ASSUME IndexTypeOK, FilesInv, [IndexNext]_indexVars
  PROVE  IndexTypeOK'
<1> USE DEF IndexTypeOK, fileVars, bootVars, worldVars, Goto
<1>1. ASSUME NEW b \in Boots, ReadCorpus(b) \/ Inventory(b) \/ Verify(b) \/ EmbedCorpus(b) PROVE IndexTypeOK'
  BY <1>1 DEF ReadCorpus, Inventory, Verify, EmbedCorpus, FileOr
<1>2. ASSUME NEW b \in Boots, Reverify(b) PROVE IndexTypeOK'
  BY <1>2 DEF Reverify, FileOr
<1>3. ASSUME NEW b \in Boots, OpenTemporary(b) PROVE IndexTypeOK'
  <2>1. handle[b] = NoFile
    BY <1>3 DEF OpenTemporary, FilesInv
  <2>2. \E i \in Inodes : /\ tmp' = i /\ handle' = [handle EXCEPT ![b] = i]
                          /\ data' = [data EXCEPT ![i] = Empty]
    BY <1>3, <2>1, FreshExists DEF OpenTemporary, FileOr
  <2>3. shared' \in BOOLEAN
    BY <1>3 DEF OpenTemporary
  <2> QED  BY <1>3, <2>2, <2>3, SMTT(30) DEF OpenTemporary, FileOr
<1>4. ASSUME NEW b \in Boots, WriteTemporary(b) \/ Load(b) PROVE IndexTypeOK'
  BY <1>4 DEF WriteTemporary, Load, FileOr
<1>5. ASSUME NEW b \in Boots, Replace(b) PROVE IndexTypeOK'
  BY <1>5 DEF Replace, FileOr
<1>6. ASSUME NEW b \in Boots, Crash(b) PROVE IndexTypeOK'
  BY <1>6 DEF Crash, FileOr
<1>7. CASE MoveTag \/ EditCorpus \/ UNCHANGED indexVars
  BY <1>7, IndexAssumption DEF MoveTag, EditCorpus, indexVars
<1> QED  BY <1>1, <1>2, <1>3, <1>4, <1>5, <1>6, <1>7 DEF IndexNext, Boot

(* what a start knows of the tag,                                          *)
LEMMA EmbeddingStep ==
  ASSUME IndexTypeOK, EmbeddingInv, [IndexNext]_indexVars
  PROVE  EmbeddingInv'
<1> USE DEF fileVars, bootVars, worldVars, Goto
<1>1. ASSUME NEW b \in Boots, ReadCorpus(b) \/ Inventory(b) \/ WriteTemporary(b) \/ Load(b)  PROVE EmbeddingInv'
  BY <1>1 DEF ReadCorpus, Inventory, WriteTemporary, Load, IndexTypeOK, EmbeddingInv
<1>2. ASSUME NEW b \in Boots, Verify(b) PROVE EmbeddingInv'
  BY <1>2 DEF Verify, IndexTypeOK, EmbeddingInv
<1>3. ASSUME NEW b \in Boots, EmbedCorpus(b) PROVE EmbeddingInv'
  BY <1>3 DEF EmbedCorpus, IndexTypeOK, EmbeddingInv
<1>4. ASSUME NEW b \in Boots, Reverify(b) PROVE EmbeddingInv'
  <2>1. CASE tag = Admitted
    <3>1. PICK d \in Digests : /\ vec[b] = Built(raw[b], d) /\ raw[b] \in Corpora
                               /\ d # Admitted => since[b] < moves /\ since[b] + 1 # moves
      BY <1>4, <2>1 DEF Reverify, EmbeddingInv, IndexTypeOK
    <3> DEFINE m == moves >= since[b] + 2
               x == [Built(raw[b], d) EXCEPT !.moved = m]
    <3>2. vec' = [vec EXCEPT ![b] = x] /\ pc' = [pc EXCEPT ![b] = "open"] /\ UNCHANGED <<raw, tag, moves>>
      BY <1>4, <2>1, <3>1 DEF Reverify
    <3>3. since' = [since EXCEPT ![b] = 0]
      BY <1>4 DEF Reverify
    <3>4. Whole(x)
      <4>1. m \in BOOLEAN  OBVIOUS
      <4> HIDE DEF m
      <4> QED  BY <3>1, <4>1, FileAssumption
    <3>5. Vouched(x)
      <4>1. d # Admitted => m
        BY <3>1 DEF IndexTypeOK
      <4> HIDE DEF m
      <4>2. x.model = d /\ x.moved = m
        BY DEF Built
      <4> QED  BY <4>1, <4>2 DEF Vouched
    <3>6. vec'[b] = x /\ pc'[b] = "open"
      BY <3>2 DEF IndexTypeOK
    <3> HIDE DEF x, m
    <3> QED  BY <3>2, <3>3, <3>4, <3>5, <3>6 DEF EmbeddingInv, IndexTypeOK
  <2>2. CASE tag # Admitted
    BY <1>4, <2>2 DEF Reverify, IndexTypeOK, EmbeddingInv
  <2> QED  BY <2>1, <2>2
<1>5. ASSUME NEW b \in Boots, OpenTemporary(b) \/ Replace(b) \/ Crash(b) PROVE EmbeddingInv'
  BY <1>5 DEF OpenTemporary, Replace, Crash, IndexTypeOK, EmbeddingInv
<1>6. CASE MoveTag
  BY <1>6 DEF MoveTag, IndexTypeOK, EmbeddingInv
<1>7. CASE EditCorpus \/ UNCHANGED indexVars
  BY <1>7 DEF EditCorpus, indexVars, EmbeddingInv
<1> QED  BY <1>1, <1>2, <1>3, <1>4, <1>5, <1>6, <1>7 DEF IndexNext, Boot

(* the state of the files,                                                 *)
LEMMA FilesStep ==
  ASSUME IndexTypeOK, EmbeddingInv, FilesInv, WholeIndex, [IndexNext]_indexVars
  PROVE  FilesInv' /\ WholeIndex'
<1> USE DEF fileVars, bootVars, worldVars, Goto
<1>0. NoFile \notin Inodes
  BY IndexAssumption
<1>1. ASSUME NEW b \in Boots, ReadCorpus(b) \/ Inventory(b) \/ Verify(b) \/ EmbedCorpus(b) \/ Reverify(b) \/ Load(b)
      PROVE  FilesInv' /\ WholeIndex'
  <2>1. /\ pc[b] \notin {"write", "replace"} /\ UNCHANGED <<data, tmp, index, shared, handle>>
        /\ \E s : s \notin {"write", "replace"} /\ pc' = [pc EXCEPT ![b] = s]
    BY <1>1 DEF ReadCorpus, Inventory, Verify, EmbedCorpus, Reverify, Load
  <2> QED  BY <2>1 DEF FilesInv, WholeIndex, IndexTypeOK
<1>2. ASSUME NEW b \in Boots, OpenTemporary(b) PROVE FilesInv' /\ WholeIndex'
  <2>0. pc[b] = "open" /\ index' = index /\ pc' = [pc EXCEPT ![b] = "write"]
    BY <1>2 DEF OpenTemporary
  <2>1. handle[b] = NoFile
    BY <2>0 DEF FilesInv
  <2>2. PICK i \in Inodes :
           /\ i # index
           /\ tmp = i \/ (tmp = NoFile /\ \A c \in Boots : handle[c] # i)
           /\ tmp' = i /\ handle' = [handle EXCEPT ![b] = i] /\ data' = [data EXCEPT ![i] = Empty]
           /\ shared' = (shared \/ \E o \in Boots \ {b} : handle[o] = i)
    <3>1. CASE tmp # NoFile
      BY <1>2, <3>1 DEF OpenTemporary, FilesInv, IndexTypeOK, FileOr
    <3>2. CASE tmp = NoFile
      <4>1. PICK i \in Inodes : i = FreshInode /\ i # index /\ \A c \in Boots : handle[c] # i
        BY <2>1, <3>2, FreshExists
      <4> QED  BY <1>2, <3>2, <4>1 DEF OpenTemporary
    <3> QED  BY <3>1, <3>2
  <2>3. \A c \in Boots : (handle'[c] # NoFile) = (pc'[c] \in {"write", "replace"})
    BY <1>0, <2>0, <2>2 DEF FilesInv, IndexTypeOK
  <2>4. \A j \in Inodes : Whole(data'[j]) => Vouched(data'[j])
    BY <2>2 DEF FilesInv, IndexTypeOK, Whole
  <2>5. ASSUME ~shared'
        PROVE  /\ \A a, c \in Boots : handle'[a] # NoFile /\ handle'[c] # NoFile => a = c
               /\ \A c \in Boots : /\ handle'[c] # NoFile => handle'[c] = tmp'
                                   /\ pc'[c] = "write" => data'[handle'[c]] = Empty
                                   /\ pc'[c] = "replace" => Whole(data'[handle'[c]])
    <3>1. ~shared /\ \A o \in Boots \ {b} : handle[o] # i
      BY <2>2, <2>5
    <3>2. \A o \in Boots \ {b} : handle[o] = NoFile
      BY <2>2, <3>1 DEF FilesInv
    <3>3. \A o \in Boots \ {b} : handle'[o] = NoFile /\ pc'[o] \notin {"write", "replace"}
      BY <2>0, <2>2, <3>2 DEF FilesInv, IndexTypeOK
    <3>4. handle'[b] = i /\ tmp' = i /\ data'[i] = Empty /\ pc'[b] = "write"
      BY <2>0, <2>2 DEF IndexTypeOK
    <3> QED  BY <3>3, <3>4
  <2>6. WholeIndex'
    BY <2>0, <2>2 DEF WholeIndex, IndexTypeOK, FileOr
  <2> QED  BY <2>0, <2>2, <2>3, <2>4, <2>5, <2>6 DEF FilesInv
<1>3. ASSUME NEW b \in Boots, WriteTemporary(b) PROVE FilesInv' /\ WholeIndex'
  <2>0. /\ pc[b] = "write" /\ UNCHANGED <<tmp, index, shared, handle>> /\ pc' = [pc EXCEPT ![b] = "replace"]
        /\ handle[b] # NoFile /\ Whole(vec[b]) /\ Vouched(vec[b])
    BY <1>3 DEF WriteTemporary, EmbeddingInv, FilesInv
  <2>1. PICK content : /\ data' = [data EXCEPT ![handle[b]] = content]
                       /\ content = vec[b] \/ (content = Torn /\ data[handle[b]] # Empty)
    BY <1>3 DEF WriteTemporary
  <2>2. \A j \in Inodes : Whole(data'[j]) => Vouched(data'[j])
    BY <2>0, <2>1 DEF FilesInv, IndexTypeOK, Whole
  <2>3. ASSUME ~shared
        PROVE  /\ \A c \in Boots : /\ pc'[c] = "write" => data'[handle[c]] = Empty
                                   /\ pc'[c] = "replace" => Whole(data'[handle[c]])
               /\ index # NoFile => Whole(data'[index])
    <3>1. handle[b] = tmp /\ content = vec[b] /\ \A c \in Boots \ {b} : handle[c] = NoFile
      BY <2>0, <2>1, <2>3 DEF FilesInv
    <3>2. \A c \in Boots \ {b} : pc'[c] \notin {"write", "replace"}
      BY <2>0, <3>1 DEF FilesInv, IndexTypeOK
    <3>3. data'[handle[b]] = vec[b]
      BY <2>0, <2>1, <3>1 DEF IndexTypeOK, FileOr
    <3>4. index # handle[b]
      BY <2>0, <3>1 DEF FilesInv
    <3> QED  BY <2>0, <2>1, <2>3, <3>2, <3>3, <3>4 DEF IndexTypeOK, WholeIndex, FileOr
  <2>4. \A c \in Boots : (handle[c] # NoFile) = (pc'[c] \in {"write", "replace"})
    BY <2>0 DEF FilesInv, IndexTypeOK
  <2> QED  BY <2>0, <2>2, <2>3, <2>4 DEF FilesInv, WholeIndex
<1>4. ASSUME NEW b \in Boots, Replace(b) PROVE FilesInv' /\ WholeIndex'
  <2>0. /\ pc[b] = "replace" /\ handle' = [handle EXCEPT ![b] = NoFile] /\ shared' = shared
        /\ \E s \in {"failed", "load"} : pc' = [pc EXCEPT ![b] = s]
        /\ data' = [i \in Inodes |-> IF tmp # NoFile /\ i = index /\ \A o \in Boots : handle'[o] # i
                                     THEN NoFile ELSE data[i]]
        /\ tmp' = NoFile
        /\ index' = IF tmp = NoFile THEN index ELSE tmp
    BY <1>4 DEF Replace
  <2>1. handle[b] # NoFile /\ (tmp # NoFile => tmp # index)
    BY <2>0 DEF FilesInv
  <2>2. \A j \in Inodes : Whole(data'[j]) => Vouched(data'[j])
    BY <2>0 DEF FilesInv, Whole
  <2>3. \A c \in Boots : (handle'[c] # NoFile) = (pc'[c] \in {"write", "replace"})
    BY <2>0 DEF FilesInv, IndexTypeOK
  <2>4. ASSUME ~shared
        PROVE  /\ \A c \in Boots : handle'[c] = NoFile
               /\ index' # NoFile => Whole(data'[index'])
    <3>1. handle[b] = tmp /\ Whole(data[tmp]) /\ \A c \in Boots \ {b} : handle[c] = NoFile
      BY <2>0, <2>1, <2>4 DEF FilesInv
    <3>2. tmp \in Inodes /\ tmp # index /\ index' = tmp
      BY <2>0, <2>1, <3>1 DEF IndexTypeOK, FileOr
    <3>3. data'[tmp] = data[tmp]
      BY <2>0, <3>2
    <3>4. \A c \in Boots : handle'[c] = NoFile
      BY <2>0, <3>1 DEF IndexTypeOK
    <3> QED  BY <3>1, <3>2, <3>3, <3>4
  <2>5. shared' \/ \A c \in Boots : pc'[c] \notin {"write", "replace"}
    BY <2>0, <2>3, <2>4
  <2> QED  BY <2>0, <2>2, <2>3, <2>4, <2>5 DEF FilesInv, WholeIndex
<1>5. ASSUME NEW b \in Boots, Crash(b) PROVE FilesInv' /\ WholeIndex'
  <2>0. /\ handle' = [handle EXCEPT ![b] = NoFile] /\ pc' = [pc EXCEPT ![b] = "start"]
        /\ UNCHANGED <<data, tmp, index, shared>>
    BY <1>5 DEF Crash
  <2> QED  BY <2>0 DEF FilesInv, WholeIndex, IndexTypeOK
<1>6. CASE MoveTag \/ EditCorpus \/ UNCHANGED indexVars
  BY <1>6 DEF MoveTag, EditCorpus, indexVars, FilesInv, WholeIndex
<1> QED  BY <1>1, <1>2, <1>3, <1>4, <1>5, <1>6 DEF IndexNext, Boot

(* and the index that a worker serves.                                     *)
LEMMA ServingStep ==
  ASSUME IndexTypeOK, FilesInv, ServesItsCorpus, AdmittedVectors, [IndexNext]_indexVars
  PROVE  ServesItsCorpus' /\ AdmittedVectors'
<1> USE DEF fileVars, bootVars, worldVars, Goto
<1>1. ASSUME NEW b \in Boots, Load(b) PROVE ServesItsCorpus' /\ AdmittedVectors'
  <2>1. CASE index # NoFile /\ Loadable(b, data[index])
    <3>1. data[index].corpus = raw[b] /\ Vouched(data[index])
      BY <2>1 DEF Loadable, ValidIndex, FilesInv, IndexTypeOK, FileOr
    <3>2. served' = [served EXCEPT ![b] = data[index]] /\ pc' = [pc EXCEPT ![b] = "serving"] /\ raw' = raw
      BY <1>1, <2>1 DEF Load
    <3> QED  BY <3>1, <3>2 DEF ServesItsCorpus, AdmittedVectors, IndexTypeOK
  <2>2. CASE ~(index # NoFile /\ Loadable(b, data[index]))
    BY <1>1, <2>2 DEF Load, ServesItsCorpus, AdmittedVectors, IndexTypeOK
  <2> QED  BY <2>1, <2>2
<1>2. ASSUME NEW b \in Boots, Boot(b) \/ Crash(b), ~Load(b) PROVE ServesItsCorpus' /\ AdmittedVectors'
  <2>1. /\ pc[b] # "serving" /\ served' = served /\ \A c \in Boots \ {b} : raw'[c] = raw[c]
        /\ \E s : s # "serving" /\ pc' = [pc EXCEPT ![b] = s]
    BY <1>2 DEF Boot, ReadCorpus, Inventory, Verify, EmbedCorpus, Reverify, OpenTemporary, WriteTemporary, Replace,
                Crash, IndexTypeOK
  <2> QED  BY <2>1 DEF ServesItsCorpus, AdmittedVectors, IndexTypeOK
<1>3. CASE MoveTag \/ EditCorpus \/ UNCHANGED indexVars
  BY <1>3 DEF MoveTag, EditCorpus, indexVars, ServesItsCorpus, AdmittedVectors
<1> QED  BY <1>1, <1>2, <1>3 DEF IndexNext

(* The invariant of the index is inductive.                                *)
LEMMA IndexStep == IndexInv /\ [IndexNext]_indexVars => IndexInv'
  BY IndexTypeStep, EmbeddingStep, FilesStep, ServingStep DEF IndexInv, IndexSound

-----------------------------------------------------------------------------
(* The attestation of an outcome.                                          *)

(* The keys of the two questions on a requirement.                         *)
UncertaintyOf(r) == <<r, "uncertainty">>
StatusKeyOf(r) == <<r, "status">>

(* An open verdict on a requirement holds what its question can ask for.   *)
OpenVerdicts(vs) ==
  \A r \in ToSet(Contract.requirements) :
    /\ vs[UncertaintyOf(r)].ok => vs[UncertaintyOf(r)].value[1] \in Int
    /\ vs[StatusKeyOf(r)].ok => \E v : vs[StatusKeyOf(r)].value = <<v>>

(* The values of the attestations.                                         *)
OutcomeTypeOK ==
  /\ step \in [Checks -> {"idle", "asked", "judged", "attested", "raised"}]
  /\ verifier \in [Checks -> {"jev", "other"}]
  /\ verdicts = [c \in Checks |-> verdicts[c]]
  /\ attested = [c \in Checks |-> attested[c]]

(* What a verification knows at each of its steps, and what it attested: that*)
(* every finding is about the contract, and follows from a verdict of Jev's.*)
AttestationInv ==
  \A c \in Checks :
    /\ step[c] = "judged" => verifier[c] = "jev" 
    /\ step[c] \in {"judged", "attested"} /\ verifier[c] = "jev" => OpenVerdicts(verdicts[c][1])
    /\ step[c] = "attested" =>
         LET a == attested[c][1] IN
         /\ a.contract = Contract
         /\ ToSet([i \in DOMAIN a.findings |-> a.findings[i].id]) = ToSet(Contract.requirements)
         /\ verifier[c] = "jev" => a.findings = Findings(Contract, verdicts[c][1])

(* The inductive invariant of the attestations.                            *)
OutcomeInv == OutcomeTypeOK /\ AttestationInv

(* Every requirement is asked about, twice.                                *)
LEMMA QuestionsAskAll ==
  ASSUME NEW r \in ToSet(Contract.requirements)
  PROVE  LET q == Questions(Contract) IN
         /\ \E i \in DOMAIN q : q[i] = [kind |-> "noul", key |-> UncertaintyOf(r), threshold |-> <<>>]
         /\ \E i \in DOMAIN q : q[i] = [kind |-> "choice", key |-> StatusKeyOf(r),
                                        options |-> <<"satisfied", "unsatisfied">>]
<1> DEFINE n == Len(Contract.requirements)
           q == Questions(Contract)
<1>1. PICK j \in 1..n : r = Contract.requirements[j]
  BY OutcomeAssumption DEF ToSet, ValidContract
<1>2. n \in Nat
  BY OutcomeAssumption
<1>3. 2 * j - 1 \in 1..(2 * n) /\ 2 * j \in 1..(2 * n)
  BY <1>2
<1>4. (2 * j - 1) % 2 = 1 /\ ((2 * j - 1) + 1) \div 2 = j
  BY <1>2
<1>5. (2 * j) % 2 = 0 /\ (2 * j + 1) \div 2 = j
  BY <1>2
<1>6. q[2 * j - 1] = [kind |-> "noul", key |-> UncertaintyOf(r), threshold |-> <<>>]
  BY <1>1, <1>3, <1>4 DEF Questions, UncertaintyOf
<1>7. q[2 * j] = [kind |-> "choice", key |-> StatusKeyOf(r), options |-> <<"satisfied", "unsatisfied">>]
  BY <1>1, <1>3, <1>5 DEF Questions, StatusKeyOf
<1>8. DOMAIN q = 1..(2 * n)
  BY DEF Questions
<1> HIDE DEF q
<1> QED  BY <1>3, <1>6, <1>7, <1>8 DEF q

(* A verdict that is open says what its question could be answered with.   *)
LEMMA DecideOpens ==
  ASSUME NEW state, NEW said, NEW persisted \in BOOLEAN
  PROVE  LET q == Questions(Contract)
             observed == Jev!Observation("jev", FALSE, FALSE, state, q, said)
         IN  OpenVerdicts(Jev!Verdicts(q, observed, persisted))
<1> DEFINE q == Questions(Contract)
           o == Jev!Observation("jev", FALSE, FALSE, state, q, said)
           vs == Jev!Verdicts(q, o, persisted)
<1>1. \A r \in ToSet(Contract.requirements) : UncertaintyOf(r) \in Jev!Keys(q) /\ StatusKeyOf(r) \in Jev!Keys(q)
  BY QuestionsAskAll DEF Jev!Keys
<1>2. ASSUME vs = Jev!Closed(q) PROVE OpenVerdicts(vs)
  <2> HIDE DEF vs, q
  <2>1. \A k \in Jev!Keys(q) : ~vs[k].ok
    BY <1>2 DEF Jev!Closed
  <2>2. \A r \in ToSet(Contract.requirements) : ~vs[UncertaintyOf(r)].ok /\ ~vs[StatusKeyOf(r)].ok
    BY <1>1, <2>1
  <2> QED  BY <2>2 DEF OpenVerdicts
<1>3. ASSUME NEW answers, Jev!ValidBatch(q, answers), vs = Jev!Decoded(answers) PROVE OpenVerdicts(vs)
  <2>1. DOMAIN answers = Jev!Keys(q) /\ \A i \in DOMAIN q : Jev!InContract(q[i], answers[q[i].key])
    BY <1>3 DEF Jev!ValidBatch
  <2> SUFFICES ASSUME NEW r \in ToSet(Contract.requirements)
               PROVE  /\ vs[UncertaintyOf(r)].ok => vs[UncertaintyOf(r)].value[1] \in Int
                      /\ vs[StatusKeyOf(r)].ok => \E v : vs[StatusKeyOf(r)].value = <<v>>
    BY DEF OpenVerdicts
  <2>2. PICK i \in DOMAIN q : q[i] = [kind |-> "noul", key |-> UncertaintyOf(r), threshold |-> <<>>]
    BY QuestionsAskAll
  <2>3. PICK k \in DOMAIN q : q[k] = [kind |-> "choice", key |-> StatusKeyOf(r),
                                      options |-> <<"satisfied", "unsatisfied">>]
    BY QuestionsAskAll
  <2> HIDE DEF vs, q
  <2>4. vs[UncertaintyOf(r)].value = answers[UncertaintyOf(r)].value
    BY <1>1, <1>3, <2>1 DEF Jev!Decoded
  <2>5. vs[StatusKeyOf(r)].value = answers[StatusKeyOf(r)].value
    BY <1>1, <1>3, <2>1 DEF Jev!Decoded
  <2>6. answers[UncertaintyOf(r)].value[1] \in 0..100
    <3> DEFINE a == answers[UncertaintyOf(r)]
               n == [kind |-> "noul", key |-> UncertaintyOf(r), threshold |-> <<>>]
    <3>1. Jev!InContract(n, a) /\ n.kind = "noul"
      BY <2>1, <2>2
    <3> HIDE DEF a, n
    <3>2. a.value[1] \in 0..100
      BY <3>1 DEF Jev!InContract
    <3> QED  BY <3>2 DEF a
  <2>7. \E v : answers[StatusKeyOf(r)].value = <<v>>
    <3> DEFINE a == answers[StatusKeyOf(r)]
               n == [kind |-> "choice", key |-> StatusKeyOf(r), options |-> <<"satisfied", "unsatisfied">>]
    <3>1. Jev!InContract(n, a) /\ n.kind = "choice"
      BY <2>1, <2>3
    <3> HIDE DEF a, n
    <3>2. \E j \in DOMAIN n.options : <<n.options[j]>> = a.value
      BY <3>1 DEF Jev!InContract
    <3> QED  BY <3>2 DEF a
  <2> QED  BY <2>4, <2>5, <2>6, <2>7
<1>4. vs = Jev!Closed(q) \/ \E answers : Jev!ValidBatch(q, answers) /\ vs = Jev!Decoded(answers)
  BY DEF Jev!Verdicts, Jev!Observation
<1> HIDE DEF vs, q, o
<1> QED  BY <1>2, <1>3, <1>4 DEF vs, q, o

(* The invariant of the attestations holds at the start.                   *)
LEMMA OutcomeStarts == OutcomeInit => OutcomeInv /\ SatisfiedMeansAll
  BY DEF OutcomeInit, OutcomeInv, OutcomeTypeOK, AttestationInv, SatisfiedMeansAll

(* What is accepted is about the contract and all of its requirements.     *)
LEMMA ConcludeAttests ==
  ASSUME OutcomeInv, NEW c \in Checks, NEW a, Conclude(c, a), step[c] \in {"asked", "judged"},
         verifier[c] = "jev" => a.findings = Findings(Contract, verdicts[c][1]) /\ OpenVerdicts(verdicts[c][1])
  PROVE  OutcomeInv'
<1>1. CASE result \in Serializable /\ Accepts(a)
  <2>1. a.contract = Contract /\ ToSet([i \in DOMAIN a.findings |-> a.findings[i].id]) = ToSet(Contract.requirements)
    BY <1>1 DEF Accepts
  <2>2. /\ step' = [step EXCEPT ![c] = "attested"] /\ attested' = [attested EXCEPT ![c] = <<a>>]
        /\ UNCHANGED <<verifier, verdicts>>
    BY <1>1 DEF Conclude, Reach
  <2>3. attested'[c][1] = a /\ step'[c] = "attested"
    BY <2>2 DEF OutcomeInv, OutcomeTypeOK
  <2>4. \A d \in Checks \ {c} : step'[d] = step[d] /\ attested'[d] = attested[d]
    BY <2>2 DEF OutcomeInv, OutcomeTypeOK
  <2>5. OutcomeTypeOK'
    BY <2>2 DEF OutcomeInv, OutcomeTypeOK
  <2>6. AttestationInv'
    BY <2>1, <2>2, <2>3, <2>4 DEF OutcomeInv, AttestationInv, OpenVerdicts
  <2> QED  BY <2>5, <2>6 DEF OutcomeInv
<1>2. CASE ~(result \in Serializable /\ Accepts(a))
  BY <1>2 DEF Conclude, Reach, OutcomeInv, OutcomeTypeOK, AttestationInv, OpenVerdicts
<1> QED  BY <1>1, <1>2

(* The invariant of the attestations is inductive.                         *)
LEMMA OutcomeStep == OutcomeInv /\ [OutcomeNext]_outcomeVars => OutcomeInv'
<1> SUFFICES ASSUME OutcomeInv, [OutcomeNext]_outcomeVars PROVE OutcomeInv'
  OBVIOUS
<1>1. ASSUME NEW c \in Checks, Submit(c) PROVE OutcomeInv'
  BY <1>1 DEF Submit, Reach, OutcomeInv, OutcomeTypeOK, AttestationInv, OpenVerdicts
<1>2. ASSUME NEW c \in Checks, Decide(c) PROVE OutcomeInv'
  <2>1. PICK said \in JevReplies, persisted \in BOOLEAN :
           verdicts' = [verdicts EXCEPT ![c] = <<Jev!Verdicts(Questions(Contract),
                          Jev!Observation("jev", FALSE, FALSE, encoded[c][1], Questions(Contract), said), persisted)>>]
    BY <1>2 DEF Decide
  <2> DEFINE vs == Jev!Verdicts(Questions(Contract),
                      Jev!Observation("jev", FALSE, FALSE, encoded[c][1], Questions(Contract), said), persisted)
  <2>2. OpenVerdicts(vs)
    BY DecideOpens
  <2> HIDE DEF vs
  <2>3. /\ verifier[c] = "jev" /\ step' = [step EXCEPT ![c] = "judged"] /\ UNCHANGED <<verifier, attested>>
        /\ verdicts' = [verdicts EXCEPT ![c] = <<vs>>]
    BY <1>2, <2>1 DEF Decide, Reach, vs
  <2>4. verdicts'[c][1] = vs /\ step'[c] = "judged"
    BY <2>3 DEF OutcomeInv, OutcomeTypeOK
  <2>5. \A d \in Checks \ {c} : step'[d] = step[d] /\ verdicts'[d] = verdicts[d]
    BY <2>3 DEF OutcomeInv, OutcomeTypeOK
  <2>6. OutcomeTypeOK'
    BY <2>3 DEF OutcomeInv, OutcomeTypeOK
  <2>7. AttestationInv'
    BY <2>2, <2>3, <2>4, <2>5 DEF OutcomeInv, AttestationInv
  <2> QED  BY <2>6, <2>7 DEF OutcomeInv
<1>3. ASSUME NEW c \in Checks, Attest(c) PROVE OutcomeInv'
  <2> DEFINE a == [contract |-> Contract, result |-> result, findings |-> Findings(Contract, verdicts[c][1])]
  <2>1. Conclude(c, a) /\ step[c] = "judged" /\ a.findings = Findings(Contract, verdicts[c][1])
    BY <1>3 DEF Attest
  <2>2. OpenVerdicts(verdicts[c][1])
    BY <2>1 DEF OutcomeInv, AttestationInv
  <2> HIDE DEF a
  <2> QED  BY <2>1, <2>2, ConcludeAttests
<1>4. ASSUME NEW c \in Checks, AnotherAttests(c) PROVE OutcomeInv'
  <2>1. step[c] = "asked" /\ verifier[c] = "other" /\ \E a : Conclude(c, a)
    BY <1>4 DEF AnotherAttests
  <2> QED  BY <2>1, ConcludeAttests
<1>5. CASE OwnerWrites \/ UNCHANGED outcomeVars
  BY <1>5 DEF OwnerWrites, outcomeVars, OutcomeInv, OutcomeTypeOK, AttestationInv, OpenVerdicts
<1> QED  BY <1>1, <1>2, <1>3, <1>4, <1>5 DEF OutcomeNext, VerifyOutcome

(* A satisfied outcome has every requirement satisfied, by verdicts that say so.*)
LEMMA SatisfiedIsAll == OutcomeInv => SatisfiedMeansAll
<1> SUFFICES ASSUME OutcomeInv, NEW c \in Checks, step[c] = "attested",
                    Status(attested[c][1].findings) = "satisfied"
             PROVE  /\ attested[c][1].contract = Contract
                    /\ \A r \in ToSet(Contract.requirements) :
                         /\ \E f \in ToSet(attested[c][1].findings) : f.id = r /\ f.status = "satisfied"
                         /\ verifier[c] = "jev" =>
                              LET vs == verdicts[c][1] IN
                              /\ vs[<<r, "uncertainty">>].ok /\ vs[<<r, "status">>].ok
                              /\ vs[<<r, "uncertainty">>].value[1] < Threshold
                              /\ vs[<<r, "status">>].value = <<"satisfied">>
  BY DEF SatisfiedMeansAll
<1> DEFINE fs == attested[c][1].findings
           vs == verdicts[c][1]
<1>1. /\ attested[c][1].contract = Contract
      /\ ToSet([i \in DOMAIN fs |-> fs[i].id]) = ToSet(Contract.requirements)
      /\ verifier[c] = "jev" => fs = Findings(Contract, vs) /\ OpenVerdicts(vs)
  BY DEF OutcomeInv, AttestationInv
<1>2. \A i \in DOMAIN fs : fs[i].status = "satisfied"
  <2> HIDE DEF fs
  <2> QED  BY DEF Status, fs
<1> HIDE DEF fs, vs
<1>3. ASSUME NEW r \in ToSet(Contract.requirements)
      PROVE  \E f \in ToSet(fs) : f.id = r /\ f.status = "satisfied"
  BY <1>1, <1>2 DEF ToSet
<1>4. ASSUME NEW r \in ToSet(Contract.requirements), verifier[c] = "jev"
      PROVE  /\ vs[<<r, "uncertainty">>].ok /\ vs[<<r, "status">>].ok
             /\ vs[<<r, "uncertainty">>].value[1] < Threshold
             /\ vs[<<r, "status">>].value = <<"satisfied">>
  <2>1. PICK i \in DOMAIN Contract.requirements : Contract.requirements[i] = r
    BY DEF ToSet
  <2>2. i \in DOMAIN fs /\ fs[i].status = StatusOf(vs[<<r, "uncertainty">>], vs[<<r, "status">>])
    BY <1>1, <1>4, <2>1 DEF Findings
  <2>3. /\ vs[<<r, "uncertainty">>].ok /\ vs[<<r, "status">>].ok
        /\ ~(vs[<<r, "uncertainty">>].value[1] >= Threshold)
        /\ vs[<<r, "status">>].value[1] = "satisfied"
    BY <1>2, <2>2 DEF StatusOf
  <2>4. /\ vs[<<r, "uncertainty">>].value[1] \in Int
        /\ \E v : vs[<<r, "status">>].value = <<v>>
    BY <1>1, <1>4, <2>3 DEF OpenVerdicts, UncertaintyOf, StatusKeyOf
  <2>5. Threshold \in Int
    BY OutcomeAssumption
  <2> QED  BY <2>3, <2>4, <2>5
<1> QED  BY <1>1, <1>3, <1>4 DEF fs, vs

-----------------------------------------------------------------------------
(* The requests.                                                           *)

(* One request: what it asks, what its inference left, what its handler    *)
(* answered and what its client returned.                                  *)

(* The handler has answered out of what this request's inference left.     *)
Served(r) == job[r] = "replied" /\ run[r] = "ended" /\ out[r] # <<>>

(* What an inference of the request leaves.                                *)
LeftBy(r, x) ==
  \E v \in Replies[lane], m \in Digests, f \in BOOLEAN, p \in SUBSET (ContextFields \cup {"system_prompt"}) :
    x = [by |-> r, said |-> v, model |-> m, moved |-> f, prompt |-> p]

(* An answer of the handler, and what the client makes of one or of none.  *)
IntentOf(r, i) == i = "unknown" \/ (i \in ToSet(ask[r][1].intents) /\ Served(r))
TextOf(r, t)   == Served(r) /\ t = out[r][1].said /\ t # "blank"
MatchesOf(r, o, m) ==
  /\ o \in {"refused", "busy", "backend", "no_match", "ok"}
  /\ o = "ok" => Served(r)
  /\ out[r] # <<>> => m = Matches(Retriever.documents, out[r][1].said, ask[r][1].language, Retriever)

(* What the handler may have answered.                                     *)
Earned(r, a) ==
  /\ IntentLane => IntentOf(r, a.intent)
  /\ lane = "reflex" => \/ a = <<>>
                        \/ \E said : a = <<said>> /\ ValidProposal(said) /\ verified /\ Served(r)
  /\ lane = "generate" /\ a.status = "ok" => TextOf(r, a.text)
  /\ lane = "retrieve" => MatchesOf(r, a.outcome, a.matches)

(* What the client may have returned.                                      *)
Returned(r, a) ==
  /\ IntentLane => \E i : a = <<"intent", i>> /\ IntentOf(r, i)
  /\ lane = "reflex" => \/ a = <<"cancelled", "">>
                        \/ \E d : /\ a = <<"gate", d>> /\ WellShaped(d)
                                  /\ d.status = "ok" => verified /\ Served(r)
  /\ lane = "generate" => a = <<"raised", "">> \/ \E t : a = <<"text", t>> /\ TextOf(r, t)
  /\ lane = "retrieve" => \/ \E s, m : s \notin {200, 404} /\ a = <<"http", s, m>>
                          \/ \E o, m : /\ a = <<"http", HttpStatus(o), m>>
                                       /\ job[r] = "replied" /\ MatchesOf(r, o, m)

(* The inductive invariant of one request,                                 *)
RequestInv(r) ==
  /\ client[r] # "idle" => /\ ask[r] \in {<<a>> : a \in Asks[lane]}
                           /\ IntentLane \/ lane \in {"reflex", "generate", "retrieve"}
  /\ job[r] # "none" => client[r] # "idle"
  /\ run[r] \in {"none", "queued", "running", "verify", "embed"} => out[r] = <<>>
  /\ out[r] = <<>> \/ \E x : out[r] = <<x>> /\ LeftBy(r, x)
  /\ run[r] = "reverify" => out[r] # <<>>
  /\ run[r] # "none" /\ lane = "reflex" => verified
  /\ job[r] \in {"none", "arrived"} => reply[r] = <<>>
  /\ job[r] = "replied" => /\ run[r] \in {"none", "ended"} \/ IntentLane \/ lane = "generate"
                           /\ \E a : reply[r] = <<a>> /\ Earned(r, a)
  /\ client[r] = "done" => \E a : ans[r] = a /\ Returned(r, a)

(* and of all of them.                                                     *)
RequestTypes ==
  /\ verified \in BOOLEAN
  /\ ask = [r \in Requests |-> ask[r]] /\ out = [r \in Requests |-> out[r]]
  /\ reply = [r \in Requests |-> reply[r]] /\ ans = [r \in Requests |-> ans[r]]
  /\ lane \in Lanes
RequestsInv == RequestTypes /\ \A r \in Requests : RequestInv(r)

(* An answer stays earned while its request moves on: what was served is   *)
(* final, and what was not can still become so.                            *)
Onward(r) ==
  /\ lane' = lane /\ ask'[r] = ask[r] /\ (verified => verified')
  /\ Served(r) => Served(r)' /\ out'[r] = out[r]
  /\ lane = "retrieve" /\ job[r] = "replied" => out'[r] = out[r] /\ job'[r] = "replied"

(* What the handler answered stays earned,                                 *)
LEMMA EarnedKept ==
  ASSUME NEW r \in Requests, NEW a, job[r] = "replied", Onward(r), Earned(r, a)
  PROVE  Earned(r, a)'
<1>1. IntentLane' = IntentLane
  BY DEF IntentLane, Onward
<1>2. \A i : IntentOf(r, i) => IntentOf(r, i)'
  BY DEF IntentOf, Onward
<1>3. \A t : TextOf(r, t) => TextOf(r, t)'
  BY DEF TextOf, Onward
<1>4. lane = "retrieve" => \A o, m : MatchesOf(r, o, m) => MatchesOf(r, o, m)'
  BY DEF MatchesOf, Onward
<1> QED  BY <1>1, <1>2, <1>3, <1>4 DEF Earned, Onward

(* and what the client returned.                                           *)
LEMMA ReturnedKept ==
  ASSUME NEW r \in Requests, NEW a, Onward(r), Returned(r, a)
  PROVE  Returned(r, a)'
<1>1. IntentLane' = IntentLane
  BY DEF IntentLane, Onward
<1>2. \A i : IntentOf(r, i) => IntentOf(r, i)'
  BY DEF IntentOf, Onward
<1>3. \A t : TextOf(r, t) => TextOf(r, t)'
  BY DEF TextOf, Onward
<1>4. lane = "retrieve" /\ job[r] = "replied" => \A o, m : MatchesOf(r, o, m) => MatchesOf(r, o, m)'
  BY DEF MatchesOf, Onward
<1>5. IntentLane => \E i : a = <<"intent", i>> /\ IntentOf(r, i)'
  BY <1>2 DEF Returned
<1>6. lane = "generate" => a = <<"raised", "">> \/ \E t : a = <<"text", t>> /\ TextOf(r, t)'
  BY <1>3 DEF Returned
<1>7. lane = "retrieve" => \/ \E s, m : s \notin {200, 404} /\ a = <<"http", s, m>>
                           \/ \E o, m : /\ a = <<"http", HttpStatus(o), m>>
                                        /\ job'[r] = "replied" /\ MatchesOf(r, o, m)'
  BY <1>4 DEF Returned, Onward
<1>8. lane = "reflex" => \/ a = <<"cancelled", "">>
                         \/ \E d : /\ a = <<"gate", d>> /\ WellShaped(d)
                                   /\ d.status = "ok" => verified' /\ Served(r)'
  BY DEF Returned, Onward
<1>9. lane' = lane
  BY DEF Onward
<1> QED  BY <1>1, <1>5, <1>6, <1>7, <1>8, <1>9 DEF Returned

(* A step that does not concern a request leaves it as it is.              *)
LEMMA Untouched ==
  ASSUME NEW r \in Requests, RequestInv(r), lane' = lane, verified => verified',
         client'[r] = client[r], ask'[r] = ask[r], job'[r] = job[r], run'[r] = run[r],
         out'[r] = out[r], reply'[r] = reply[r], ans'[r] = ans[r]
  PROVE  RequestInv(r)'
<1>1. Onward(r)
  BY DEF Onward, Served
<1>2. job[r] = "replied" => \E a : reply[r] = <<a>> /\ Earned(r, a)'
  BY <1>1, EarnedKept DEF RequestInv
<1>3. client[r] = "done" => \E a : ans[r] = a /\ Returned(r, a)'
  BY <1>1, ReturnedKept DEF RequestInv
<1>4. out[r] = <<>> \/ \E x : out[r] = <<x>> /\ LeftBy(r, x)'
  BY DEF RequestInv, LeftBy
<1> QED  BY <1>2, <1>3, <1>4 DEF RequestInv, IntentLane

(* A set of numbers that is not empty has a least one,                     *)
LEMMA LeastBy ==
    ASSUME NEW R, IsWellFoundedOn(R, Nat), \A x, y \in Nat : y < x => <<y, x>> \in R,
           NEW T \in SUBSET Nat, T # {}
    PROVE  \E x \in T : \A y \in T : x <= y
<1>1. PICK x \in T : \A y \in T : ~(<<y, x>> \in R) BY WFMin
<1>2. \A y \in T : ~(y < x) BY <1>1
<1>3. \A y \in T : x \in Nat /\ y \in Nat OBVIOUS
<1> QED BY <1>2, <1>3

(* by the order of the numbers.                                            *)
LEMMA Least ==
    ASSUME NEW T \in SUBSET Nat, T # {}
    PROVE  \E x \in T : \A y \in T : x <= y
<1>1. ASSUME NEW R, R = OpToRel(<, Nat) PROVE  \E x \in T : \A y \in T : x <= y
  <2>1. IsWellFoundedOn(R, Nat) BY <1>1, NatLessThanWellFounded
  <2>2. \A x, y \in Nat : y < x => <<y, x>> \in R BY <1>1 DEF OpToRel
  <2> QED BY <2>1, <2>2, LeastBy
<1> QED BY <1>1

(* The likeliest of the options that were ranked is one of those asked.    *)
LEMMA LikeliestIsAnOption ==
  ASSUME NEW asked, asked.intents \in Seq(ToSet(asked.intents)), NEW mass,
         \A o \in DOMAIN mass : mass[o] \in 0..10, Ranked(asked, mass) # {}
  PROVE  Likeliest(asked, mass) \in ToSet(asked.intents)
<1> DEFINE ranks == Ranked(asked, mass)
           intents == asked.intents
           best == {i \in DOMAIN intents : /\ intents[i] \in ranks
                                           /\ \A o \in ranks : mass[o] <= mass[intents[i]]}
<1>1. \A o \in ranks : o \in ToSet(intents) /\ mass[o] \in 0..10
  BY DEF Ranked
<1>2. \E o \in ranks : \A p \in ranks : mass[p] <= mass[o]
  <2> DEFINE T == {10 - mass[o] : o \in ranks}
  <2>1. T \in SUBSET Nat /\ T # {}
    BY <1>1
  <2>2. PICK x \in T : \A y \in T : x <= y
    <3> HIDE DEF T
    <3> QED  BY <2>1, Least
  <2>3. PICK o \in ranks : x = 10 - mass[o]
    OBVIOUS
  <2>4. \A p \in ranks : 10 - mass[o] <= 10 - mass[p]
    BY <2>2, <2>3
  <2> HIDE DEF ranks, T
  <2> QED  BY <1>1, <2>4
<1>3. best # {} /\ best \subseteq DOMAIN intents /\ DOMAIN intents = 1..Len(intents)
  BY <1>1, <1>2 DEF ToSet
<1>4. Min(best) \in best
  <2>1. best \in SUBSET Nat
    BY <1>3
  <2>2. \E x \in best : \A y \in best : x <= y
    <3> HIDE DEF best
    <3> QED  BY <1>3, <2>1, Least
  <2> HIDE DEF best
  <2> QED  BY <2>2 DEF Min
<1>5. Likeliest(asked, mass) = intents[Min(best)]
  BY DEF Likeliest
<1> HIDE DEF best
<1> QED  BY <1>3, <1>4, <1>5 DEF ToSet

(* IntentWorker.classify: a legal option out of this request's inference.  *)
LEMMA ClassifiedIsLegal ==
  ASSUME RequestsInv, NEW r \in Requests, IntentLane, client[r] # "idle", Classified(r).intent # "unknown"
  PROVE  /\ Classified(r).intent \in ToSet(ask[r][1].intents)
         /\ run[r] = "ended" /\ out[r] # <<>>
<1> DEFINE said == out[r][1].said
<1>0. Unknown.intent = "unknown"
  BY DEF Unknown
<1>1. run[r] = "ended" /\ out[r] # <<>>
  BY <1>0 DEF Classified
<1>2. PICK a \in Asks[lane] : ask[r] = <<a>>
  BY DEF RequestsInv, RequestInv
<1>3. ask[r][1] = a
  BY <1>2
<1>4. said \in Replies[lane]
  BY <1>1 DEF RequestsInv, RequestInv, LeftBy
<1>5. CASE lane = "intent"
  <2>1. Classified(r) = Accept(a, said, IntentConfig.min_confidence)
    BY <1>0, <1>1, <1>3, <1>5 DEF Classified
  <2> HIDE DEF said
  <2>2. Classified(r).intent \in ToSet(a.intents)
    BY <1>0, <2>1 DEF Accept
  <2> QED  BY <1>1, <1>3, <2>2
<1>6. CASE lane = "calibrated"
  <2>1. Classified(r) = AcceptCalibrated(a, said.mass, IntentConfig.artifact[1], IntentConfig.min_confidence)
    BY <1>0, <1>1, <1>3, <1>6 DEF Classified
  <2>2. a.intents \in Seq(ToSet(a.intents)) /\ \A o \in DOMAIN said.mass : said.mass[o] \in 0..10
    BY <1>4, <1>6, LaneAssumption DEF RequestsInv, RequestTypes
  <2> DEFINE mass == said.mass
             k == IntentConfig.artifact[1].k
  <2>3. EnoughMass(a, mass, IntentConfig.artifact[1]) /\ Classified(r).intent = Likeliest(a, mass)
    <3> HIDE DEF mass
    <3> QED  BY <1>0, <2>1, SMTT(30) DEF AcceptCalibrated, mass
  <2>4. Ranked(a, mass) # {}
    BY <2>3 DEF EnoughMass
  <2> HIDE DEF said
  <2> QED  BY <1>1, <1>3, <2>2, <2>3, <2>4, LikeliestIsAnOption
<1> QED  BY <1>5, <1>6 DEF IntentLane

(* The client's side.                                                      *)
LEMMA AskKeeps ==
  ASSUME RequestsInv, PermitInv, NEW r \in Requests, Ask(r)
  PROVE  RequestInv(r)'
<1>1. client[r] = "idle" /\ job[r] = "none" /\ run[r] = "none" /\ out[r] = <<>> /\ reply[r] = <<>>
  BY DEF Ask, PermitInv, RequestsInv, RequestInv
<1>2. PICK a \in Asks[lane] : ask' = [ask EXCEPT ![r] = <<a>>]
  BY DEF Ask
<1>3. /\ client'[r] = "waiting" /\ ask'[r] = <<a>> /\ job'[r] = "arrived"
      /\ UNCHANGED <<lane, ans, reply, run, out, verified>>
  BY <1>2 DEF Ask, RequestsInv, RequestTypes, PermitInv, runVars
<1>4. IntentLane \/ lane \in {"reflex", "generate", "retrieve"}
  BY LaneAssumption DEF Ask, RequestsInv, RequestTypes, IntentLane
<1> QED  BY <1>1, <1>3, <1>4 DEF RequestInv, IntentLane

(* What the client returns when the handler has answered,                  *)
LEMMA ReadIsEarned ==
  ASSUME RequestsInv, NEW r \in Requests, client[r] = "waiting", job[r] = "replied"
  PROVE  Returned(r, Read(r))
<1>1. PICK a : reply[r] = <<a>> /\ Earned(r, a)
  BY DEF RequestsInv, RequestInv
<1>2. reply[r][1] = a
  BY <1>1
<1>3. IntentLane \/ lane \in {"reflex", "generate", "retrieve"}
  BY DEF RequestsInv, RequestInv
<1>4. CASE IntentLane
  <2>1. Read(r) = <<"intent", ClientReads(a, IntentConfig.gate)>>
    BY <1>2, <1>4 DEF Read, IntentLane
  <2>2. IntentOf(r, ClientReads(a, IntentConfig.gate))
    BY <1>1, <1>4 DEF Earned, ClientReads, IntentOf
  <2> QED  BY <1>4, <2>1, <2>2 DEF Returned, IntentLane
<1>5. CASE lane = "reflex"
  <2>1. Read(r) = <<"gate", IF a = <<>> THEN Fallback("backend_error") ELSE OkDecision(a[1])>>
    BY <1>2, <1>5 DEF Read, IntentLane
  <2>2. CASE a = <<>>
    <3>1. Read(r) = <<"gate", Fallback("backend_error")>>
      BY <2>1, <2>2
    <3>2. WellShaped(Fallback("backend_error")) /\ Fallback("backend_error").status # "ok"
      BY DEF WellShaped, Fallback
    <3> QED  BY <1>5, <3>1, <3>2 DEF Returned, IntentLane
  <2>3. CASE a # <<>>
    <3>1. PICK said : a = <<said>> /\ ValidProposal(said) /\ verified /\ Served(r)
      BY <1>1, <1>5, <2>3 DEF Earned
    <3>2. Read(r) = <<"gate", OkDecision(said)>>
      BY <2>1, <2>3, <3>1
    <3>3. WellShaped(OkDecision(said))
      BY <3>1 DEF WellShaped, OkDecision, ValidProposal
    <3> QED  BY <1>5, <3>1, <3>2, <3>3 DEF Returned, IntentLane
  <2> QED  BY <2>2, <2>3
<1>6. CASE lane = "generate"
  <2>1. Read(r) = IF ClientTakes(a, WorkClient, ask[r][1].request_id) THEN <<"text", a.text>> ELSE <<"raised", "">>
    BY <1>2, <1>6 DEF Read, IntentLane
  <2> QED  BY <1>1, <1>6, <2>1 DEF Earned, ClientTakes, Returned, IntentLane
<1>7. CASE lane = "retrieve"
  <2>1. Read(r) = <<"http", HttpStatus(a.outcome), a.matches>>
    BY <1>2, <1>7 DEF Read, IntentLane
  <2>2. MatchesOf(r, a.outcome, a.matches)
    BY <1>1, <1>7 DEF Earned
  <2> QED  BY <1>7, <2>1, <2>2 DEF Returned, IntentLane
<1> QED  BY <1>3, <1>4, <1>5, <1>6, <1>7

(* and when it has not.                                                    *)
LEMMA MissingIsEarned ==
  ASSUME RequestsInv, NEW r \in Requests, client[r] = "waiting"
  PROVE  Returned(r, Missing)
<1>1. IntentLane \/ lane \in {"reflex", "generate", "retrieve"}
  BY DEF RequestsInv, RequestInv
<1>2. CASE IntentLane
  <2>1. Missing = <<"intent", "unknown">>
    BY <1>2 DEF Missing, IntentLane
  <2> QED  BY <1>2, <2>1 DEF Returned, IntentLane, IntentOf
<1>3. CASE lane = "reflex"
  <2>1. Missing = <<"gate", Fallback("timeout")>>
    BY <1>3 DEF Missing, IntentLane
  <2>2. WellShaped(Fallback("timeout")) /\ Fallback("timeout").status # "ok"
    BY DEF WellShaped, Fallback
  <2> QED  BY <1>3, <2>1, <2>2 DEF Returned, IntentLane
<1>4. CASE lane = "generate"
  BY <1>4 DEF Missing, Returned, IntentLane
<1>5. CASE lane = "retrieve"
  <2>1. Missing = <<"http", 0, <<>>>>
    BY <1>5 DEF Missing, IntentLane
  <2> QED  BY <1>5, <2>1 DEF Returned, IntentLane
<1> QED  BY <1>1, <1>2, <1>3, <1>4, <1>5

(* The client returns,                                                     *)
LEMMA ReturnKeeps ==
  ASSUME RequestsInv, PermitInv, NEW r \in Requests, client[r] = "waiting", NEW a, Returned(r, a), Return(r, a),
         UNCHANGED <<lane, ask, job, run, out, reply, verified>>
  PROVE  RequestInv(r)'
<1>1. client'[r] = "done" /\ ans'[r] = a
  BY DEF Return, RequestsInv, RequestTypes, PermitInv
<1>2. Onward(r)
  BY DEF Onward, Served
<1>3. Returned(r, a)'
  BY <1>2, ReturnedKept
<1>4. job[r] = "replied" => \E b : reply[r] = <<b>> /\ Earned(r, b)'
  BY <1>2, EarnedKept DEF RequestsInv, RequestInv
<1>5. out[r] = <<>> \/ \E x : out[r] = <<x>> /\ LeftBy(r, x)'
  BY DEF RequestsInv, RequestInv, LeftBy
<1> QED  BY <1>1, <1>3, <1>4, <1>5 DEF RequestsInv, RequestInv, IntentLane

(* on an answer, on its deadline or because its caller is gone,            *)
LEMMA ClientKeeps ==
  ASSUME RequestsInv, PermitInv, NEW r \in Requests, Receive(r) \/ GiveUp(r) \/ CallerCancelled(r)
  PROVE  RequestInv(r)'
<1>1. client[r] = "waiting" /\ UNCHANGED <<lane, ask, job, run, out, reply, verified>>
  BY DEF Receive, GiveUp, CallerCancelled, jobVars, runVars
<1>2. CASE Receive(r)
  <2>1. PICK a : a = Read(r)  OBVIOUS
  <2>2. Returned(r, a) /\ Return(r, a)
    BY <1>2, <2>1, ReadIsEarned DEF Receive
  <2> QED  BY <1>1, <2>2, ReturnKeeps
<1>3. CASE GiveUp(r)
  <2>1. PICK a : a = Missing  OBVIOUS
  <2>2. Returned(r, a) /\ Return(r, a)
    BY <1>1, <1>3, <2>1, MissingIsEarned DEF GiveUp
  <2> QED  BY <1>1, <2>2, ReturnKeeps
<1>4. CASE CallerCancelled(r)
  <2>1. PICK a : a = <<"cancelled", "">>  OBVIOUS
  <2>2. Returned(r, a) /\ Return(r, a)
    BY <1>4, <2>1 DEF CallerCancelled, Returned, IntentLane
  <2> QED  BY <1>1, <2>2, ReturnKeeps
<1> QED  BY <1>2, <1>3, <1>4

(* and when the gate's deadline cancels the task.                          *)
LEMMA TimeoutKeeps ==
  ASSUME RequestsInv, PermitInv, NEW r \in Requests, GateTimeout(r)
  PROVE  RequestInv(r)'
<1>1. /\ lane = "reflex" /\ client[r] = "waiting" /\ job[r] # "replied"
      /\ client'[r] = "done" /\ ans'[r] = Missing /\ job'[r] = "cancelled"
      /\ run'[r] = IF run[r] = "queued" THEN "ended" ELSE run[r]
      /\ UNCHANGED <<lane, ask, reply, out, verified>>
  BY DEF GateTimeout, Return, RequestsInv, RequestTypes, PermitInv
<1>2. PICK d : Missing = <<"gate", d>> /\ WellShaped(d) /\ d.status # "ok"
  <2>1. Missing = <<"gate", Fallback("timeout")>>
    BY <1>1 DEF Missing, IntentLane
  <2>2. WellShaped(Fallback("timeout")) /\ Fallback("timeout").status # "ok"
    BY DEF WellShaped, Fallback
  <2> QED  BY <2>1, <2>2
<1>3. \E a : ans'[r] = a /\ Returned(r, a)'
  BY <1>1, <1>2 DEF Returned, IntentLane
<1>4. out[r] = <<>> \/ \E x : out[r] = <<x>> /\ LeftBy(r, x)'
  BY <1>1 DEF RequestsInv, RequestInv, LeftBy
<1> QED  BY <1>1, <1>3, <1>4 DEF RequestsInv, RequestInv, IntentLane

(* The handler's side: it starts an inference, or answers.                 *)
LEMMA StartKeeps ==
  ASSUME RequestsInv, PermitInv, NEW r \in Requests, job[r] = "arrived",
         NEW at \in {"queued", "running", "verify"}, Start(r, at), lane = "reflex" => verified,
         UNCHANGED <<lane, client, ask, out, ans, verified>>
  PROVE  RequestInv(r)'
<1>1. job'[r] = "joining" /\ run'[r] = at /\ reply' = reply /\ run[r] = "none" /\ out[r] = <<>>
  BY DEF Start, PermitInv, RequestsInv, RequestInv
<1>2. Onward(r)
  BY <1>1 DEF Onward, Served
<1>3. client[r] = "done" => \E a : ans[r] = a /\ Returned(r, a)'
  BY <1>2, ReturnedKept DEF RequestsInv, RequestInv
<1> QED  BY <1>1, <1>3 DEF RequestsInv, RequestInv, IntentLane

(* A handler answers what was earned.                                      *)
LEMMA ReplyKeeps ==
  ASSUME RequestsInv, PermitInv, NEW r \in Requests, job[r] \in {"arrived", "joining"}, NEW a, Reply(r, a),
         run[r] \in {"none", "ended"} \/ IntentLane \/ lane = "generate",
         Earned(r, a)', UNCHANGED <<lane, client, ask, run, out, ans, verified>>
  PROVE  RequestInv(r)'
<1>1. job'[r] = "replied" /\ reply'[r] = <<a>>
  BY DEF Reply, RequestsInv, RequestTypes, PermitInv
<1>2. Onward(r)
  BY <1>1 DEF Onward, Served
<1>3. client[r] = "done" => \E b : ans[r] = b /\ Returned(r, b)'
  BY <1>2, ReturnedKept DEF RequestsInv, RequestInv
<1>4. out[r] = <<>> \/ \E x : out[r] = <<x>> /\ LeftBy(r, x)'
  BY DEF RequestsInv, RequestInv, LeftBy
<1> QED  BY <1>1, <1>3, <1>4 DEF RequestsInv, RequestInv, IntentLane

(* A request arrives at its handler,                                       *)
LEMMA ArrivalKeeps ==
  ASSUME RequestsInv, PermitInv, NEW r \in Requests,
         IntentArrives(r) \/ ReflexArrives(r) \/ WorkArrives(r) \/ RetrieveArrives(r)
  PROVE  RequestInv(r)'
<1>0. /\ job[r] = "arrived" /\ UNCHANGED <<lane, client, ask, out, ans, verified>>
      /\ run[r] = "none" /\ out[r] = <<>>
  BY DEF IntentArrives, ReflexArrives, WorkArrives, RetrieveArrives, clientVars, PermitInv, RequestsInv, RequestInv
<1>1. CASE IntentArrives(r)
  <2>1. CASE Start(r, "running")
    BY <1>0, <1>1, <2>1, StartKeeps DEF IntentArrives, IntentLane
  <2>2. CASE Reply(r, Unknown) /\ run' = run
    <3>1. Earned(r, Unknown)'
      BY <1>0, <1>1 DEF Earned, IntentOf, Unknown, IntentArrives, IntentLane
    <3> QED  BY <1>0, <1>1, <2>2, <3>1, ReplyKeeps
  <2> QED  BY <1>1, <2>1, <2>2 DEF IntentArrives
<1>2. CASE ReflexArrives(r)
  <2>1. CASE verified /\ Start(r, "queued")
    BY <1>0, <2>1, StartKeeps
  <2>2. CASE Reply(r, <<>>) /\ run' = run
    <3>1. Earned(r, <<>>)'
      BY <1>0, <1>2 DEF Earned, ReflexArrives, IntentLane
    <3> QED  BY <1>0, <1>2, <2>2, <3>1, ReplyKeeps
  <2> QED  BY <1>2, <2>1, <2>2 DEF ReflexArrives
<1>3. CASE WorkArrives(r)
  <2>1. CASE Start(r, "running")
    BY <1>0, <1>3, <2>1, StartKeeps DEF WorkArrives
  <2>2. CASE Reply(r, WorkError) /\ run' = run
    <3>1. Earned(r, WorkError)'
      BY <1>0, <1>3 DEF Earned, WorkError, WorkArrives, IntentLane
    <3> QED  BY <1>0, <1>3, <2>2, <3>1, ReplyKeeps
  <2> QED  BY <1>3, <2>1, <2>2 DEF WorkArrives
<1>4. CASE RetrieveArrives(r)
  <2>1. CASE Start(r, "verify")
    BY <1>0, <1>4, <2>1, StartKeeps DEF RetrieveArrives
  <2>2. CASE \E o \in {"refused", "ok", "busy"} : Reply(r, Response(o, <<>>)) /\ run' = run
    <3>1. PICK o \in {"refused", "ok", "busy"} : Reply(r, Response(o, <<>>)) /\ run' = run
      BY <2>2
    <3>2. Response(o, <<>>).outcome \in {"refused", "busy", "no_match"}
      BY DEF Response
    <3>3. MatchesOf(r, Response(o, <<>>).outcome, Response(o, <<>>).matches)'
      BY <1>0, <3>2 DEF MatchesOf
    <3>4. Earned(r, Response(o, <<>>))'
      BY <1>0, <1>4, <3>3 DEF Earned, RetrieveArrives, IntentLane
    <3> QED  BY <1>0, <1>4, <3>1, <3>4, ReplyKeeps
  <2> QED  BY <1>4, <2>1, <2>2 DEF RetrieveArrives
<1> QED  BY <1>1, <1>2, <1>3, <1>4

(* and is answered.                                                        *)
LEMMA AnswerKeeps ==
  ASSUME RequestsInv, PermitInv, NEW r \in Requests,
         IntentReplies(r) \/ ReflexReplies(r) \/ WorkReplies(r) \/ RetrieveReplies(r)
  PROVE  RequestInv(r)'
<1>0. /\ job[r] = "joining" /\ client[r] # "idle" /\ UNCHANGED <<lane, client, ask, run, out, ans, verified>>
  BY DEF IntentReplies, ReflexReplies, WorkReplies, RetrieveReplies, clientVars, runVars, RequestsInv, RequestInv
<1>1. CASE IntentReplies(r)
  <2>0. job'[r] = "replied" /\ IntentLane /\ Reply(r, Classified(r))
    BY <1>1 DEF IntentReplies, Reply, PermitInv
  <2> DEFINE a == Classified(r)
  <2>1. IntentOf(r, a.intent)'
    <3>1. a.intent # "unknown" => a.intent \in ToSet(ask[r][1].intents) /\ run[r] = "ended" /\ out[r] # <<>>
      BY <1>0, <2>0, ClassifiedIsLegal
    <3>2. UNCHANGED <<ask, run, out, lane>>  BY <1>0
    <3>3. PICK i : i = a.intent  OBVIOUS
    <3>4. IntentOf(r, i)'
      BY <2>0, <3>1, <3>2, <3>3 DEF IntentOf, Served
    <3>5. a' = a
      BY <3>2 DEF Classified
    <3> QED  BY <3>3, <3>4, <3>5
  <2>2. PICK b : b = a  OBVIOUS
  <2>3. IntentOf(r, b.intent)'
    BY <1>0, <2>1, <2>2 DEF Classified, IntentOf, Served
  <2>4. Earned(r, b)'
    BY <1>0, <2>0, <2>3 DEF Earned, IntentLane
  <2> QED  BY <1>0, <2>0, <2>2, <2>4, ReplyKeeps
<1>2. CASE ReflexReplies(r)
  <2>0. lane = "reflex" /\ run[r] = "ended" /\ verified /\ job'[r] = "replied"
    BY <1>2 DEF ReflexReplies, RequestsInv, RequestInv, Reply, PermitInv
  <2>1. PICK a : /\ Reply(r, a)
                 /\ a = IF out[r] # <<>> /\ ValidEnvelope(out[r][1].said) /\ ValidProposal(out[r][1].said)
                        THEN <<out[r][1].said>> ELSE <<>>
    BY <1>2 DEF ReflexReplies
  <2>2. Earned(r, a)'
    BY <1>0, <2>0, <2>1 DEF Earned, Served, IntentLane
  <2> QED  BY <1>0, <2>0, <2>1, <2>2, ReplyKeeps
<1>3. CASE WorkReplies(r)
  <2>0. lane = "generate" /\ Reply(r, Worked(r)) /\ job'[r] = "replied"
    BY <1>3 DEF WorkReplies, Reply, PermitInv
  <2>1. PICK a : a = Worked(r)  OBVIOUS
  <2>2. a.status = "ok" => run[r] = "ended" /\ out[r] # <<>> /\ a.text = out[r][1].said /\ a.text # "blank"
    BY <2>1 DEF Worked, WorkError, WorkReply
  <2>3. a.status = "ok" => TextOf(r, a.text)'
    BY <1>0, <2>0, <2>2 DEF TextOf, Served
  <2>4. Earned(r, a)'
    BY <1>0, <2>0, <2>3 DEF Earned, IntentLane
  <2> QED  BY <1>0, <2>0, <2>1, <2>4, ReplyKeeps
<1>4. CASE RetrieveReplies(r)
  <2>0. lane = "retrieve" /\ run[r] = "ended" /\ job'[r] = "replied"
    BY <1>4 DEF RetrieveReplies, Reply, PermitInv
  <2>1. PICK m : m = Matches(Retriever.documents, out[r][1].said, ask[r][1].language, Retriever)  OBVIOUS
  <2>2. PICK a : /\ Reply(r, a)
                 /\ a = IF out[r] = <<>> THEN Response("backend", <<>>) ELSE Response("ok", m)
    BY <1>4, <2>1 DEF RetrieveReplies
  <2>3. CASE out[r] = <<>>
    <3>1. a.outcome = "backend"
      BY <2>2, <2>3 DEF Response
    <3>2. Earned(r, a)'
      BY <1>0, <2>0, <2>3, <3>1 DEF Earned, MatchesOf, IntentLane
    <3> QED  BY <1>0, <2>0, <2>2, <3>2, ReplyKeeps
  <2>4. CASE out[r] # <<>>
    <3>1. a.outcome \in {"ok", "no_match"} /\ a.matches = m
      BY <2>2, <2>4 DEF Response
    <3>2. Earned(r, a)'
      BY <1>0, <2>0, <2>1, <2>4, <3>1 DEF Earned, MatchesOf, Served, IntentLane
    <3> QED  BY <1>0, <2>0, <2>2, <3>2, ReplyKeeps
  <2> QED  BY <2>3, <2>4
<1> QED  BY <1>1, <1>2, <1>3, <1>4

(* The thread's side, of a request that is not served yet.                 *)
LEMMA ThinkKeeps ==
  ASSUME RequestsInv, PermitInv, NEW r \in Requests, run[r] \in InFlight \cup {"queued"},
         UNCHANGED <<lane, client, ask, job, reply, ans, verified>>,
         run'[r] \in InFlight \cup {"ended"},
         run'[r] \in {"running", "verify", "embed"} => out'[r] = <<>>,
         run'[r] = "reverify" => out'[r] # <<>>,
         out'[r] = <<>> \/ \E x : out'[r] = <<x>> /\ LeftBy(r, x)
  PROVE  RequestInv(r)'
<1>1. ~Served(r) /\ run[r] \notin {"none", "ended"}
  BY DEF Served, InFlight
<1>2. ~(lane = "retrieve" /\ job[r] = "replied")
  BY <1>1 DEF RequestsInv, RequestInv, IntentLane
<1>3. Onward(r)
  BY <1>1, <1>2 DEF Onward
<1>4. client[r] = "done" => \E a : ans[r] = a /\ Returned(r, a)'
  BY <1>3, ReturnedKept DEF RequestsInv, RequestInv
<1>5. job[r] = "replied" => \E a : reply[r] = <<a>> /\ Earned(r, a)'
  BY <1>3, EarnedKept DEF RequestsInv, RequestInv
<1>6. out'[r] = <<>> \/ \E x : out'[r] = <<x>> /\ LeftBy(r, x)'
  BY DEF LeftBy
<1>7. job[r] = "replied" => IntentLane \/ lane = "generate"
  BY <1>1 DEF RequestsInv, RequestInv
<1>8. run'[r] \notin {"none", "queued"}
  BY DEF InFlight
<1> QED  BY <1>1, <1>4, <1>5, <1>6, <1>7, <1>8 DEF RequestsInv, RequestInv, IntentLane

(* An inference takes a step.                                              *)
LEMMA InferenceKeeps ==
  ASSUME RequestsInv, PermitInv, IndexTypeOK, NEW r \in Requests, Think(r)
  PROVE  RequestInv(r)'
<1>0. UNCHANGED <<lane, client, ask, job, reply, ans, verified>>
  BY DEF Think, ReflexAcquires, Infer, Release, VerifyQuery, EmbedQuery, ReverifyQuery, clientVars, jobVars
<1>1. CASE ReflexAcquires(r)
  <2>1. run[r] = "queued" /\ out' = out /\ run'[r] \in {"running", "ended"} /\ out[r] = <<>>
    BY <1>1 DEF ReflexAcquires, PermitInv, RequestsInv, RequestInv
  <2> QED  BY <1>0, <2>1, ThinkKeeps DEF InFlight
<1>2. CASE Infer(r)
  <2>1. run[r] = "running" /\ run'[r] \in {"ended", "produced"} /\ out[r] = <<>>
    BY <1>2 DEF Infer, PermitInv, RequestsInv, RequestInv
  <2>2. out'[r] = <<>> \/ \E v \in Replies[lane] : out'[r] = <<Left(r, v)>>
    BY <1>2, <2>1 DEF Infer, RequestsInv, RequestTypes
  <2>3. \A v \in Replies[lane] : LeftBy(r, Left(r, v))
    BY DEF LeftBy, Left, Prompted, IndexTypeOK
  <2> QED  BY <1>0, <2>1, <2>2, <2>3, ThinkKeeps DEF InFlight
<1>3. CASE Release(r)
  <2>1. run[r] = "produced" /\ out' = out /\ run'[r] = "ended"
    BY <1>3 DEF Release, PermitInv
  <2>2. out[r] = <<>> \/ \E x : out[r] = <<x>> /\ LeftBy(r, x)
    BY DEF RequestsInv, RequestInv
  <2> QED  BY <1>0, <2>1, <2>2, ThinkKeeps DEF InFlight
<1>4. CASE VerifyQuery(r)
  <2>1. run[r] = "verify" /\ out' = out /\ run'[r] \in {"embed", "produced"} /\ out[r] = <<>>
    BY <1>4 DEF VerifyQuery, PermitInv, RequestsInv, RequestInv
  <2> QED  BY <1>0, <2>1, ThinkKeeps DEF InFlight
<1>5. CASE EmbedQuery(r)
  <2>1. run[r] = "embed" /\ out[r] = <<>>
    BY <1>5 DEF EmbedQuery, RequestsInv, RequestInv
  <2>2. \/ run'[r] = "reverify" /\ \E v \in Replies[lane] : out'[r] = <<Left(r, v)>>
        \/ run'[r] = "produced" /\ out'[r] = <<>>
    BY <1>5, <2>1 DEF EmbedQuery, PermitInv, RequestsInv, RequestTypes
  <2>3. \A v \in Replies[lane] : LeftBy(r, Left(r, v))
    BY DEF LeftBy, Left, Prompted, IndexTypeOK
  <2>4. \A x : <<x>> # <<>>  OBVIOUS
  <2> QED  BY <1>0, <2>1, <2>2, <2>3, <2>4, ThinkKeeps DEF InFlight
<1>6. CASE ReverifyQuery(r)
  <2>1. run[r] = "reverify" /\ run'[r] = "produced" /\ out[r] # <<>>
    BY <1>6 DEF ReverifyQuery, PermitInv, RequestsInv, RequestInv
  <2>2. PICK x : out[r] = <<x>> /\ LeftBy(r, x)
    BY <2>1 DEF RequestsInv, RequestInv
  <2> DEFINE f == moves >= begun[r] + 2
  <2>3. out'[r] = <<>> \/ out'[r] = <<[x EXCEPT !.moved = f]>>
    BY <1>6, <2>2 DEF ReverifyQuery, RequestsInv, RequestTypes
  <2>4. f \in BOOLEAN  OBVIOUS
  <2> HIDE DEF f
  <2>5. LeftBy(r, [x EXCEPT !.moved = f])
    <3>1. PICK v \in Replies[lane], m \in Digests, g \in BOOLEAN, p \in SUBSET (ContextFields \cup {"system_prompt"}) :
             x = [by |-> r, said |-> v, model |-> m, moved |-> g, prompt |-> p]
      BY <2>2 DEF LeftBy
    <3>2. [x EXCEPT !.moved = f] = [by |-> r, said |-> v, model |-> m, moved |-> f, prompt |-> p]
      BY <3>1
    <3> QED  BY <2>4, <3>2 DEF LeftBy
  <2> QED  BY <1>0, <2>1, <2>3, <2>5, ThinkKeeps DEF InFlight
<1> QED  BY <1>1, <1>2, <1>3, <1>4, <1>5, <1>6 DEF Think

(* The invariant of the requests holds at the start,                       *)
LEMMA RequestsStart == Init => RequestsInv
  BY ZenonT(30) DEF Init, RequestsInv, RequestTypes, RequestInv, IntentLane

(* A step of one request leaves the others alone.                          *)
LEMMA OthersUntouched ==
  ASSUME RequestsInv, PermitInv, NEW q \in Requests,
         Ask(q) \/ Handle(q) \/ Think(q) \/ GiveUp(q) \/ GateTimeout(q) \/ CallerCancelled(q)
  PROVE  /\ lane' = lane /\ verified' = verified
         /\ \A r \in Requests \ {q} :
              /\ client'[r] = client[r] /\ ask'[r] = ask[r] /\ job'[r] = job[r] /\ run'[r] = run[r]
              /\ out'[r] = out[r] /\ reply'[r] = reply[r] /\ ans'[r] = ans[r]
         /\ RequestTypes'
<1> USE DEF clientVars, jobVars, runVars, RequestsInv, RequestTypes, PermitInv
<1>1. CASE Ask(q)
  BY <1>1 DEF Ask
<1>2. CASE IntentArrives(q) \/ ReflexArrives(q) \/ WorkArrives(q) \/ RetrieveArrives(q)
  BY <1>2 DEF IntentArrives, ReflexArrives, WorkArrives, RetrieveArrives, Start, Reply
<1>3. CASE IntentReplies(q) \/ ReflexReplies(q) \/ WorkReplies(q) \/ RetrieveReplies(q)
  BY <1>3 DEF IntentReplies, ReflexReplies, WorkReplies, RetrieveReplies, Reply
<1>4. CASE Receive(q) \/ GiveUp(q) \/ GateTimeout(q) \/ CallerCancelled(q)
  BY <1>4 DEF Receive, GiveUp, GateTimeout, CallerCancelled, Return
<1>5. CASE ReflexAcquires(q) \/ Infer(q) \/ Release(q)
  BY <1>5 DEF ReflexAcquires, Infer, Release
<1>6. CASE VerifyQuery(q) \/ EmbedQuery(q) \/ ReverifyQuery(q)
  BY <1>6 DEF VerifyQuery, EmbedQuery, ReverifyQuery
<1> QED  BY <1>1, <1>2, <1>3, <1>4, <1>5, <1>6 DEF Handle, Think

(* and every step keeps it.                                                *)
LEMMA RequestsStep ==
  ASSUME RequestsInv, PermitInv, IndexTypeOK, [Next]_vars
  PROVE  RequestsInv'
<1>1. ASSUME NEW q \in Requests,
             Ask(q) \/ Handle(q) \/ Think(q) \/ GiveUp(q) \/ GateTimeout(q) \/ CallerCancelled(q)
      PROVE  RequestsInv'
  <2>1. RequestInv(q)'
    BY <1>1, AskKeeps, ClientKeeps, TimeoutKeeps, ArrivalKeeps, AnswerKeeps, InferenceKeeps DEF Handle
  <2>2. \A r \in Requests \ {q} : RequestInv(r)'
    BY <1>1, OthersUntouched, Untouched DEF RequestsInv
  <2>3. RequestTypes'
    BY <1>1, OthersUntouched
  <2> QED  BY <2>1, <2>2, <2>3 DEF RequestsInv
<1>2. CASE VerifySchema
  <2>1. /\ UNCHANGED <<lane, client, ask, job, run, out, reply, ans>>
        /\ verified => verified'
    BY <1>2 DEF VerifySchema, clientVars, jobVars, runVars
  <2>2. verified' \in BOOLEAN
    BY <1>2 DEF VerifySchema, ProbePassed
  <2>3. \A r \in Requests : RequestInv(r)'
    BY <2>1, Untouched DEF RequestsInv
  <2> QED  BY <2>1, <2>2, <2>3 DEF RequestsInv, RequestTypes
<1>3. CASE UNCHANGED laneVars
  <2>1. UNCHANGED <<lane, client, ask, job, run, out, reply, ans, verified>>
    BY <1>3 DEF laneVars, clientVars, jobVars, runVars
  <2>2. \A r \in Requests : RequestInv(r)'
    BY <2>1, Untouched DEF RequestsInv
  <2> QED  BY <2>1, <2>2 DEF RequestsInv, RequestTypes
<1> QED  BY <1>1, <1>2, <1>3 DEF Next, LanesNext, vars

(* What a request knows of the model tag while its query is embedded, and  *)
(* what it has when that is done.                                          *)
QueryInv ==
  /\ begun \in [Requests -> 0..MaxMoves]
  /\ \A r \in Requests :
       /\ run[r] = "running" => lane # "retrieve"
       /\ run[r] = "queued" => lane = "reflex"
       /\ run[r] \in {"verify", "embed", "reverify"} => lane = "retrieve"
       /\ run[r] = "embed" => begun[r] <= moves /\ (tag # Admitted => begun[r] < moves)
       /\ run[r] = "reverify" /\ out[r][1].model # Admitted =>
            begun[r] < moves /\ (begun[r] + 1 = moves => tag # Admitted)
       /\ lane = "retrieve" /\ run[r] \notin {"reverify"} => out[r] = <<>> \/ Vouched(out[r][1])

(* The same for the queries.                                               *)
LEMMA QueryStart == Init => QueryInv
  <1> SUFFICES ASSUME Init PROVE QueryInv
    OBVIOUS
  <1>1. 0 \in 0..MaxMoves
    BY IndexAssumption
  <1> QED  BY <1>1 DEF Init, QueryInv

(* A query learns of one move of the tag, and not of two.                  *)
LEMMA QueryStep ==
  ASSUME RequestsInv, PermitInv, IndexTypeOK, QueryInv, [Next]_vars
  PROVE  QueryInv'
<1> USE DEF partVars, indexVars, worldVars, clientVars, jobVars, runVars
<1>1. ASSUME NEW q \in Requests, Ask(q) \/ Receive(q) \/ GiveUp(q) \/ CallerCancelled(q)
             \/ IntentReplies(q) \/ ReflexReplies(q) \/ WorkReplies(q) \/ RetrieveReplies(q)
      PROVE  QueryInv'
  <2>1. UNCHANGED <<lane, run, out, begun, tag, moves>>
    BY <1>1 DEF Ask, Receive, GiveUp, CallerCancelled, IntentReplies, ReflexReplies, WorkReplies, RetrieveReplies
  <2> QED  BY <2>1 DEF QueryInv
<1>2. ASSUME NEW q \in Requests, IntentArrives(q) \/ ReflexArrives(q) \/ WorkArrives(q) \/ RetrieveArrives(q)
             \/ GateTimeout(q) \/ ReflexAcquires(q) \/ Release(q)
      PROVE  QueryInv'
  <2>1. /\ UNCHANGED <<lane, out, begun, tag, moves>>
        /\ run' = run \/ (/\ run[q] \notin {"embed", "reverify"}
                          /\ \E s : /\ s \notin {"embed", "reverify"} /\ run' = [run EXCEPT ![q] = s]
                                    /\ (s = "running" => lane # "retrieve")
                                    /\ (s = "queued" => lane = "reflex")
                                    /\ (s = "verify" => lane = "retrieve"))
    BY <1>2 DEF IntentArrives, ReflexArrives, WorkArrives, RetrieveArrives, GateTimeout, ReflexAcquires, Release,
                Start, PermitInv, IntentLane, QueryInv
  <2> QED  BY <2>1 DEF QueryInv, PermitInv
<1>3. ASSUME NEW q \in Requests, Infer(q) PROVE QueryInv'
  <2>1. lane # "retrieve"
    BY <1>3 DEF Infer, QueryInv
  <2>2. /\ UNCHANGED <<lane, begun, tag, moves>>
        /\ \E s \in {"ended", "produced"} : run' = [run EXCEPT ![q] = s]
        /\ \A r \in Requests \ {q} : out'[r] = out[r]
    BY <1>3 DEF Infer, RequestsInv, RequestTypes
  <2> QED  BY <2>1, <2>2 DEF QueryInv, PermitInv
<1>4. ASSUME NEW q \in Requests, VerifyQuery(q) PROVE QueryInv'
  <2>1. moves \in 0..MaxMoves
    BY DEF IndexTypeOK
  <2>2. /\ UNCHANGED <<lane, out, tag, moves>>
        /\ begun' = [begun EXCEPT ![q] = moves]
        /\ run[q] = "verify"
        /\ \/ run' = [run EXCEPT ![q] = "embed"] /\ tag = Admitted
           \/ run' = [run EXCEPT ![q] = "produced"]
    BY <1>4 DEF VerifyQuery
  <2> QED  BY <2>1, <2>2, IndexAssumption DEF QueryInv, PermitInv
<1>5. ASSUME NEW q \in Requests, EmbedQuery(q) PROVE QueryInv'
  <2>1. /\ UNCHANGED <<lane, begun, tag, moves>>
        /\ run[q] = "embed"
        /\ \/ run' = [run EXCEPT ![q] = "reverify"] /\ \E v : out' = [out EXCEPT ![q] = <<Left(q, v)>>]
           \/ run' = [run EXCEPT ![q] = "produced"] /\ out' = out
    BY <1>5 DEF EmbedQuery
  <2>2. CASE run' = [run EXCEPT ![q] = "reverify"] /\ \E v : out' = [out EXCEPT ![q] = <<Left(q, v)>>]
    <3>1. out'[q][1].model = tag /\ \A r \in Requests \ {q} : out'[r] = out[r]
      BY <2>2 DEF Left, RequestsInv, RequestTypes
    <3>2. begun[q] <= moves /\ (tag # Admitted => begun[q] < moves)
      BY <2>1 DEF QueryInv
    <3> QED  BY <2>1, <2>2, <3>1, <3>2 DEF QueryInv, PermitInv
  <2>3. CASE run' = [run EXCEPT ![q] = "produced"] /\ out' = out
    BY <2>1, <2>3 DEF QueryInv, PermitInv
  <2> QED  BY <2>1, <2>2, <2>3
<1>6. ASSUME NEW q \in Requests, ReverifyQuery(q) PROVE QueryInv'
  <2>1. /\ UNCHANGED <<lane, begun, tag, moves>>
        /\ run[q] = "reverify" /\ run' = [run EXCEPT ![q] = "produced"]
        /\ \A r \in Requests \ {q} : out'[r] = out[r]
    BY <1>6 DEF ReverifyQuery, RequestsInv, RequestTypes
  <2>2. PICK x : out[q] = <<x>> /\ LeftBy(q, x)
    BY <2>1 DEF RequestsInv, RequestInv
  <2>3. x.model # Admitted => begun[q] < moves /\ (begun[q] + 1 = moves => tag # Admitted)
    BY <2>1, <2>2 DEF QueryInv
  <2> DEFINE f == moves >= begun[q] + 2
  <2>4. f \in BOOLEAN /\ begun[q] \in Int /\ moves \in Int
    BY IndexAssumption DEF QueryInv, IndexTypeOK
  <2>5. x.model # Admitted /\ tag = Admitted => f
    BY <2>3, <2>4
  <2> HIDE DEF f
  <2>6. out'[q] = <<>> \/ (tag = Admitted /\ out'[q] = <<[x EXCEPT !.moved = f]>>)
    BY <1>6, <2>2 DEF ReverifyQuery, RequestsInv, RequestTypes, f
  <2>7. out'[q] = <<>> \/ Vouched(out'[q][1])
    <3>1. [x EXCEPT !.moved = f].model = x.model /\ [x EXCEPT !.moved = f].moved = f
      BY <2>2 DEF LeftBy
    <3>2. ASSUME tag = Admitted PROVE Vouched([x EXCEPT !.moved = f])
      BY <2>5, <3>1, <3>2 DEF Vouched
    <3>3. CASE tag = Admitted /\ out'[q] = <<[x EXCEPT !.moved = f]>>
      <4>1. out'[q][1] = [x EXCEPT !.moved = f]
        BY <3>3
      <4> QED  BY <3>2, <3>3, <4>1
    <3> QED  BY <2>6, <3>3
  <2>8. Vouched(out[q][1])' = Vouched(out'[q][1])
    BY DEF Vouched
  <2> QED  BY <2>1, <2>7 DEF QueryInv, PermitInv, Vouched
<1>7. CASE lane = "retrieve" /\ MoveTag /\ UNCHANGED <<outcomeVars, laneVars>>
  <2>1. UNCHANGED <<lane, run, out, begun>>
    BY <1>7 DEF laneVars
  <2>2. moves' = moves + 1 /\ moves \in Int
    BY <1>7, IndexAssumption DEF MoveTag, IndexTypeOK
  <2>3. begun \in [Requests -> Int]
    BY <2>2, IndexAssumption DEF QueryInv
  <2> QED  BY <2>1, <2>2, <2>3 DEF QueryInv, Vouched
<1>8. CASE lane = "starts" /\ IndexNext /\ UNCHANGED <<outcomeVars, laneVars>>
  <2>1. UNCHANGED <<lane, run, out, begun>>
    BY <1>8 DEF laneVars
  <2> QED  BY <1>8, <2>1 DEF QueryInv, Vouched
<1>9. CASE UNCHANGED <<indexVars, laneVars>> \/ VerifySchema
  <2>1. UNCHANGED <<lane, run, out, begun, tag, moves>>
    BY <1>9 DEF laneVars, VerifySchema
  <2> QED  BY <2>1 DEF QueryInv, Vouched
<1> QED
  BY <1>1, <1>2, <1>3, <1>4, <1>5, <1>6, <1>7, <1>8, <1>9
     DEF Next, LanesNext, Handle, Think, vars

-----------------------------------------------------------------------------
(* All lanes together.                                                     *)

(* A step of a lane is no step of the index or of an attestation; each of  *)
(* those takes its own.                                                    *)
LEMMA StepsOfParts == [Next]_vars => [IndexNext]_indexVars /\ [OutcomeNext]_outcomeVars
<1> SUFFICES ASSUME [Next]_vars PROVE [IndexNext]_indexVars /\ [OutcomeNext]_outcomeVars
  OBVIOUS
<1>1. ASSUME NEW q \in Requests,
             Ask(q) \/ Handle(q) \/ Think(q) \/ GiveUp(q) \/ GateTimeout(q) \/ CallerCancelled(q)
      PROVE  UNCHANGED partVars
  BY <1>1 DEF Ask, Handle, IntentArrives, ReflexArrives, WorkArrives, RetrieveArrives,
              IntentReplies, ReflexReplies, WorkReplies, RetrieveReplies, Receive,
              Think, ReflexAcquires, Infer, Release, VerifyQuery, EmbedQuery, ReverifyQuery,
              GiveUp, GateTimeout, CallerCancelled
<1>2. ASSUME VerifySchema PROVE UNCHANGED partVars
  BY <1>2 DEF VerifySchema
<1>3. CASE UNCHANGED partVars
  BY <1>3 DEF partVars
<1>4. CASE IndexNext /\ UNCHANGED outcomeVars
  BY <1>4
<1>5. CASE MoveTag /\ UNCHANGED outcomeVars
  BY <1>5 DEF IndexNext
<1>6. CASE OutcomeNext /\ UNCHANGED indexVars
  BY <1>6
<1>7. CASE UNCHANGED vars
  BY <1>7 DEF vars, partVars
<1> QED  BY <1>1, <1>2, <1>3, <1>4, <1>5, <1>6, <1>7 DEF Next, LanesNext

(* The inductive invariant of all lanes.                                   *)
LanesInv == PermitInv /\ RequestsInv /\ QueryInv /\ IndexInv /\ OutcomeInv

(* The invariant of all lanes holds at the start,                          *)
LEMMA LanesStart == Init => LanesInv
  BY PermitInit, RequestsStart, QueryStart, IndexStarts, OutcomeStarts DEF Init, LanesInv

(* and every step keeps it.                                                *)
LEMMA LanesStep == LanesInv /\ [Next]_vars => LanesInv'
<1> SUFFICES ASSUME LanesInv, [Next]_vars PROVE LanesInv'
  OBVIOUS
<1>1. PermitInv'
  BY PermitStep DEF LanesInv
<1>2. RequestsInv' /\ QueryInv'
  BY RequestsStep, QueryStep DEF LanesInv, IndexInv
<1>3. IndexInv' /\ OutcomeInv'
  BY StepsOfParts, IndexStep, OutcomeStep DEF LanesInv
<1> QED  BY <1>1, <1>2, <1>3 DEF LanesInv

(* Which answers are substantive.                                          *)
LEMMA SubstantiveForms ==
  /\ \A i : Substantive(<<"intent", i>>) => i # "unknown"
  /\ \A d : Substantive(<<"gate", d>>) => d.status = "ok"
  /\ \A s, m : Substantive(<<"http", s, m>>) => s = 200
  /\ ~Substantive(<<"raised", "">>) /\ ~Substantive(<<"cancelled", "">>)
<1>1. ASSUME NEW i, Substantive(<<"intent", i>>) PROVE i # "unknown"
  BY <1>1 DEF Substantive
<1>2. ASSUME NEW d, Substantive(<<"gate", d>>) PROVE d.status = "ok"
  BY <1>2 DEF Substantive
<1>3. ASSUME NEW s, NEW m, Substantive(<<"http", s, m>>) PROVE s = 200
  BY <1>3 DEF Substantive
<1>4. ~Substantive(<<"raised", "">>) /\ ~Substantive(<<"cancelled", "">>)
  BY DEF Substantive
<1> QED  BY <1>1, <1>2, <1>3, <1>4

(* An answer was earned,                                                   *)
LEMMA EarnedAnswers ==
  ASSUME LanesInv
  PROVE  AnswerIsEarned
<1> SUFFICES ASSUME NEW r \in Requests, client[r] = "done", Substantive(ans[r])
             PROVE  /\ Served(r) /\ out[r][1].by = r
                    /\ lane = "generate" => ans[r][2] = out[r][1].said /\ ans[r][2] # "blank"
  BY DEF AnswerIsEarned, Served
<1>1. IntentLane \/ lane \in {"reflex", "generate", "retrieve"}
  BY DEF LanesInv, RequestsInv, RequestInv
<1>2. PICK a : ans[r] = a /\ Returned(r, a)
  BY DEF LanesInv, RequestsInv, RequestInv
<1>3. ASSUME IntentLane PROVE Served(r) /\ lane # "generate"
  <2>1. PICK i : a = <<"intent", i>> /\ IntentOf(r, i)
    BY <1>2, <1>3 DEF Returned
  <2>2. i # "unknown"
    BY <1>2, <2>1, SubstantiveForms
  <2>3. Served(r)
    BY <2>1, <2>2 DEF IntentOf
  <2> QED  BY <1>3, <2>3 DEF IntentLane
<1>4. ASSUME lane = "reflex" PROVE Served(r)
  <2>1. a # <<"cancelled", "">>
    BY <1>2, SubstantiveForms
  <2>2. PICK d : a = <<"gate", d>> /\ (d.status = "ok" => verified /\ Served(r))
    BY <1>2, <1>4, <2>1 DEF Returned
  <2> QED  BY <1>2, <1>4, <2>2, SubstantiveForms
<1>5. ASSUME lane = "generate" PROVE Served(r) /\ ans[r][2] = out[r][1].said /\ ans[r][2] # "blank"
  <2>1. a # <<"raised", "">>
    BY <1>2, SubstantiveForms
  <2>2. PICK t : a = <<"text", t>> /\ TextOf(r, t)
    BY <1>2, <1>5, <2>1 DEF Returned
  <2> QED  BY <1>2, <2>2 DEF TextOf
<1>6. ASSUME lane = "retrieve" PROVE Served(r)
  <2>1. PICK s, m : a = <<"http", s, m>> /\ (s # 200 \/ \E o : s = HttpStatus(o) /\ MatchesOf(r, o, m))
    BY <1>2, <1>6 DEF Returned
  <2>2. s = 200
    BY <1>2, <2>1, SubstantiveForms
  <2>3. PICK o : HttpStatus(o) = 200 /\ MatchesOf(r, o, m)
    BY <2>1, <2>2
  <2>4. o = "ok"
    BY <2>3 DEF HttpStatus, MatchesOf
  <2> QED  BY <1>6, <2>3, <2>4 DEF MatchesOf
<1>7. Served(r)
  BY <1>1, <1>3, <1>4, <1>5, <1>6
<1>8. out[r][1].by = r
  BY <1>7 DEF LanesInv, RequestsInv, RequestInv, LeftBy, Served
<1>9. lane = "generate" => ans[r][2] = out[r][1].said /\ ans[r][2] # "blank"
  BY <1>5
<1> QED  BY <1>7, <1>8, <1>9

(* is one its client may have,                                             *)
LEMMA LegalOutcomes ==
  ASSUME LanesInv
  PROVE  LegalOutcome
<1> SUFFICES ASSUME NEW r \in Requests
             PROVE  /\ client[r] = "done" /\ IntentLane => ans[r][2] \in ToSet(ask[r][1].intents) \cup {"unknown"}
                    /\ client[r] = "done" /\ ans[r][1] = "gate" =>
                         WellShaped(ans[r][2]) /\ (ans[r][2].status = "ok" => verified)
                    /\ out[r] # <<>> => out[r][1].prompt \subseteq ContextFields \cup {"system_prompt"}
  BY DEF LegalOutcome
<1>1. client[r] = "done" => /\ IntentLane \/ lane \in {"reflex", "generate", "retrieve"}
                            /\ \E a : ans[r] = a /\ Returned(r, a)
  BY DEF LanesInv, RequestsInv, RequestInv
<1>2. client[r] = "done" /\ IntentLane => ans[r][2] \in ToSet(ask[r][1].intents) \cup {"unknown"}
  <2>1. ASSUME client[r] = "done", IntentLane PROVE ans[r][2] \in ToSet(ask[r][1].intents) \cup {"unknown"}
    <3>1. PICK i : ans[r] = <<"intent", i>> /\ IntentOf(r, i)
      BY <1>1, <2>1 DEF Returned
    <3> QED  BY <3>1 DEF IntentOf
  <2> QED  BY <2>1
<1>3. ASSUME client[r] = "done", ans[r][1] = "gate"
      PROVE  WellShaped(ans[r][2]) /\ (ans[r][2].status = "ok" => verified)
  <2>1. PICK a : ans[r] = a /\ Returned(r, a)
    BY <1>1, <1>3
  <2>2. \/ \E i : a = <<"intent", i>>
        \/ a = <<"cancelled", "">>
        \/ \E d : a = <<"gate", d>> /\ WellShaped(d) /\ (d.status = "ok" => verified)
        \/ a = <<"raised", "">> \/ \E t : a = <<"text", t>>
        \/ \E s, m : a = <<"http", s, m>>
    <3>1. IntentLane \/ lane \in {"reflex", "generate", "retrieve"}
      BY <1>1, <1>3
    <3>2. CASE IntentLane
      BY <2>1, <3>2, Zenon DEF Returned
    <3>3. CASE lane = "reflex"
      BY <2>1, <3>3, Zenon DEF Returned
    <3>4. CASE lane = "generate"
      BY <2>1, <3>4, Zenon DEF Returned
    <3>5. CASE lane = "retrieve"
      BY <2>1, <3>5, Zenon DEF Returned
    <3> QED  BY <3>1, <3>2, <3>3, <3>4, <3>5
  <2>3. PICK d : a = <<"gate", d>> /\ WellShaped(d) /\ (d.status = "ok" => verified)
    <3>1. a[1] = "gate"
      BY <1>3, <2>1
    <3>2. /\ \A i : <<"intent", i>>[1] = "intent" /\ <<"text", i>>[1] = "text"
          /\ <<"cancelled", "">>[1] = "cancelled" /\ <<"raised", "">>[1] = "raised"
      OBVIOUS
    <3>3. \A x, m : <<"http", x, m>>[1] = "http"
      OBVIOUS
    <3> QED  BY <2>2, <3>1, <3>2, <3>3
  <2> QED  BY <2>1, <2>3
<1>4. out[r] # <<>> => out[r][1].prompt \subseteq ContextFields \cup {"system_prompt"}
  BY DEF LanesInv, RequestsInv, RequestInv, LeftBy
<1> QED  BY <1>2, <1>3, <1>4

(* and was ranked with vectors of the admitted model.                      *)
LEMMA RankingsAdmitted ==
  ASSUME LanesInv
  PROVE  RankedByAdmitted
<1> SUFFICES ASSUME NEW r \in Requests, lane = "retrieve", client[r] = "done", ans[r][2] \in {200, 404}
             PROVE  out[r] = <<>> \/ out[r][1].model = Admitted \/ out[r][1].moved
  BY DEF RankedByAdmitted
<1>1. job[r] = "replied"
  BY DEF LanesInv, RequestsInv, RequestInv, Returned
<1>2. run[r] # "reverify"
  BY <1>1 DEF LanesInv, RequestsInv, RequestInv, IntentLane
<1> QED  BY <1>2 DEF LanesInv, QueryInv, Vouched

(* A ranking is total, so each document has a place of its own in it,      *)
Rankable(D, score) ==
  /\ \A d, e \in D : d.id \in Nat /\ (d.id = e.id => d = e)
  /\ \A d \in D : score[d.id] \in Int

Ahead(D, score, d) == {e \in D : Before(score, e, d)}
PlaceOf(D, score, d) == Cardinality(Ahead(D, score, d)) + 1

LEMMA TotalOrder ==
  ASSUME NEW D, NEW score, Rankable(D, score)
  PROVE  /\ \A d, e \in D : d = e \/ Before(score, d, e) \/ Before(score, e, d)
         /\ \A d, e \in D : ~(Before(score, d, e) /\ Before(score, e, d)) /\ ~Before(score, d, d)
         /\ \A d, e, f \in D : Before(score, d, e) /\ Before(score, e, f) => Before(score, d, f)
<1>1. \A d, e \in D : d.id \in Nat /\ e.id \in Nat /\ (d.id = e.id => d = e) /\ score[d.id] \in Int /\ score[e.id] \in Int
  BY DEF Rankable
<1>2. \A d, e \in D : d = e \/ Before(score, d, e) \/ Before(score, e, d)
  BY <1>1 DEF Before
<1>3. \A d, e \in D : ~(Before(score, d, e) /\ Before(score, e, d)) /\ ~Before(score, d, d)
  BY <1>1 DEF Before
<1>4. \A d, e, f \in D : Before(score, d, e) /\ Before(score, e, f) => Before(score, d, f)
  BY <1>1 DEF Before
<1> QED  BY <1>2, <1>3, <1>4

LEMMA Places ==
  ASSUME NEW D, IsFiniteSet(D), NEW score, Rankable(D, score)
  PROVE  /\ Cardinality(D) \in Nat
         /\ \A d \in D : PlaceOf(D, score, d) \in 1..Cardinality(D)
         /\ \A d, e \in D : PlaceOf(D, score, d) < PlaceOf(D, score, e) <=> Before(score, d, e)
         /\ \A d, e \in D : PlaceOf(D, score, d) = PlaceOf(D, score, e) => d = e
         /\ \A i \in 1..Cardinality(D) : \E d \in D : PlaceOf(D, score, d) = i
<1> DEFINE N == Cardinality(D)
           P(d) == PlaceOf(D, score, d)
<1>1. N \in Nat
  BY FS_CardinalityType
<1> HIDE DEF N
<1>2. ASSUME NEW d \in D
      PROVE  /\ IsFiniteSet(Ahead(D, score, d)) /\ Cardinality(Ahead(D, score, d)) \in Nat
             /\ Cardinality(Ahead(D, score, d)) < N
  <2>1. Ahead(D, score, d) \in SUBSET D /\ d \notin Ahead(D, score, d)
    BY TotalOrder DEF Ahead
  <2>2. IsFiniteSet(Ahead(D, score, d)) /\ Cardinality(Ahead(D, score, d)) <= N /\ (N = Cardinality(Ahead(D, score, d)) => D = Ahead(D, score, d))
    BY <2>1, FS_Subset DEF N
  <2>3. Cardinality(Ahead(D, score, d)) \in Nat
    BY <2>2, FS_CardinalityType
  <2> QED  BY <1>1, <2>1, <2>2, <2>3
<1>3. \A d \in D : P(d) \in 1..N
  BY <1>1, <1>2 DEF PlaceOf
<1>4. ASSUME NEW d \in D, NEW e \in D, Before(score, d, e) PROVE P(d) < P(e)
  <2>1. Ahead(D, score, d) \in SUBSET Ahead(D, score, e)
    BY <1>4, TotalOrder DEF Ahead
  <2>2. d \in Ahead(D, score, e) /\ d \notin Ahead(D, score, d)
    BY <1>4, TotalOrder DEF Ahead
  <2>3. Cardinality(Ahead(D, score, d)) <= Cardinality(Ahead(D, score, e)) /\ Cardinality(Ahead(D, score, d)) # Cardinality(Ahead(D, score, e))
    BY <1>2, <2>1, <2>2, FS_Subset
  <2> QED  BY <1>2, <2>3 DEF PlaceOf
<1> HIDE DEF P
<1>5. \A d, e \in D : P(d) = P(e) => d = e
  BY <1>1, <1>3, <1>4, TotalOrder
<1>6. \A d, e \in D : P(d) < P(e) <=> Before(score, d, e)
  BY <1>1, <1>3, <1>4, TotalOrder
<1>7. \A i \in 1..N : \E d \in D : P(d) = i
  <2> DEFINE f == [d \in D |-> P(d)]
  <2>1. f \in Injection(D, 1..N)
    BY <1>3, <1>5 DEF Injection, IsInjective
  <2>2. IsFiniteSet(1..N) /\ Cardinality(1..N) = N
    BY <1>1, FS_Interval
  <2> HIDE DEF f
  <2>3. f \in Surjection(D, 1..N)
    BY <2>1, <2>2, FS_Injection DEF N
  <2>4. \A i \in 1..N : \E d \in D : f[d] = i
    BY <2>3 DEF Surjection
  <2> QED  BY <2>4 DEF f
<1> QED  BY <1>1, <1>3, <1>5, <1>6, <1>7 DEF N, P

InLanguage(documents, language) == {d \in ToSet(documents) : d.language = language}

LEMMA RankedOnce ==
  ASSUME NEW documents, documents \in Seq(ToSet(documents)), NEW score, NEW language,
         Rankable(InLanguage(documents, language), score),
         NEW D, D = InLanguage(documents, language), NEW ranked, ranked = RankDocuments(documents, score, language)
  PROVE  /\ IsFiniteSet(D) /\ Cardinality(D) \in Nat
         /\ ranked \in Seq(D) /\ Len(ranked) = Cardinality(D)
         /\ \A d \in D : \E i \in 1..Cardinality(D) : ranked[i] = d
         /\ \A i, j \in 1..Cardinality(D) : i < j => Before(score, ranked[i], ranked[j])
<1> DEFINE N == Cardinality(D)
           P(d) == PlaceOf(D, score, d)
<1>1. IsFiniteSet(D)
  <2>1. documents \in Surjection(1..Len(documents), ToSet(documents)) /\ IsFiniteSet(1..Len(documents))
    <3>1. documents \in [1..Len(documents) -> ToSet(documents)] /\ Len(documents) \in Nat
      OBVIOUS
    <3>2. \A d \in ToSet(documents) : \E i \in 1..Len(documents) : documents[i] = d
      BY <3>1 DEF ToSet
    <3> QED  BY <3>1, <3>2, FS_Interval, SMTT(30) DEF Surjection
  <2>2. IsFiniteSet(ToSet(documents))
    BY <2>1, FS_Surjection
  <2>3. D \in SUBSET ToSet(documents)
    BY DEF InLanguage
  <2> QED  BY <2>2, <2>3, FS_Subset
<1>2. /\ N \in Nat /\ \A d \in D : P(d) \in 1..N
      /\ \A d, e \in D : P(d) < P(e) <=> Before(score, d, e)
      /\ \A d, e \in D : P(d) = P(e) => d = e
      /\ \A i \in 1..N : \E d \in D : P(d) = i
  BY <1>1, Places
<1>3. ranked = [i \in 1..N |-> CHOOSE d \in D : P(d) = i]
  BY DEF RankDocuments, InLanguage, PlaceOf, Ahead
<1> HIDE DEF N, P
<1>4. ASSUME NEW i \in 1..N PROVE ranked[i] \in D /\ P(ranked[i]) = i
  <2>1. ranked[i] = CHOOSE d \in D : P(d) = i
    BY <1>3
  <2>2. \E d \in D : P(d) = i
    BY <1>2
  <2> QED  BY <2>1, <2>2
<1>5. DOMAIN ranked = 1..N
  BY <1>3
<1>6. ranked \in Seq(D) /\ Len(ranked) = N
  BY <1>2, <1>3, <1>4
<1>7. ASSUME NEW d \in D PROVE \E i \in 1..N : ranked[i] = d
  BY <1>2, <1>4
<1>8. ASSUME NEW i \in 1..N, NEW j \in 1..N, i < j PROVE Before(score, ranked[i], ranked[j])
  BY <1>2, <1>4, <1>8
<1> QED  BY <1>1, <1>2, <1>6, <1>7, <1>8 DEF N

(* A set of places that leaves out none before one of its own is all the   *)
(* places up to its size.                                                  *)
LEMMA FirstOnes ==
  ASSUME NEW N \in Nat, NEW S \in SUBSET (1..N), \A i \in S : \A j \in 1..N : j < i => j \in S
  PROVE  Cardinality(S) \in 0..N /\ S = 1..Cardinality(S)
<1> DEFINE c == Cardinality(S)
<1>1. IsFiniteSet(1..N) /\ Cardinality(1..N) = N
  BY FS_Interval
<1>2. IsFiniteSet(S) /\ c <= N
  BY <1>1, FS_Subset
<1>3. c \in Nat
  BY <1>2, FS_CardinalityType
<1> HIDE DEF c
<1>4. ASSUME NEW i \in S PROVE i \in 1..c
  <2>1. i \in 1..N /\ 1..i \in SUBSET S
    OBVIOUS
  <2>2. Cardinality(1..i) = i
    BY <2>1, FS_Interval
  <2>3. Cardinality(1..i) <= c
    BY <1>2, <2>1, FS_Subset DEF c
  <2> QED  BY <1>3, <2>1, <2>2, <2>3
<1>5. S \in SUBSET (1..c) /\ IsFiniteSet(1..c) /\ Cardinality(1..c) = c
  BY <1>3, <1>4, FS_Interval
<1>6. S = 1..c
  BY <1>5, FS_Subset DEF c
<1> QED  BY <1>2, <1>3, <1>6 DEF c

(* What Matches returns of a ranking.                                      *)
Descending(ranked, D, score, N) ==
  /\ N \in Nat /\ ranked \in Seq(D) /\ Len(ranked) = N
  /\ \A d \in D : score[d.id] \in Int /\ \E i \in 1..N : ranked[i] = d
  /\ \A i, j \in 1..N : i < j => score[ranked[i].id] >= score[ranked[j].id] /\ ranked[i] # ranked[j]

GoodOf(D, score, w) == {d \in D : score[d.id] >= w.min_score}

LEMMA BestOfRanking ==
  ASSUME NEW w, ValidRetriever(w), NEW D, NEW score, NEW N, NEW ranked, Descending(ranked, D, score, N),
         NEW good, good = GoodOf(D, score, w),
         NEW found, found = ToSet(SubSeq(ranked, 1, Cardinality(Reached(ranked, score, w))))
  PROVE  /\ found \subseteq good
         /\ Cardinality(found) = Min({w.top_k, Cardinality(good)})
         /\ \A d \in found, e \in D \ found : score[d.id] >= score[e.id]
         /\ N = 0 => found = {}
<1> DEFINE R == Reached(ranked, score, w)
           H == {i \in 1..N : score[ranked[i].id] >= w.min_score}
           k == Cardinality(R)
           h == Cardinality(H)
<1>1. w.top_k \in 1..3 /\ w.min_score \in Int
  BY DEF ValidRetriever
<1>0. /\ N \in Nat /\ Len(ranked) = N /\ ranked \in Seq(D)
      /\ \A d \in D : \E i \in 1..N : ranked[i] = d
      /\ \A i, j \in 1..N : i < j => score[ranked[i].id] >= score[ranked[j].id]
      /\ \A i, j \in 1..N : ranked[i] = ranked[j] => i = j
  BY DEF Descending
<1>2. ASSUME NEW i \in 1..N PROVE ranked[i] \in D /\ score[ranked[i].id] \in Int
  BY DEF Descending
<1>3. R = {i \in H : i <= w.top_k}
  BY <1>0 DEF Reached
<1>4. \A i \in H : \A j \in 1..N : j < i => j \in H
  BY <1>0, <1>1, <1>2
<1>5. h \in 0..N /\ H = 1..h
  <2>1. H \in SUBSET (1..N)
    OBVIOUS
  <2> HIDE DEF H
  <2> QED  BY <1>0, <1>4, <2>1, FirstOnes
<1>6. k \in 0..N /\ R = 1..k
  <2>1. R \in SUBSET (1..N)
    BY <1>3
  <2>2. \A i \in R : \A j \in 1..N : j < i => j \in R
    BY <1>1, <1>3, <1>4
  <2> HIDE DEF R
  <2> QED  BY <1>0, <2>1, <2>2, FirstOnes
<1>7. IF w.top_k <= h THEN k = w.top_k ELSE k = h
  <2>1. 1..k = {i \in 1..h : i <= w.top_k}
    BY <1>3, <1>5, <1>6
  <2> HIDE DEF k, h, R, H
  <2>2. k \in Int /\ k >= 0 /\ h \in Int /\ h >= 0 /\ w.top_k \in Int /\ w.top_k >= 1
    BY <1>0, <1>1, <1>5, <1>6
  <2>3. \A i \in Int : 1 <= i /\ i <= k <=> 1 <= i /\ i <= h /\ i <= w.top_k
    BY <2>1, <2>2
  <2>4. (k >= 1 => k <= h /\ k <= w.top_k) /\ (h >= 1 /\ h <= w.top_k => h <= k) /\ (w.top_k <= h => w.top_k <= k)
    BY <2>2, <2>3
  <2> QED  BY <2>2, <2>4
<1>8. h = Cardinality(good)
  <2> DEFINE f == [i \in H |-> ranked[i]]
  <2>1. f \in Bijection(H, good)
    <3>1. f \in [H -> good]
      BY <1>2 DEF GoodOf
    <3>2. \A i, j \in H : f[i] = f[j] => i = j
      <4> SUFFICES ASSUME NEW i \in H, NEW j \in H, f[i] = f[j] PROVE i = j
        OBVIOUS
      <4>1. i \in 1..N /\ j \in 1..N /\ ranked[i] = ranked[j]
        OBVIOUS
      <4> QED  BY <1>0, <4>1
    <3>3. \A d \in good : \E i \in H : f[i] = d
      BY <1>0 DEF GoodOf
    <3> HIDE DEF f
    <3> QED  BY <3>1, <3>2, <3>3 DEF Bijection, Injection, Surjection, IsInjective
  <2> HIDE DEF f, H, h
  <2>3. h \in Int /\ H = 1..h
    BY <1>0, <1>5
  <2>2. IsFiniteSet(H)
    BY <2>3, FS_Interval
  <2> QED  BY <2>1, <2>2, FS_Bijection DEF ExistsBijection, h
<1> HIDE DEF R, H, k, h
<1>9. SubSeq(ranked, 1, k) = [i \in 1..k |-> ranked[i]] /\ found = {ranked[i] : i \in 1..k}
  <2>1. SubSeq(ranked, 1, k) \in Seq(D) /\ Len(SubSeq(ranked, 1, k)) = k
        /\ \A i \in 1..k : SubSeq(ranked, 1, k)[i] = ranked[i]
    BY <1>0, <1>6
  <2>2. found = ToSet(SubSeq(ranked, 1, k))
    BY DEF k, R
  <2>3. DOMAIN SubSeq(ranked, 1, k) = 1..k /\ SubSeq(ranked, 1, k) = [i \in 1..k |-> ranked[i]]
    BY <1>0, <1>6, <2>1
  <2>4. ToSet(SubSeq(ranked, 1, k)) = {SubSeq(ranked, 1, k)[i] : i \in 1..k}
    BY <2>3 DEF ToSet
  <2> QED  BY <2>1, <2>2, <2>3, <2>4
<1>10. \A d \in found : \E i \in 1..k : d = ranked[i]
  BY <1>9
<1>11. found \subseteq good
  <2>1. \A i \in 1..k : ranked[i] \in good
    BY <1>0, <1>3, <1>5, <1>6, <1>2 DEF H, GoodOf
  <2> QED  BY <2>1, <1>10
<1>12. Cardinality(found) = k
  <2> DEFINE f == [i \in 1..k |-> ranked[i]]
  <2>1. f \in Bijection(1..k, found)
    <3>1. f \in [1..k -> found] /\ \A d \in found : \E i \in 1..k : f[i] = d
      BY <1>9
    <3>2. \A i, j \in 1..k : f[i] = f[j] => i = j
      <4> SUFFICES ASSUME NEW i \in 1..k, NEW j \in 1..k, f[i] = f[j] PROVE i = j
        OBVIOUS
      <4>1. i \in 1..N /\ j \in 1..N /\ ranked[i] = ranked[j]
        BY <1>0, <1>6
      <4> QED  BY <1>0, <4>1
    <3> HIDE DEF f
    <3> QED  BY <3>1, <3>2 DEF Bijection, Injection, Surjection, IsInjective
  <2>2. IsFiniteSet(1..k) /\ Cardinality(1..k) = k
    BY <1>0, <1>6, FS_Interval
  <2> HIDE DEF f
  <2> QED  BY <2>1, <2>2, FS_Bijection DEF ExistsBijection
<1>13. ASSUME NEW d \in found, NEW e \in D \ found PROVE score[d.id] >= score[e.id]
  <2>1. PICK i \in 1..k : d = ranked[i]
    BY <1>10
  <2>2. PICK j \in 1..N : e = ranked[j]
    BY <1>0
  <2>3. j > k
    BY <1>0, <1>6, <1>9, <2>2
  <2> QED  BY <1>0, <1>6, <2>1, <2>2, <2>3
<1>14. Min({w.top_k, h}) = k
  <2>1. \A x, y \in Int : x <= y => Min({x, y}) = x /\ Min({y, x}) = x
    BY DEF Min
  <2> QED  BY <1>0, <1>1, <1>5, <1>7, <2>1
<1>15. N = 0 => found = {}
  BY <1>0, <1>6, <1>10
<1> QED  BY <1>8, <1>11, <1>12, <1>13, <1>14, <1>15

(* The settings are numbers.                                               *)
LEMMA SettingTypes ==
  ASSUME NEW w, ValidRetriever(w)
  PROVE  w.top_k \in 1..3 /\ w.min_score \in Int /\ w.min_margin \in Int /\ w.min_margin >= 0
  BY DEF ValidRetriever

(* A ranking descends,                                                     *)
LEMMA RankingDescends ==
  ASSUME NEW documents, documents \in Seq(ToSet(documents)), NEW score, NEW language,
         NEW D, D = InLanguage(documents, language), Rankable(D, score)
  PROVE  Descending(RankDocuments(documents, score, language), D, score, Cardinality(D))
<1> DEFINE ranked == RankDocuments(documents, score, language)
           N == Cardinality(D)
<1>1. /\ N \in Nat /\ ranked \in Seq(D) /\ Len(ranked) = N
      /\ \A d \in D : \E i \in 1..N : ranked[i] = d
      /\ \A i, j \in 1..N : i < j => Before(score, ranked[i], ranked[j])
  BY RankedOnce
<1> HIDE DEF ranked, N
<1>2. \A d \in D : score[d.id] \in Int
  BY DEF Rankable
<1>3. ASSUME NEW i \in 1..N, NEW j \in 1..N, i < j
      PROVE  score[ranked[i].id] >= score[ranked[j].id] /\ ranked[i] # ranked[j]
  <2>1. ranked[i] \in D /\ ranked[j] \in D
    BY <1>1
  <2>2. Before(score, ranked[i], ranked[j]) /\ ~Before(score, ranked[i], ranked[i])
    BY <1>1, <1>3, <2>1, TotalOrder
  <2>3. score[ranked[i].id] \in Int /\ score[ranked[j].id] \in Int
    BY <1>2, <2>1
  <2> QED  BY <2>2, <2>3 DEF Before
<1>4. Descending(ranked, D, score, N)
  BY <1>1, <1>2, <1>3 DEF Descending
<1> QED  BY <1>4 DEF ranked, N

InScale(D, score) == \A d \in D : score[d.id] \in -100..100

LEMMA ScaleTypes ==
  ASSUME NEW D, NEW score, InScale(D, score)
  PROVE  \A d \in D : score[d.id] \in Int /\ -100 <= score[d.id]
  BY DEF InScale

(* and its two first tell whether the best is clear.                       *)
Close(score, d, e, w) == d # e /\ score[e.id] > score[d.id] - w.min_margin
Clear(D, score, w) ==
  \E d \in GoodOf(D, score, w) : /\ score[d.id] - w.min_margin >= -100
                                 /\ \A e \in D : score[e.id] <= score[d.id] /\ ~Close(score, d, e, w)

LEMMA ClearByTwo ==
  ASSUME NEW w, ValidRetriever(w), NEW D, NEW score, NEW N, NEW ranked, Descending(ranked, D, score, N),
         InScale(D, score), N # 0
  PROVE  Clear(D, score, w) <=> /\ ScoreAt(ranked, score, 1) >= w.min_score
                                /\ ScoreAt(ranked, score, 1) - ScoreAt(ranked, score, 2) >= w.min_margin
<1> DEFINE best == ScoreAt(ranked, score, 1)
           second == ScoreAt(ranked, score, 2)
<1>1. w.min_score \in Int /\ w.min_margin \in Int /\ w.min_margin >= 0
  BY SettingTypes
<1>0. /\ N \in Nat /\ Len(ranked) = N /\ ranked \in Seq(D)
      /\ \A d \in D : \E i \in 1..N : ranked[i] = d
      /\ \A i, j \in 1..N : i < j => score[ranked[i].id] >= score[ranked[j].id]
      /\ \A i, j \in 1..N : i < j => ranked[i] # ranked[j]
  BY DEF Descending
<1>2. \A i \in 1..N : ranked[i] \in D
  BY <1>0
<1>3. \A d \in D : score[d.id] \in Int /\ -100 <= score[d.id]
  BY ScaleTypes
<1>4. 1 \in 1..N /\ ranked[1] \in D /\ best = score[ranked[1].id]
  BY <1>0, <1>2 DEF ScoreAt
<1>5. \A d \in D : score[d.id] <= best
  <2> TAKE d \in D
  <2>1. PICK i \in 1..N : ranked[i] = d
    BY <1>0
  <2> QED  BY <1>0, <1>3, <1>4, <2>1
<1>6. IF N >= 2 THEN 2 \in 1..N /\ ranked[2] \in D /\ second = score[ranked[2].id] ELSE second = -100
  BY <1>0, <1>2 DEF ScoreAt
<1>7. best \in Int /\ second \in Int /\ best >= -100 /\ second >= -100
  BY <1>3, <1>4, <1>6
<1>8. \A d \in D : d = ranked[1] \/ score[d.id] <= second
  <2> TAKE d \in D
  <2>1. PICK i \in 1..N : ranked[i] = d
    BY <1>0
  <2>2. CASE i = 1
    BY <2>1, <2>2
  <2>3. CASE i = 2
    BY <1>0, <1>3, <1>6, <2>1, <2>3
  <2>4. CASE i > 2
    <3>1. N >= 2 /\ 2 \in 1..N /\ 2 < i
      BY <1>0, <2>4
    <3> QED  BY <1>0, <1>6, <2>1, <3>1
  <2> QED  BY <1>0, <2>1, <2>2, <2>3, <2>4
<1> HIDE DEF best, second
<1>9. ASSUME NEW d \in D, score[d.id] >= w.min_score, score[d.id] - w.min_margin >= -100,
             \A e \in D : score[e.id] <= score[d.id] /\ ~Close(score, d, e, w)
      PROVE  best >= w.min_score /\ best - second >= w.min_margin
  <2>1. score[d.id] = best
    BY <1>3, <1>4, <1>5, <1>7, <1>9
  <2>2. d # ranked[1] => w.min_margin = 0
    BY <1>1, <1>3, <1>4, <1>7, <1>9, <2>1 DEF Close
  <2>3. best - second >= w.min_margin
    <3>1. CASE N >= 2 /\ d = ranked[1]
      <4>1. ranked[2] \in D /\ second = score[ranked[2].id] /\ d # ranked[2]
        BY <1>0, <1>4, <1>6, <3>1
      <4>2. ~Close(score, d, ranked[2], w)
        BY <1>9, <4>1
      <4> QED  BY <1>1, <1>7, <2>1, <4>1, <4>2 DEF Close
    <3>2. CASE d # ranked[1]
      <4>1. N >= 2 => second <= best
        BY <1>5, <1>6
      <4> QED  BY <1>1, <1>6, <1>7, <1>0, <2>2, <3>2, <4>1
    <3>3. CASE N < 2
      BY <1>1, <1>0, <1>6, <1>7, <1>9, <2>1, <3>3
    <3> QED  BY <1>0, <3>1, <3>2, <3>3
  <2> QED  BY <1>9, <2>1, <2>3
<1>10. ASSUME best >= w.min_score, best - second >= w.min_margin PROVE Clear(D, score, w)
  <2>1. ranked[1] \in GoodOf(D, score, w)
    BY <1>4, <1>10 DEF GoodOf
  <2>2. score[ranked[1].id] - w.min_margin >= -100
    BY <1>1, <1>4, <1>7, <1>10
  <2>3. ASSUME NEW e \in D PROVE score[e.id] <= score[ranked[1].id] /\ ~Close(score, ranked[1], e, w)
    <3>1. e # ranked[1] => score[e.id] <= second
      BY <1>8
    <3> QED  BY <1>1, <1>3, <1>4, <1>5, <1>7, <1>10, <3>1 DEF Close
  <2> QED  BY <2>1, <2>2, <2>3 DEF Clear
<1>11. ASSUME Clear(D, score, w) PROVE best >= w.min_score /\ best - second >= w.min_margin
  <2>1. PICK d \in GoodOf(D, score, w) : /\ score[d.id] - w.min_margin >= -100
                                         /\ \A e \in D : score[e.id] <= score[d.id] /\ ~Close(score, d, e, w)
    BY <1>11 DEF Clear
  <2> QED  BY <1>9, <2>1 DEF GoodOf
<1> QED  BY <1>10, <1>11 DEF best, second

(* So Matches returns what the corpus has best.                            *)
LEMMA MatchesOfBest ==
  ASSUME NEW documents, documents \in Seq(ToSet(documents)), NEW score, NEW language,
         NEW w, ValidRetriever(w), NEW D, D = InLanguage(documents, language), Rankable(D, score),
         InScale(D, score),
         NEW good, good = GoodOf(D, score, w),
         NEW found, found = ToSet(Matches(documents, score, language, w))
  PROVE  IF Clear(D, score, w) THEN /\ found \subseteq good
                                    /\ Cardinality(found) = Min({w.top_k, Cardinality(good)})
                                    /\ \A d \in found, e \in D \ found : score[d.id] >= score[e.id]
                               ELSE found = {}
<1> DEFINE ranked == RankDocuments(documents, score, language)
           N == Cardinality(D)
           best == ScoreAt(ranked, score, 1)
           second == ScoreAt(ranked, score, 2)
           top == SubSeq(ranked, 1, Cardinality(Reached(ranked, score, w)))
<1>1. Matches(documents, score, language, w) = IF best < w.min_score \/ best - second < w.min_margin THEN <<>> ELSE top
  BY DEF Matches
<1>2. Descending(ranked, D, score, N)
  BY RankingDescends
<1> HIDE DEF ranked, N
<1>3. /\ ToSet(top) \subseteq good
      /\ Cardinality(ToSet(top)) = Min({w.top_k, Cardinality(good)})
      /\ \A d \in ToSet(top), e \in D \ ToSet(top) : score[d.id] >= score[e.id]
      /\ N = 0 => ToSet(top) = {}
  <2> DEFINE first == ToSet(top)
  <2>1. first = ToSet(SubSeq(ranked, 1, Cardinality(Reached(ranked, score, w))))
    OBVIOUS
  <2> HIDE DEF first
  <2>2. /\ first \subseteq good
        /\ Cardinality(first) = Min({w.top_k, Cardinality(good)})
        /\ \A d \in first, e \in D \ first : score[d.id] >= score[e.id]
        /\ N = 0 => first = {}
    BY <1>2, <2>1, BestOfRanking, SMTT(60)
  <2> QED  BY <2>2 DEF first
<1>4. best \in Int /\ second \in Int /\ w.min_score \in Int /\ w.min_margin \in Int
  <2>1. \A i \in 1..Len(ranked) : ranked[i] \in D
    BY <1>2 DEF Descending
  <2>2. Len(ranked) \in Nat /\ \A d \in D : score[d.id] \in Int
    BY <1>2 DEF Descending
  <2>3. best \in Int
    BY <2>1, <2>2 DEF ScoreAt
  <2>4. second \in Int
    BY <2>1, <2>2 DEF ScoreAt
  <2>5. w.min_score \in Int /\ w.min_margin \in Int
    BY SettingTypes
  <2> QED  BY <2>3, <2>4, <2>5
<1> HIDE DEF top, best, second
<1>5. ToSet(<<>>) = {}
  BY DEF ToSet
<1>6. CASE N = 0
  <2>1. D = {}
    BY <1>2, <1>6 DEF Descending
  <2>2. ~Clear(D, score, w)
    BY <2>1 DEF Clear, GoodOf
  <2> QED  BY <1>1, <1>3, <1>5, <1>6, <2>2
<1>7. CASE N # 0
  <2>1. Clear(D, score, w) <=> best >= w.min_score /\ best - second >= w.min_margin
    BY <1>2, <1>7, ClearByTwo DEF best, second
  <2>2. CASE Clear(D, score, w)
    BY <1>1, <1>3, <1>4, <2>1, <2>2
  <2>3. CASE ~Clear(D, score, w)
    BY <1>1, <1>4, <1>5, <2>1, <2>3
  <2> QED  BY <2>2, <2>3
<1> QED  BY <1>6, <1>7

(* What was retrieved is therefore the best,                               *)
LEMMA BestFound ==
  ASSUME LanesInv
  PROVE  MatchesAreBest
<1> SUFFICES ASSUME NEW r \in Requests, lane = "retrieve", client[r] = "done", out[r] # <<>>, ans[r][2] \in {200, 404}
             PROVE  LET score == out[r][1].said
                        mine == {d \in ToSet(Retriever.documents) : d.language = ask[r][1].language}
                        good == {d \in mine : score[d.id] >= Retriever.min_score}
                        found == ToSet(ans[r][3])
                        Near(d, e) == d # e /\ score[e.id] > score[d.id] - Retriever.min_margin
                        clear == \E d \in good : /\ score[d.id] - Retriever.min_margin >= -100
                                                 /\ \A e \in mine : score[e.id] <= score[d.id] /\ ~Near(d, e)
                    IN  IF clear THEN /\ found \subseteq good
                                      /\ Cardinality(found) = Min({Retriever.top_k, Cardinality(good)})
                                      /\ \A d \in found, e \in mine \ found : score[d.id] >= score[e.id]
                                 ELSE found = {}
  BY ZenonT(40) DEF MatchesAreBest
<1> DEFINE score == out[r][1].said
           language == ask[r][1].language
           mine == InLanguage(Retriever.documents, language)
           found == ToSet(ans[r][3])
<1>1. ans[r][3] = Matches(Retriever.documents, score, language, Retriever)
  <2>1. PICK a : ans[r] = a /\ Returned(r, a)
    BY DEF LanesInv, RequestsInv, RequestInv
  <2>2. PICK s, m : a = <<"http", s, m>> /\ (s \notin {200, 404} \/ \E o : MatchesOf(r, o, m))
    BY <2>1 DEF Returned
  <2>3. ans[r][2] = s /\ ans[r][3] = m
    BY <2>1, <2>2
  <2>4. PICK o : MatchesOf(r, o, m)
    BY <2>2, <2>3
  <2> QED  BY <2>3, <2>4 DEF MatchesOf
<1>2. score \in Replies["retrieve"]
  <2>1. PICK x : out[r] = <<x>> /\ LeftBy(r, x)
    BY DEF LanesInv, RequestsInv, RequestInv
  <2>2. PICK v \in Replies[lane], m \in Digests, f \in BOOLEAN, p \in SUBSET (ContextFields \cup {"system_prompt"}) :
           x = [by |-> r, said |-> v, model |-> m, moved |-> f, prompt |-> p]
    BY <2>1 DEF LeftBy
  <2> QED  BY <2>1, <2>2
<1>3. /\ Retriever.documents \in Seq(ToSet(Retriever.documents)) /\ ValidRetriever(Retriever)
      /\ \A d, e \in ToSet(Retriever.documents) : d.id \in Nat /\ (d.id = e.id => d = e)
      /\ InScale(ToSet(Retriever.documents), score)
  <2>1. "retrieve" \in Lanes
    BY DEF LanesInv, RequestsInv, RequestTypes
  <2> HIDE DEF score
  <2> QED  BY <1>2, <2>1, LaneAssumption DEF InScale
<1> HIDE DEF score, language
<1>4. mine = {d \in ToSet(Retriever.documents) : d.language = language}
  BY DEF InLanguage
<1>5. Rankable(mine, score) /\ InScale(mine, score)
  <2>1. mine \in SUBSET ToSet(Retriever.documents)
    BY <1>4
  <2>2. InScale(mine, score)
    BY <1>3, <2>1 DEF InScale
  <2>3. \A d, e \in mine : d.id \in Nat /\ (d.id = e.id => d = e)
    BY <1>3, <2>1
  <2> HIDE DEF mine
  <2>4. \A d \in mine : score[d.id] \in Int
    BY <2>2, ScaleTypes
  <2> QED  BY <2>2, <2>3, <2>4 DEF Rankable
<1> HIDE DEF mine, found
<1>6. IF Clear(mine, score, Retriever)
        THEN /\ found \subseteq GoodOf(mine, score, Retriever)
             /\ Cardinality(found) = Min({Retriever.top_k, Cardinality(GoodOf(mine, score, Retriever))})
             /\ \A d \in found, e \in mine \ found : score[d.id] >= score[e.id]
        ELSE found = {}
  <2>1. found = ToSet(Matches(Retriever.documents, score, language, Retriever))
    BY <1>1 DEF found
  <2>2. mine = InLanguage(Retriever.documents, language)
    BY DEF mine
  <2> QED  BY <1>3, <1>5, <2>1, <2>2, MatchesOfBest
<1> QED  BY <1>4, <1>6, ZenonT(40) DEF Clear, GoodOf, Close, score, language, found

(* The types of the lanes.                                                 *)
LEMMA LaneTypes == LanesInv => TypeOK
  BY DEF LanesInv, TypeOK, PermitInv, RequestsInv, RequestTypes, QueryInv, IndexInv, IndexTypeOK

(* retrieval_worker.py from_files: whatever the other starts, the crashes, *)
(* the edits of the corpus and the moves of the tag did, a serving worker  *)
(* has the vectors of its own corpus, made by the admitted model unless    *)
(* the tag moved twice between two looks, and the index file is damaged    *)
(* only where two rebuilds had the temporary file open at once.            *)
THEOREM IndexSoundHolds == Spec => []IndexSound
<1>1. LanesInv => IndexSound
  BY DEF LanesInv, IndexInv
<1> QED  BY LanesStart, LanesStep, <1>1, PTL DEF Spec

(* Of any number of requests over any lane, with deadlines that pass at    *)
(* any moment: an answer other than the neutral one was made by the        *)
(* inference of its own request, ended before it was given; an intent is   *)
(* one of those asked or "unknown", a decision of the gate is well shaped, *)
(* the generation model saw no field of the context but the five; and a    *)
(* satisfied outcome has every requirement satisfied.                      *)
THEOREM AnswersEarnedHold == Spec => []AnswersEarned
<1>1. LanesInv => AnswersEarned
  BY LaneTypes, EarnedAnswers, LegalOutcomes, SatisfiedIsAll DEF LanesInv, AnswersEarned
<1> QED  BY LanesStart, LanesStep, <1>1, PTL DEF Spec

(* RetrievalWorker.retrieve: whatever the corpus, the scores and the       *)
(* settings, what is retrieved is what the corpus has best, and nothing    *)
(* when the best is not clear; and OllamaEmbedClient.embed ranked it with  *)
(* a vector of the admitted model, unless the tag moved twice between two  *)
(* looks at its digest.                                                    *)
THEOREM BestMatchesHolds == Spec => []BestMatches
<1>1. LanesInv => BestMatches
  BY RankingsAdmitted, BestFound DEF BestMatches
<1> QED  BY LanesStart, LanesStep, <1>1, PTL DEF Spec
=============================================================================
