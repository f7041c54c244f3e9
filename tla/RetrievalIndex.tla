--------------------------- MODULE RetrievalIndex ---------------------------
(***************************************************************************)
(* workers/retrieval_worker.py, RetrievalWorker.from_files, over           *)
(* retrieval.py, OllamaEmbedClient: processes that start a retrieval       *)
(* worker from one corpus file and one index file, some of them rebuilding *)
(* the index.  A start reads the corpus once, asks Ollama which digest the *)
(* model tag has, embeds between two looks at that digest, writes the      *)
(* index to a temporary file with a fixed name, renames it, and loads the  *)
(* index path it has in common with every other process.                   *)
(*                                                                         *)
(* A file is an inode: a process that has the temporary file open writes   *)
(* to its inode, whatever path the inode has by then.  An index is its     *)
(* corpus and the digest it names, which the loader checks, and the model  *)
(* that made its vectors, which nobody can see (history: `model', `moved').*)
(* The environment moves the model tag and edits the corpus; a process may *)
(* crash before it serves and be started again.                            *)
(***************************************************************************)
EXTENDS RetrievalRules

CONSTANTS
  Boots,        \* starts of a retrieval worker
  Corpora,      \* contents of the corpus file
  FirstCorpus,  \* the one before the first start
  Digests,      \* digests the model tag may resolve to
  Admitted,     \* the client's expected_digest
  ModelName,    \* the client's model tag
  Inodes,       \* names for files, at least one more than the boots
  FirstIndexes, \* what the index path may hold before the first start: an index or NoFile
  MaxMoves,     \* bound: moves of the model tag
  MaxEdits,     \* bound: edits of the corpus file
  MaxCrashes    \* bound: crashes of a start

CONSTANTS NoFile, Empty, Torn

ASSUME IndexAssumption ==
  /\ Admitted \in Digests
  /\ FirstCorpus \in Corpora
  /\ NoFile \notin Inodes
  /\ IsFiniteSet(Inodes) /\ IsFiniteSet(Boots)
  /\ Cardinality(Inodes) > Cardinality(Boots)
  /\ MaxMoves \in Nat

VARIABLES
  tag,      \* the digest the model tag resolves to
  moves,    \* history: how often it has moved
  corpus,   \* content of the corpus file
  edits,    \* bound counter
  crashes,  \* bound counter
  data,     \* inode -> content
  tmp,      \* inode at the temporary path, or NoFile
  index,    \* inode at the index path, or NoFile
  pc,       \* boot -> next step of from_files
  rebuild,  \* boot -> the rebuild_index argument
  raw,      \* boot -> the corpus it has read
  handle,   \* boot -> inode it has open for writing, or NoFile
  since,    \* boot -> moves at the first look at the digest
  vec,      \* boot -> the index it has built
  served,   \* boot -> the index it serves
  shared    \* history: two starts had the temporary file open at once

fileVars == <<data, tmp, index, shared>>
bootVars == <<pc, rebuild, raw, handle, since, vec, served>>
worldVars == <<tag, moves, corpus, edits, crashes>>
indexVars == <<fileVars, bootVars, worldVars>>

(* The index a process that read corpus c builds with vectors of model d.  *)
Built(c, d) ==
  [ corpus |-> c, name |-> ModelName, digest |-> Admitted, dimensions |-> 1, finite |-> TRUE,
    ids |-> [i \in DOMAIN c.documents |-> c.documents[i].id],
    widths |-> [i \in DOMAIN c.documents |-> 1],
    model |-> d, moved |-> FALSE ]

Whole(content) == content \notin {Empty, Torn, NoFile}

(* Its vectors are the admitted model's, or the tag moved twice meanwhile. *)
Vouched(x) == x.model = Admitted \/ x.moved

(* An index is not mistaken for a damaged file, and the one that is there  *)
(* before the first start was built like those that are built here.        *)
ASSUME FileAssumption ==
  /\ \A c \in Corpora, d \in Digests, m \in BOOLEAN : Whole([Built(c, d) EXCEPT !.moved = m])
  /\ \A x \in FirstIndexes : x = NoFile \/ (Whole(x) /\ Vouched(x))

(* An inode no path and no open file refers to.                            *)
FreshInode == CHOOSE i \in Inodes : i # index /\ i # tmp /\ \A b \in Boots : handle[b] # i

IndexInit ==
  /\ tag = Admitted /\ moves = 0 /\ corpus = FirstCorpus /\ edits = 0 /\ crashes = 0
  /\ \E first \in FirstIndexes, i \in {CHOOSE i \in Inodes : TRUE} :
       /\ data = [j \in Inodes |-> IF j = i THEN first ELSE NoFile]
       /\ index = IF first = NoFile THEN NoFile ELSE i
  /\ tmp = NoFile /\ shared = FALSE
  /\ pc = [b \in Boots |-> "start"]
  /\ rebuild \in [Boots -> BOOLEAN]
  /\ raw = [b \in Boots |-> NoFile]
  /\ handle = [b \in Boots |-> NoFile]
  /\ since = [b \in Boots |-> 0]
  /\ vec = [b \in Boots |-> NoFile]
  /\ served = [b \in Boots |-> NoFile]

-----------------------------------------------------------------------------
Goto(b, step) == pc' = [pc EXCEPT ![b] = step]

(* The corpus file is read once, hashed and validated.                     *)
ReadCorpus(b) ==
  /\ pc[b] = "start"
  /\ raw' = [raw EXCEPT ![b] = corpus]
  /\ Goto(b, IF ValidCorpus(corpus) THEN "inventory" ELSE "failed")
  /\ UNCHANGED <<fileVars, worldVars, rebuild, handle, since, vec, served>>

(* client.inventory(): the tag must resolve to the admitted digest.        *)
Inventory(b) ==
  /\ pc[b] = "inventory"
  /\ Goto(b, IF tag # Admitted THEN "failed" ELSE IF rebuild[b] THEN "verify" ELSE "load")
  /\ UNCHANGED <<fileVars, worldVars, rebuild, raw, handle, since, vec, served>>

(* embed() looks at the digest, asks for the vectors, looks again.         *)
Verify(b) ==
  /\ pc[b] = "verify"
  /\ IF tag = Admitted THEN since' = [since EXCEPT ![b] = moves] /\ Goto(b, "embed")
                       ELSE Goto(b, "failed") /\ UNCHANGED since
  /\ UNCHANGED <<fileVars, worldVars, rebuild, raw, handle, vec, served>>

EmbedCorpus(b) ==
  /\ pc[b] = "embed"
  /\ \/ /\ vec' = [vec EXCEPT ![b] = Built(raw[b], tag)]
        /\ Goto(b, "reverify")
        /\ UNCHANGED since
     \/ /\ since' = [since EXCEPT ![b] = 0]  \* the request fails
        /\ Goto(b, "failed")
        /\ UNCHANGED vec
  /\ UNCHANGED <<fileVars, worldVars, rebuild, raw, handle, served>>

Reverify(b) ==
  /\ pc[b] = "reverify"
  /\ since' = [since EXCEPT ![b] = 0]
  /\ IF tag = Admitted THEN /\ vec' = [vec EXCEPT ![b].moved = moves >= since[b] + 2]
                            /\ Goto(b, "open")
                       ELSE /\ vec' = [vec EXCEPT ![b] = NoFile]
                            /\ Goto(b, "failed")
  /\ UNCHANGED <<fileVars, worldVars, rebuild, raw, handle, served>>

(* write_text opens the one temporary path, truncating what is there ...   *)
OpenTemporary(b) ==
  /\ pc[b] = "open"
  /\ \E i \in {IF tmp # NoFile THEN tmp ELSE FreshInode} :
       /\ tmp' = i
       /\ handle' = [handle EXCEPT ![b] = i]
       /\ data' = [data EXCEPT ![i] = Empty]
       /\ shared' = (shared \/ \E o \in Boots \ {b} : handle[o] = i)
  /\ Goto(b, "write")
  /\ UNCHANGED <<index, worldVars, rebuild, raw, since, vec, served>>

(* ... and fills it.  Over another process' text it leaves its own or a    *)
(* mixture of the two.                                                     *)
WriteTemporary(b) ==
  /\ pc[b] = "write"
  /\ \E content \in {vec[b]} \cup (IF data[handle[b]] = Empty THEN {} ELSE {Torn}) :
       data' = [data EXCEPT ![handle[b]] = content]
  /\ Goto(b, "replace")
  /\ UNCHANGED <<tmp, index, shared, worldVars, rebuild, raw, handle, since, vec, served>>

(* The rename; it fails when another process has renamed the file already. *)
(* An index nobody refers to any more is gone.                             *)
Replace(b) ==
  /\ pc[b] = "replace"
  /\ handle' = [handle EXCEPT ![b] = NoFile]
  /\ IF tmp = NoFile THEN /\ Goto(b, "failed")
                        /\ UNCHANGED <<tmp, index>>
                   ELSE /\ Goto(b, "load")
                        /\ index' = tmp /\ tmp' = NoFile
  /\ data' = [i \in Inodes |-> IF tmp # NoFile /\ i = index /\ \A o \in Boots : handle'[o] # i
                               THEN NoFile ELSE data[i]]
  /\ vec' = [vec EXCEPT ![b] = NoFile]
  /\ UNCHANGED <<shared, worldVars, rebuild, raw, since, served>>

BugLoadable(b, content) ==
  Whole(content) /\ ValidIndex(content, content.corpus, ModelName, Admitted, raw[b].documents)

(* The index path is read and checked against the corpus and digest of     *)
(* this process; a missing, torn or foreign index ends the start.          *)
Loadable(b, content) ==
  Whole(content) /\ ValidIndex(content, raw[b], ModelName, Admitted, raw[b].documents)

Load(b) ==
  /\ pc[b] = "load"
  /\ IF index # NoFile /\ Loadable(b, data[index])
     THEN served' = [served EXCEPT ![b] = data[index]] /\ Goto(b, "serving")
     ELSE Goto(b, "failed") /\ UNCHANGED served
  /\ UNCHANGED <<fileVars, worldVars, rebuild, raw, handle, since, vec>>

Boot(b) ==
  \/ ReadCorpus(b) \/ Inventory(b) \/ Verify(b) \/ EmbedCorpus(b) \/ Reverify(b)
  \/ OpenTemporary(b) \/ WriteTemporary(b) \/ Replace(b) \/ Load(b)

(* The process dies and is started again; its files stay as they are.      *)
Crash(b) ==
  /\ pc[b] \notin {"start", "serving", "failed"}
  /\ crashes < MaxCrashes
  /\ crashes' = crashes + 1
  /\ Goto(b, "start")
  /\ raw' = [raw EXCEPT ![b] = NoFile]
  /\ handle' = [handle EXCEPT ![b] = NoFile]
  /\ since' = [since EXCEPT ![b] = 0]
  /\ vec' = [vec EXCEPT ![b] = NoFile]
  /\ UNCHANGED <<fileVars, tag, moves, corpus, edits, rebuild, served>>

MoveTag ==
  /\ moves < MaxMoves
  /\ moves' = moves + 1
  /\ tag' \in Digests \ {tag}
  /\ UNCHANGED <<fileVars, bootVars, corpus, edits, crashes>>

EditCorpus ==
  /\ edits < MaxEdits
  /\ edits' = edits + 1
  /\ corpus' \in Corpora \ {corpus}
  /\ UNCHANGED <<fileVars, bootVars, tag, moves, crashes>>

IndexNext ==
  \/ \E b \in Boots : Boot(b) \/ Crash(b)
  \/ MoveTag \/ EditCorpus

IndexSpec == IndexInit /\ [][IndexNext]_indexVars

-----------------------------------------------------------------------------
(* Positions of vectors are positions of documents: a worker never pairs   *)
(* the vectors of one corpus with the passages of another, whatever other  *)
(* processes, edits and crashes did to the files between its two reads.    *)
ServesItsCorpus ==
  \A b \in Boots : pc[b] = "serving" => served[b].corpus = raw[b]

(* An index with another model's vectors is served only if the tag went    *)
(* away and came back between the two looks at the digest: one move is     *)
(* always seen.                                                            *)
AdmittedVectors ==
  \A b \in Boots : pc[b] = "serving" => Vouched(served[b])

(* A crash alone never damages the index: what the index path holds is     *)
(* whole unless two rebuilds have had the temporary file open at once.     *)
WholeIndex == index # NoFile => Whole(data[index]) \/ shared

(* A serving worker and the index file it leaves to the next are sound.    *)
IndexSound == ServesItsCorpus /\ AdmittedVectors /\ WholeIndex
=============================================================================
