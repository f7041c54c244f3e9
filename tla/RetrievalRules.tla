--------------------------- MODULE RetrievalRules ---------------------------
(***************************************************************************)
(* What the retrieval lane refuses, ranks and answers: retrieval.py and    *)
(* RetrievalWorker.retrieve of workers/retrieval_worker.py.  Pure          *)
(* operators.  Scores are hundredths in -100..100; a document is a record  *)
(* of an id (a number, for its order), a language and its references.      *)
(***************************************************************************)
EXTENDS Integers, Sequences, SequencesExt, FiniteSets

(* retrieve: the refusals before the slot is asked for.  "terms" is a      *)
(* query of which nothing is left without the subject terms.               *)
ValidQuery(q) ==
  /\ q.keys = {"query", "language"}
  /\ q.text \in {"question", "terms"} /\ q.size = "fits"
  /\ q.language \in {"en", "es"}

(* validate_corpus: ids are unique, every document cites known sources,    *)
(* every query names a document.                                           *)
ValidCorpus(c) ==
  /\ c.documents # <<>> /\ c.queries # <<>>
  /\ \A i, j \in DOMAIN c.documents : c.documents[i].id = c.documents[j].id => i = j
  /\ \A d \in ToSet(c.documents) :
       /\ d.language \in {"en", "es"} /\ d.text = "plain"
       /\ d.cites # {} /\ d.cites \subseteq c.sources
  /\ \A i, j \in DOMAIN c.queries : c.queries[i].id = c.queries[j].id => i = j
  /\ \A q \in ToSet(c.queries) :
       /\ q.language \in {"en", "es"} /\ q.text = "plain"
       /\ \E d \in ToSet(c.documents) : d.id = q.expected

(* _validate_index: the index names this corpus, model and digest, lists   *)
(* the documents in order, and has one finite vector of one dimension for  *)
(* each.                                                                   *)
ValidIndex(x, hash, model, digest, documents) ==
  /\ x.corpus = hash /\ x.name = model /\ x.digest = digest
  /\ x.ids = [i \in DOMAIN documents |-> documents[i].id]
  /\ Len(x.widths) = Len(documents)
  /\ \A i \in DOMAIN x.widths : x.widths[i] = x.dimensions
  /\ x.dimensions > 0 /\ x.finite

-----------------------------------------------------------------------------
(* rank_documents: the language is filtered before ranking; equal scores   *)
(* are ordered by id.                                                      *)
Before(score, d, e) ==
  \/ score[d.id] > score[e.id]
  \/ score[d.id] = score[e.id] /\ d.id < e.id

RankDocuments(documents, score, language) ==
  LET mine == {d \in ToSet(documents) : d.language = language}
      Place(d) == Cardinality({e \in mine : Before(score, e, d)}) + 1
  IN  [i \in 1..Cardinality(mine) |-> CHOOSE d \in mine : Place(d) = i]

ScoreAt(ranked, score, i) == IF i <= Len(ranked) THEN score[ranked[i].id] ELSE -100

(* The places of the first top_k that reach the bound.                     *)
Reached(ranked, score, w) ==
  {i \in 1..Len(ranked) : i <= w.top_k /\ score[ranked[i].id] >= w.min_score}

(* Nothing matches when the best score is below the bound or too close to  *)
(* the second; otherwise the ranking does, up to top_k or the bound.       *)
BugMatches(documents, score, language, w) ==
  LET ranked == RankDocuments(documents, score, language)
  IN  IF ScoreAt(ranked, score, 1) < w.min_score THEN <<>>
      ELSE SubSeq(ranked, 1, Cardinality(Reached(ranked, score, w)))

Matches(documents, score, language, w) ==
  LET ranked == RankDocuments(documents, score, language)
      best == ScoreAt(ranked, score, 1)
      second == ScoreAt(ranked, score, 2)
  IN  IF best < w.min_score \/ best - second < w.min_margin THEN <<>>
      ELSE SubSeq(ranked, 1, Cardinality(Reached(ranked, score, w)))

ValidRetriever(w) ==
  /\ w.top_k \in 1..3
  /\ w.min_score \in -100..100 /\ w.min_margin \in 0..200

(* do_POST: the status of each outcome.                                    *)
HttpStatus(outcome) ==
  CASE outcome = "refused"  -> 400
    [] outcome = "busy"     -> 503
    [] outcome = "backend"  -> 502
    [] outcome = "no_match" -> 404
    [] outcome = "ok"       -> 200
=============================================================================
