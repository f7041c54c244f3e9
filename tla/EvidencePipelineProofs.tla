----------------------- MODULE EvidencePipelineProofs -----------------------
(***************************************************************************)
(* Proofs about EvidencePipeline, for any training data, any measurements, *)
(* any number of commands and any number of changes between them: what the *)
(* files and the children of a command are, that the corpus is made of the *)
(* operator's real turns, and that a verdict was earned by its run.        *)
(***************************************************************************)
EXTENDS EvidencePipeline, FiniteSetTheorems, TLAPS

Ready == "READY_FOR_PHYSICAL_ADMISSION"
Pass == "PASS_REFLEX_PHYSICAL_ADMISSION"

(* The stages in which the importer has a review of its own, in which the  *)
(* runner measures, and in which a corpus with enough turns stands.        *)
Holding == {"open_review", "write_review", "write_corpus", "write_summary"}
Measuring == {"benchmark", "await_end", "adjudicate"}
Physical == {"physical", "physicaled"} \cup Served
Shapely == {"preflight", "preflighted"} \cup Physical

(* A review says of each row what the operator said of it last, where no   *)
(* torn write has lost that.                                               *)
Kept(d) == IF d \in lost THEN "unreviewed" ELSE said[d]
Agrees(of) ==
  /\ DOMAIN of \subseteq AllDigests /\ of = [ d \in DOMAIN of |-> of[d] ]
  /\ \A d \in AllDigests : Kept(d) = IF d \in DOMAIN of THEN of[d] ELSE "unreviewed"

ReviewInv ==
  /\ review = [ ok |-> review.ok, of |-> review.of ]
  /\ pc # "write_review" => Agrees(review.of)
  /\ pc \in Holding =>
       /\ Agrees(pending) /\ DOMAIN pending = UniqueReady(rows)
       /\ asserted => \A d \in DOMAIN pending : pending[d] # "demo"
  /\ pc \in {"write_corpus", "write_summary"} => review.of = pending

(* The corpus that the data, the review and the flag of the command make.  *)
Final == FinalRows(rows, review.of, asserted)
CorpusInv ==
  /\ pc \in {"import"} \cup Holding => summary = None
  /\ pc = "write_summary" => corpus = Final
  /\ pc = "imported" /\ summary # None /\ summary.sufficient => corpus = Final
  /\ pc \in Shapely => corpus = Final

PrerequisitesInv ==
  /\ pc = "preflight" => preflight = None
  /\ pc = "preflighted" /\ preflight = Ready => Prerequisites
  /\ pc \in Physical => preflight = Ready /\ Prerequisites

(* The processes of this command, when none of a killed runner's voices    *)
(* was at work as it began.                                                *)
Busy(n) == speaker[n] \in {"loading", "speaking"}
ChildrenInv ==
  /\ NothingLeftRunning
  /\ pc = "adjudicate" => ~Busy(runs)
  /\ pc \notin Served \cup {"physicaled"} => ~proof.alone
  /\ pc \in Served /\ proof.alone =>
       /\ \A n \in Commands : n # runs \/ pc = "await_server" => ~Busy(n)
       /\ pc = "await_server" => ~ready
       /\ (pc = "await_voice" /\ ready) \/ pc \in Measuring => speaker[runs] # "loading"

(* What the runner knows of the measurement, and what was so.              *)
ProofShape == [ loaded : BOOLEAN, clean : BOOLEAN, own : BOOLEAN, alone : BOOLEAN, cut : BOOLEAN ]
OutcomeShape == [ alive : BOOLEAN, voiceOk : BOOLEAN, admissionOk : BOOLEAN ]
OutcomeInv ==
  /\ proof \in ProofShape
  /\ outcome \in OutcomeShape
  /\ pc = "benchmark" /\ proof.alone /\ speaker[runs] = "speaking" => proof.loaded
  /\ pc \in {"await_end", "adjudicate"} =>
       (outcome.alive /\ proof.alone => proof.loaded) /\ (outcome.admissionOk => proof.clean)
  /\ pc \in Served /\ proof.alone /\ voice # None => (voice.verdict = "PASS" => proof.own)
  /\ pc \in {"physical"} \cup (Served \ {"cleanup"}) => physical = None
  /\ pc = "cleanup" /\ physical = Pass => ~Busy(runs)
  /\ pc \in {"cleanup", "physicaled"} /\ physical = Pass =>
       proof.clean /\ (proof.alone => proof.loaded /\ proof.own)

(* A torn report is one that a child of this command left.                 *)
TornInv ==
  /\ pc = "imported" /\ summary # None /\ ~summary.whole => proof.cut
  /\ pc = "preflighted" /\ preflight = "torn" => proof.cut
  /\ pc = "cleanup" => physical # "torn"
  /\ pc = "physicaled" /\ physical = "torn" => proof.cut

(* The inductive invariant.                                                *)
PipelineInv ==
  /\ RunInv /\ runs \in 0..MaxRuns /\ (~AtRest => runs \in Commands) /\ asserted \in BOOLEAN /\ execute \in BOOLEAN
  /\ ReviewInv /\ CorpusInv /\ PrerequisitesInv /\ ChildrenInv /\ OutcomeInv /\ TornInv

-----------------------------------------------------------------------------
(* Natural numbers: a set that has one has a least one, and so a set that  *)
(* has 0 and with each number the next has all.                            *)
LEMMA LeastBy ==
    ASSUME NEW R, IsWellFoundedOn(R, Nat), \A x, y \in Nat : y < x => <<y, x>> \in R,
           NEW T \in SUBSET Nat, T # {}
    PROVE  \E x \in T : \A y \in T : x <= y
<1>1. PICK x \in T : \A y \in T : ~(<<y, x>> \in R) BY WFMin
<1>2. \A y \in T : ~(y < x) BY <1>1
<1>3. \A y \in T : x \in Nat /\ y \in Nat OBVIOUS
<1> QED BY <1>2, <1>3

(* The same for the order of the numbers.                                 *)
LEMMA Least ==
    ASSUME NEW T \in SUBSET Nat, T # {}
    PROVE  \E x \in T : \A y \in T : x <= y
<1>1. ASSUME NEW R, R = OpToRel(<, Nat) PROVE  \E x \in T : \A y \in T : x <= y
  <2>1. IsWellFoundedOn(R, Nat) BY <1>1, NatLessThanWellFounded
  <2>2. \A x, y \in Nat : y < x => <<y, x>> \in R BY <1>1 DEF OpToRel
  <2> QED BY <2>1, <2>2, LeastBy
<1> QED BY <1>1

(* Induction, for a set.                                                  *)
LEMMA Inductive ==
    ASSUME NEW S \in SUBSET Nat, 0 \in S, \A n \in S : n + 1 \in S
    PROVE  Nat = S
<1> SUFFICES ASSUME Nat \ S # {} PROVE FALSE OBVIOUS
<1>1. PICK x \in Nat \ S : \A y \in Nat \ S : x <= y BY Least
<1>2. x # 0 /\ x - 1 \in Nat /\ x - 1 < x BY <1>1
<1>3. x - 1 \in S BY <1>1, <1>2
<1>4. x - 1 + 1 = x BY <1>2
<1>5. x \in S BY <1>3, <1>4
<1> QED BY <1>1, <1>5

(* Finitely many numbers have a bound, and one of them is the greatest.    *)
LEMMA Bounded ==
    \A n \in Nat : \A f \in [1..n -> Nat] : \E b \in Nat : \A i \in 1..n : f[i] <= b
<1> DEFINE S == { n \in Nat : \A f \in [1..n -> Nat] : \E b \in Nat : \A i \in 1..n : f[i] <= b }
<1>1. 0 \in S
  <2>1. \A f \in [1..0 -> Nat] : \A i \in 1..0 : f[i] <= 0 OBVIOUS
  <2> QED BY <2>1
<1>2. ASSUME NEW n \in S PROVE n + 1 \in S
  <2>0. n \in Nat /\ n + 1 \in Nat OBVIOUS
  <2>b. \A f \in [1..n -> Nat] : \E b \in Nat : \A i \in 1..n : f[i] <= b
    <3>1. n \in { m \in Nat : \A f \in [1..m -> Nat] : \E b \in Nat : \A i \in 1..m : f[i] <= b } BY Zenon
    <3> HIDE DEF S
    <3> QED BY <3>1, Zenon
  <2> SUFFICES \A f \in [1..(n + 1) -> Nat] : \E b \in Nat : \A i \in 1..(n + 1) : f[i] <= b
    BY <2>0
  <2> TAKE f \in [1..(n + 1) -> Nat]
  <2>1. [i \in 1..n |-> f[i]] \in [1..n -> Nat] OBVIOUS
  <2>2. PICK b \in Nat : \A i \in 1..n : f[i] <= b BY <2>b, <2>1
  <2>3. \A i \in 1..(n + 1) : f[i] <= b + f[n + 1]
    <3>1. f[n + 1] \in Nat BY <2>0
    <3>2. \A i \in 1..(n + 1) : f[i] \in Nat /\ (i = n + 1 \/ i \in 1..n) BY <2>0
    <3> QED BY <2>2, <3>1, <3>2
  <2>4. b + f[n + 1] \in Nat BY <2>0
  <2> QED BY <2>3, <2>4
<1> HIDE DEF S
<1>3. S \in SUBSET Nat BY DEF S
<1>4. Nat = S BY <1>1, <1>2, <1>3, Inductive
<1> QED BY <1>4 DEF S

(* ... and, if there are any, a greatest one.                              *)
LEMMA Greatest ==
    ASSUME NEW n \in Nat \ {0}, NEW f \in [1..n -> Nat]
    PROVE  \E k \in 1..n : \A i \in 1..n : f[i] <= f[k]
<1> DEFINE B == { b \in Nat : \A i \in 1..n : f[i] <= b }
<1>1. B # {} BY Bounded
<1>2. PICK b \in B : \A c \in B : b <= c
  <2> HIDE DEF B
  <2>1. B \in SUBSET Nat BY DEF B
  <2> QED BY <1>1, <2>1, Least
<1>3. \E k \in 1..n : f[k] = b
  <2> SUFFICES ASSUME \A i \in 1..n : f[i] # b PROVE FALSE OBVIOUS
  <2>1. \A i \in 1..n : f[i] < b BY <1>2
  <2>2. b \in Nat /\ b # 0 BY <1>2, <2>1
  <2>3. b - 1 \in B BY <2>1, <2>2
  <2> QED BY <1>2, <2>2, <2>3
<1> QED BY <1>2, <1>3

-----------------------------------------------------------------------------
(* admission.py _nearest_rank: the value at the rank of 95 percent is not  *)
(* exceeded by 95 of 100 values.                                           *)
LEMMA RankReached ==
    ASSUME NEW n \in Nat \ {0}, NEW f \in [1..n -> Nat]
    PROVE  /\ NearestRank(f, 95) \in Nat
           /\ 100 * Cardinality({ i \in 1..n : f[i] <= NearestRank(f, 95) }) >= 95 * n
<1> DEFINE NotAbove(v) == { i \in DOMAIN f : f[i] <= v }
           rank == (95 * n + 99) \div 100
           needed == IF rank = 0 THEN 1 ELSE rank
           V == { v \in Range(f) : Cardinality(NotAbove(v)) >= needed }
<1>1. f \in Seq(Nat) /\ Len(f) = n /\ DOMAIN f = 1..n OBVIOUS
<1>2. NearestRank(f, 95) = Min(V) BY <1>1 DEF NearestRank
<1>3. rank \in Nat /\ needed \in Nat /\ needed >= rank /\ 100 * rank >= 95 * n /\ needed <= n
  <2>1. rank \in Nat /\ 100 * rank >= 95 * n /\ 100 * rank <= 95 * n + 99 OBVIOUS
  <2>2. rank <= n BY <2>1
  <2> HIDE DEF rank
  <2> QED BY <2>1, <2>2
<1>4. \A v : IsFiniteSet(NotAbove(v)) /\ Cardinality(NotAbove(v)) \in Nat
  <2> TAKE v
  <2>1. IsFiniteSet(1..n) BY FS_Interval
  <2>2. NotAbove(v) \in SUBSET (1..n) BY <1>1
  <2> HIDE DEF NotAbove
  <2> QED BY <2>1, <2>2, FS_Subset, FS_CardinalityType
<1>5. V # {}
  <2>1. PICK k \in 1..n : \A i \in 1..n : f[i] <= f[k] BY Greatest
  <2>2. NotAbove(f[k]) = 1..n BY <1>1, <2>1
  <2>3. Cardinality(1..n) = n BY FS_Interval
  <2>4. f[k] \in Range(f) BY <1>1 DEF Range
  <2>5. Cardinality(NotAbove(f[k])) >= needed BY <1>3, <2>2, <2>3
  <2> HIDE DEF needed, NotAbove
  <2> QED BY <2>4, <2>5
<1>6. V \in SUBSET Nat BY <1>1 DEF Range
<1>7. Min(V) \in V
  <2> HIDE DEF V
  <2>1. \E x \in V : \A y \in V : x <= y BY <1>5, <1>6, Least
  <2> QED BY <2>1 DEF Min
<1>8. Cardinality(NotAbove(Min(V))) >= needed BY <1>7
<1>9. NotAbove(Min(V)) = { i \in 1..n : f[i] <= NearestRank(f, 95) } BY <1>1, <1>2
<1>10. Min(V) \in Nat BY <1>6, <1>7
<1> HIDE DEF NotAbove, rank, needed, V
<1>11. Cardinality(NotAbove(Min(V))) \in Nat BY <1>4
<1>12. 100 * Cardinality(NotAbove(Min(V))) >= 95 * n BY <1>3, <1>8, <1>11
<1> QED BY <1>2, <1>9, <1>10, <1>12

(* A finite set as a sequence.                                             *)
LEMMA Listed ==
    ASSUME NEW S, IsFiniteSet(S)
    PROVE  /\ Cardinality(S) \in Nat
           /\ SetToSeq(S) \in Injection(1..Cardinality(S), S)
           /\ SetToSeq(S) \in Surjection(1..Cardinality(S), S)
<1> DEFINE n == Cardinality(S)
<1>1. n \in Nat /\ ExistsBijection(1..n, S) BY FS_CardinalityType
<1>2. PICK f \in [1..n -> S] : \A a, b \in 1..n : f[a] = f[b] => a = b
  BY <1>1 DEF ExistsBijection, Bijection, Injection, IsInjective
<1>3. \E g \in [1..n -> S] : IsInjective(g) BY <1>2 DEF IsInjective
<1>4. SetToSeq(S) \in [1..n -> S] /\ IsInjective(SetToSeq(S)) BY <1>3 DEF SetToSeq
<1>5. SetToSeq(S) \in Injection(1..n, S) BY <1>4 DEF Injection
<1>6. Cardinality(1..n) = n BY <1>1, FS_Interval
<1> HIDE DEF n
<1>7. SetToSeq(S) \in Surjection(1..n, S) BY <1>5, <1>6, FS_Injection DEF n
<1> QED BY <1>1, <1>5, <1>7 DEF n

(* evaluate_rows: a model that passes answered every turn, missed no tool, *)
(* and was in time for 95 of 100 turns.                                    *)
LEMMA PassesClean ==
    ASSUME NEW T, IsFiniteSet(T), NEW measured \in [T -> Decisions],
           ModelAdmission(measured) = "PASS_REFLEX_MODEL_ADMISSION"
    PROVE  Clean(measured)
<1> DEFINE n == Cardinality(T)
           list == SetToSeq(T)
           f == [ i \in 1..n |-> measured[list[i]].ms ]
           quick == { i \in 1..n : f[i] <= NearestRank(f, 95) }
           inTime == { d \in T : measured[d].ms <= MaxP95 }
<1>1. DOMAIN measured = T OBVIOUS
<1>2. /\ Sufficient(T)
      /\ { d \in T : ~measured[d].ok } = {}
      /\ { d \in Positives(T) : measured[d].ok /\ ~measured[d].tool } = {}
      /\ NearestRank(f, 95) <= MaxP95
  BY <1>1 DEF ModelAdmission
<1>3. \A d \in T : measured[d].ok /\ (ToolNeeded(d) => measured[d].tool)
  BY <1>2 DEF Positives
<1>4. n \in Nat \ {0} /\ list \in [1..n -> T] /\ \A a, b \in 1..n : list[a] = list[b] => a = b
  <2>1. n \in Nat /\ list \in Injection(1..n, T) BY Listed
  <2>2. n >= MinReal BY <1>2 DEF Sufficient
  <2> HIDE DEF n, list
  <2> QED BY <2>1, <2>2, EvidenceAssumption DEF Injection, IsInjective
<1>5. f \in [1..n -> Nat]
  <2> HIDE DEF n, list
  <2> QED BY <1>4, PipelineAssumption
<1>6. NearestRank(f, 95) \in Nat /\ 100 * Cardinality(quick) >= 95 * n
  <2> HIDE DEF n, f
  <2> QED BY <1>4, <1>5, RankReached
<1>7. IsFiniteSet(inTime) /\ Cardinality(inTime) \in Nat BY FS_Subset, FS_CardinalityType
<1>8. IsFiniteSet(quick) /\ Cardinality(quick) \in Nat
  <2>1. IsFiniteSet(1..n) BY <1>4, FS_Interval
  <2> HIDE DEF n, f
  <2> QED BY <2>1, FS_Subset, FS_CardinalityType
<1>9. Cardinality(quick) <= Cardinality(inTime)
  <2> DEFINE g == [ i \in quick |-> list[i] ]
  <2>1. g \in Injection(quick, inTime)
    <3>1. \A i \in quick : i \in 1..n /\ list[i] \in T /\ measured[list[i]].ms <= MaxP95
      <4>1. \A i \in quick : i \in 1..n /\ f[i] <= NearestRank(f, 95) /\ f[i] = measured[list[i]].ms OBVIOUS
      <4> HIDE DEF f, quick
      <4>2. \A i \in 1..n : f[i] \in Nat BY <1>5
      <4> HIDE DEF n, list
      <4>3. \A i \in quick : f[i] <= MaxP95 BY <4>1, <4>2, <1>2, <1>6, EvidenceAssumption
      <4> QED BY <4>1, <4>3, <1>4
    <3> HIDE DEF quick, list, n
    <3> QED BY <3>1, <1>4 DEF Injection, IsInjective
  <2> HIDE DEF g, quick, inTime
  <2> QED BY <2>1, <1>7, FS_Injection
<1> HIDE DEF n, f, list, quick
<1>10. 100 * Cardinality(inTime) >= 95 * n BY <1>4, <1>6, <1>7, <1>8, <1>9
<1> QED BY <1>1, <1>3, <1>10 DEF Clean, n

-----------------------------------------------------------------------------
(* What is in one of the sequences of a sequence is in their concatenation. *)
Joined(seqs, m, f) == f = [ i \in 1..m |-> IF i = 1 THEN seqs[i] ELSE f[i - 1] \o seqs[i] ]

(* There is a function that the recursion of FlattenSeq defines.           *)
LEMMA Joins ==
    ASSUME NEW n \in Nat, NEW seqs
    PROVE  \A m \in Nat : \E f : Joined(seqs, m, f)
<1> DEFINE S == { m \in Nat : \E f : Joined(seqs, m, f) }
<1>1. 0 \in S
  <2>1. Joined(seqs, 0, [ i \in 1..0 |-> i ]) BY DEF Joined
  <2> QED BY <2>1
<1>2. ASSUME NEW m \in S PROVE m + 1 \in S
  <2>1. m \in Nat OBVIOUS
  <2>2. PICK f : Joined(seqs, m, f) OBVIOUS
  <2> DEFINE g == [ i \in 1..(m + 1) |-> 
                 IF i <= m THEN f[i] ELSE IF i = 1 THEN seqs[i] ELSE f[i - 1] \o seqs[i] ]
  <2>3. \A i \in 1..(m + 1) : g[i] = IF i = 1 THEN seqs[i] ELSE g[i - 1] \o seqs[i]
    <3> TAKE i \in 1..(m + 1)
    <3>1. CASE i <= m
      <4>0. i \in 1..m BY <2>1, <3>1
      <4>1. f[i] = IF i = 1 THEN seqs[i] ELSE f[i - 1] \o seqs[i]
        <5> HIDE DEF g, S
        <5> QED BY <2>2, <4>0 DEF Joined
      <4>2. i # 1 => i - 1 \in 1..(m + 1) /\ i - 1 <= m BY <2>1, <3>1
      <4> QED BY <4>1, <4>2, <3>1
    <3>2. CASE ~(i <= m)
      <4>1. i # 1 => i - 1 \in 1..(m + 1) /\ i - 1 <= m BY <2>1, <3>2
      <4> QED BY <4>1, <3>2
    <3> QED BY <3>1, <3>2
  <2>4. Joined(seqs, m + 1, g) 
    <3>1. g = [ i \in 1..(m + 1) |-> g[i] ] OBVIOUS
    <3> HIDE DEF g
    <3> QED BY <2>3, <3>1 DEF Joined
  <2> HIDE DEF g
  <2> QED BY <2>1, <2>4
<1> HIDE DEF S
<1>3. S \in SUBSET Nat BY DEF S
<1>4. Nat = S BY <1>1, <1>2, <1>3, Inductive
<1> QED BY <1>4 DEF S

(* By induction on how many of the sequences have been joined.             *)
LEMMA Flattened ==
    ASSUME NEW V, NEW n \in Nat \ {0}, NEW seqs \in [1..n -> Seq(V)],
           NEW i \in 1..n, NEW k \in 1..Len(seqs[i])
    PROVE  \E j \in DOMAIN FlattenSeq(seqs) : FlattenSeq(seqs)[j] = seqs[i][k]
<1> DEFINE flat == CHOOSE f : f = [ m \in 1..n |-> IF m = 1 THEN seqs[m] ELSE f[m - 1] \o seqs[m] ]
<1>1. seqs \in Seq(Seq(V)) /\ Len(seqs) = n OBVIOUS
<1>2. FlattenSeq(seqs) = flat[n] BY <1>1 DEF FlattenSeq
<1>3. flat = [ m \in 1..n |-> IF m = 1 THEN seqs[m] ELSE flat[m - 1] \o seqs[m] ]
  <2>1. \E f : f = [ m \in 1..n |-> IF m = 1 THEN seqs[m] ELSE f[m - 1] \o seqs[m] ]
    BY Joins DEF Joined
  <2> QED BY <2>1
<1> HIDE DEF flat
<1>s. \A x \in 1..n : flat[x] = IF x = 1 THEN seqs[x] ELSE flat[x - 1] \o seqs[x] BY <1>3
<1> DEFINE Has(m) == /\ flat[m] \in Seq(V)
                     /\ i <= m => \E j \in 1..Len(flat[m]) : flat[m][j] = seqs[i][k]
           S == { m \in Nat : m + 1 <= n => Has(m + 1) }
<1>4. 0 \in S
  <2>1. flat[1] = seqs[1] BY <1>3
  <2> QED BY <2>1, SMTT(30)
<1>5. ASSUME NEW m \in S PROVE m + 1 \in S
  <2>1. m \in Nat /\ (m + 1 <= n => Has(m + 1)) OBVIOUS
  <2> SUFFICES ASSUME m + 2 <= n PROVE Has(m + 2)
    <3>1. m + 1 \in Nat /\ m + 1 + 1 = m + 2 BY <2>1
    <3> HIDE DEF Has
    <3> QED BY <3>1
  <2> HIDE DEF S
  <2>2. Has(m + 1) BY <2>1
  <2>3. flat[m + 2] = flat[m + 1] \o seqs[m + 2]
    <3>1. m + 2 \in 1..n /\ m + 2 # 1 /\ m + 2 - 1 = m + 1 BY <2>1
    <3>2. ASSUME NEW x \in 1..n, x = m + 2 PROVE flat[x] = flat[m + 1] \o seqs[x]
      <4>1. x # 1 /\ x - 1 = m + 1 BY <2>1, <3>2
      <4>2. flat[x] = flat[x - 1] \o seqs[x]
        <5> HIDE DEF Has
        <5> QED BY <1>s, <4>1, Zenon
      <4> QED BY <4>1, <4>2
    <3> QED BY <3>1, <3>2
  <2>4. flat[m + 1] \in Seq(V) /\ seqs[m + 2] \in Seq(V) BY <2>1, <2>2
  <2>5. /\ flat[m + 2] \in Seq(V)
        /\ \A j \in 1..Len(flat[m + 1]) : j \in 1..Len(flat[m + 2]) /\ flat[m + 2][j] = flat[m + 1][j]
        /\ \A j \in 1..Len(seqs[m + 2]) :
             /\ Len(flat[m + 1]) + j \in 1..Len(flat[m + 2])
             /\ flat[m + 2][Len(flat[m + 1]) + j] = seqs[m + 2][j]
    <3> DEFINE s == flat[m + 1]
               t == seqs[m + 2]
    <3>1. s \in Seq(V) /\ t \in Seq(V) /\ flat[m + 2] = s \o t BY <2>3, <2>4
    <3> HIDE DEF s, t, Has
    <3>2. s \o t \in Seq(V) /\ Len(s \o t) = Len(s) + Len(t) /\ Len(s) \in Nat /\ Len(t) \in Nat BY <3>1
    <3>3. /\ \A j \in 1..Len(s) : (s \o t)[j] = s[j]
          /\ \A j \in 1..Len(t) : (s \o t)[Len(s) + j] = t[j]
      BY <3>1
    <3>4. /\ \A j \in 1..Len(s) : j \in 1..Len(s \o t)
          /\ \A j \in 1..Len(t) : Len(s) + j \in 1..Len(s \o t)
      BY <3>2
    <3>5. /\ flat[m + 2] \in Seq(V)
          /\ \A j \in 1..Len(s) : j \in 1..Len(flat[m + 2]) /\ flat[m + 2][j] = s[j]
          /\ \A j \in 1..Len(t) : Len(s) + j \in 1..Len(flat[m + 2]) /\ flat[m + 2][Len(s) + j] = t[j]
      BY <3>1, <3>2, <3>3, <3>4, Zenon
    <3> QED BY <3>5 DEF s, t
  <2>6. i <= m + 2 => i <= m + 1 \/ i = m + 2 BY <2>1
  <2> QED BY <2>2, <2>5, <2>6
<1> HIDE DEF S
<1>6. S \in SUBSET Nat BY DEF S
<1>7. Nat = S BY <1>4, <1>5, <1>6, Inductive
<1>8. Has(n)
  <2>1. n - 1 \in Nat /\ n - 1 + 1 = n OBVIOUS
  <2>2. n - 1 \in S BY <1>7, <2>1
  <2> HIDE DEF Has
  <2> QED BY <2>1, <2>2 DEF S
<1> QED BY <1>2, <1>8

-----------------------------------------------------------------------------
(* The command between its children.                                       *)
Deciding ==
  NoSummary \/ Raises \/ TooFew \/ Shaped \/ Preflight \/ PreflightDies \/ StopsShort \/ GoesOn \/ Finish

(* A step is a step of one of them.                                        *)
LEMMA StepsApart ==
    ASSUME [Next]_vars
    PROVE  Importing \/ Deciding \/ Runner \/ Children \/ Operator \/ Kill \/ UNCHANGED vars
  BY DEF Next, Program, Deciding

(* The importer writes the review, the corpus and the summary.             *)
LEMMA ImporterLeaves ==
    ASSUME Importing
    PROVE  /\ UNCHANGED <<rows, host, said, preflight, physical, state, ready, admission, voice, server, speaker, dead>>
           /\ UNCHANGED <<asserted, execute, outcome, runs, changes>>
           /\ pc \in {"import"} \cup Holding /\ pc' \in {"imported"} \cup Holding
           /\ ~ImporterDies => UNCHANGED <<lost, proof>>
           /\ ~ImporterDies /\ ~WriteCorpus => UNCHANGED corpus
           /\ ImporterDies => CutReview /\ CutCorpus /\ proof' = [ proof EXCEPT !.cut = summary' # None ]
  BY DEF Importing, ImportReads, OpenReview, WriteReview, WriteCorpus, WriteSummary, ImporterDies, Importer,
         Holding, sources, command, witness, processes, counts

(* The command between its children writes the state, and may forget what  *)
(* the preflight and the runner of the last command found.                 *)
LEMMA DecidingLeaves ==
    ASSUME Deciding
    PROVE  /\ UNCHANGED <<rows, host, said, lost, review, corpus, summary, ready, admission, voice>>
           /\ UNCHANGED <<server, speaker, dead, runs, changes>>
           /\ asserted' \in {asserted, FALSE} /\ execute' \in {execute, FALSE}
           /\ ~Preflight /\ ~PreflightDies /\ ~Shaped => UNCHANGED preflight
           /\ ~GoesOn => UNCHANGED physical
           /\ NoSummary \/ TooFew \/ StopsShort \/ Finish \/ UNCHANGED state
           /\ pc \in {"imported"} \cup Shapely /\ pc' \in {"idle", "preflight", "preflighted", "physical"}
           /\ pc' = "idle" => NoSummary \/ Raises \/ TooFew \/ StopsShort \/ Finish
  BY DEF Deciding, NoSummary, Raises, Unreadable, TooFew, Shaped, Preflight, PreflightDies, StopsShort, GoesOn, Finish,
         Conclude, Classify, Forget, Shapely, Physical, Served, sources, files, command, witness, processes, counts

(* The runner writes only what the witness and the measurement leave.      *)
LEMMA RunnerLeaves ==
    ASSUME Runner
    PROVE  /\ UNCHANGED <<rows, host, said, lost, review, corpus, summary, preflight, state>>
           /\ UNCHANGED <<asserted, execute, pending, runs, changes>>
           /\ pc \in Physical \ {"physicaled"} /\ pc' \in Physical
  BY DEF Runner, RunnerDies, RunnerFails, Cleanup, StartServer, StartVoice, StartBenchmark, Grade, GradeFails,
         Benchmarked, VoiceReaped, VoiceTimeout, VoiceEnded, Adjudicate, Physical, Served,
         sources, files, command, counts

(* The children write only what they measure.                              *)
LEMMA ChildrenLeave ==
    ASSUME Children
    PROVE  /\ UNCHANGED <<rows, host, said, lost, review, corpus, summary, preflight, physical, state, admission>>
           /\ UNCHANGED <<pc, asserted, execute, pending, outcome, dead, runs, changes>>
  BY DEF Children, ServerUp, ServerDies, VoiceReady, VoiceFinishes, VoiceDies, sources, files, witness,
         command, counts

(* A kill leaves the files it does not cut, and every process, as it was.  *)
LEMMA KillLeaves ==
    ASSUME Kill
    PROVE  /\ UNCHANGED <<rows, host, said, state, ready, admission, voice, server, speaker, runs, changes>>
           /\ ~AtRest /\ pc' = "killed" /\ asserted' = FALSE /\ execute' = FALSE /\ pending' = <<>>
           /\ outcome' = NoOutcome /\ proof' = NoProof
           /\ CutReview /\ CutCorpus /\ CutPreflight /\ CutPhysical /\ Orphans
  BY DEF Kill, Forget, witness, counts

(* The operator comes only between two commands.                           *)
LEMMA OperatorLeaves ==
    ASSUME Operator
    PROVE  /\ UNCHANGED <<corpus, preflight, physical, state, ready, admission, voice, server, speaker, dead>>
           /\ UNCHANGED <<pending, outcome, proof>>
           /\ pc \in {"idle", "killed"}
           /\ (pc' = pc /\ UNCHANGED <<summary, runs, asserted, execute>>)
                \/ \E a, e \in BOOLEAN : Begin(a, e)
  <1>1. ASSUME NEW a \in BOOLEAN, NEW e \in BOOLEAN, Begin(a, e)
        PROVE  /\ UNCHANGED <<corpus, preflight, physical, state, ready, admission, voice, server, speaker, dead>>
               /\ UNCHANGED <<pending, outcome, proof>>
               /\ pc \in {"idle", "killed"}
    BY <1>1 DEF Begin, AtRest, witness, processes
  <1>2. ASSUME ~\E a, e \in BOOLEAN : Begin(a, e)
        PROVE  /\ UNCHANGED <<corpus, preflight, physical, state, ready, admission, voice, server, speaker, dead>>
               /\ UNCHANGED <<pending, outcome, proof, pc, summary, runs, asserted, execute>>
               /\ pc \in {"idle", "killed"}
    BY <1>2 DEF Operator, DropRow, ClassifyRow, SpoilReview, RepairReview, Edit, Move, AtRest,
           files, witness, processes, command
  <1> QED BY <1>1, <1>2

(* The rows of the data at hand are known, and finitely many.              *)
LEMMA KnownRows ==
    ASSUME rows \in Sources
    PROVE  UniqueReady(rows) \subseteq AllDigests
  BY DEF AllDigests

(* The review of an operator's file, extended to the data at hand.         *)
LEMMA ReviewAgrees ==
    ASSUME rows \in Sources, Agrees(review.of), ReviewAccepted(rows, review.of)
    PROVE  /\ Agrees(ReviewOf(rows, review.of)) /\ DOMAIN ReviewOf(rows, review.of) = UniqueReady(rows)
           /\ "demo" \notin Range(review.of) =>
                \A d \in UniqueReady(rows) : ReviewOf(rows, review.of)[d] # "demo"
<1>1. UniqueReady(rows) \subseteq AllDigests BY KnownRows
<1> HIDE DEF AllDigests
<1> QED BY <1>1 DEF Agrees, ReviewAccepted, ReviewOf, Range

(* What is left of a review that was cut short: what it still says of a    *)
(* row is what the operator said.                                          *)
LEMMA CutAgrees ==
    ASSUME ReviewInv, pc = "write_review", CutReview, UNCHANGED said
    PROVE  /\ review' = [ ok |-> review'.ok, of |-> review'.of ]
           /\ Agrees(review.of)'
<1>1. PICK k \in 0..Len(rows), whole \in BOOLEAN :
        LET kept == { d \in DOMAIN pending : d \in UniqueReady(SubSeq(rows, 1, k)) }
        IN /\ review' = [ ok |-> whole, of |-> Restrict(pending, kept) ]
           /\ lost' = lost \cup { d \in AllDigests : said[d] # "unreviewed" /\ d \notin kept }
  BY DEF CutReview
<1> DEFINE kept == { d \in DOMAIN pending : d \in UniqueReady(SubSeq(rows, 1, k)) }
           of == [ d \in kept |-> pending[d] ]
<1>2. /\ review' = [ ok |-> whole, of |-> of ]
      /\ lost' = lost \cup { d \in AllDigests : said[d] # "unreviewed" /\ d \notin kept }
  BY <1>1 DEF Restrict
<1>3. kept \subseteq DOMAIN pending OBVIOUS
<1> HIDE DEF kept
<1>4. Agrees(pending) BY DEF ReviewInv, Holding
<1>5. DOMAIN of = kept /\ of = [ d \in DOMAIN of |-> of[d] ] /\ \A d \in kept : of[d] = pending[d] OBVIOUS
<1> HIDE DEF of
<1>6. \A d \in AllDigests : Kept(d)' = IF d \in kept THEN of[d] ELSE "unreviewed"
  BY <1>2, <1>3, <1>4, <1>5 DEF Agrees, Kept
<1>7. UNCHANGED AllDigests BY DEF AllDigests
<1> HIDE DEF AllDigests
<1> QED BY <1>2, <1>3, <1>4, <1>5, <1>6, <1>7 DEF Agrees

(* Every step keeps the review in step with the operator.                  *)
LEMMA ReviewStep ==
    ASSUME PipelineInv, [Next]_vars
    PROVE  ReviewInv'
<1> ReviewInv /\ rows \in Sources /\ said \in [AllDigests -> Classes] BY DEF PipelineInv, RunInv, TypeOK
<1> USE DEF Holding, Kept
<1>1. CASE ImportReads
  BY <1>1, ReviewAgrees DEF ImportReads, Rejected, ReviewInv, Agrees, sources
<1>2. CASE OpenReview BY <1>2 DEF OpenReview, ReviewInv, Agrees, EmptyReview, sources, command
<1>3. CASE WriteReview BY <1>3 DEF WriteReview, ReviewInv, Agrees, sources, command
<1>4. CASE WriteCorpus \/ WriteSummary BY <1>4 DEF WriteCorpus, WriteSummary, ReviewInv, Agrees, sources, command
<1>5. CASE ImporterDies \/ Kill
  <2>1. CutReview /\ UNCHANGED said /\ pc' \in {"imported", "killed"}
    BY <1>5, KillLeaves DEF ImporterDies
  <2>2. CASE pc = "write_review" BY <2>1, <2>2, CutAgrees DEF ReviewInv
  <2>3. CASE pc # "write_review" BY <2>1, <2>3 DEF CutReview, ReviewInv, Agrees
  <2> QED BY <2>2, <2>3
<1>6. CASE Deciding BY <1>6, DecidingLeaves DEF ReviewInv, Agrees, Shapely, Physical, Served
<1>7. CASE Runner BY <1>7, RunnerLeaves DEF ReviewInv, Agrees, Physical, Served
<1>8. CASE Children BY <1>8, ChildrenLeave DEF ReviewInv, Agrees
<1>10. CASE Operator
  <2>1. ASSUME NEW a \in BOOLEAN, NEW e \in BOOLEAN, Begin(a, e) PROVE ReviewInv'
    BY <2>1 DEF Begin, AtRest, ReviewInv, Agrees, sources
  <2>2. ASSUME NEW d \in AllDigests, NEW of, NEW class, pc \notin Holding, UNCHANGED <<rows, pc, pending, asserted>>,
               review' = [ ok |-> review.ok, of |-> of ], DOMAIN of \subseteq AllDigests, of = [ c \in DOMAIN of |-> of[c] ],
               DOMAIN of \ {d} = DOMAIN review.of \ {d}, \A c \in DOMAIN of \ {d} : of[c] = review.of[c],
               Says(d, class), class = IF d \in DOMAIN of THEN of[d] ELSE "unreviewed"
        PROVE  ReviewInv'
    <3>2. Agrees(review.of) BY <2>2 DEF ReviewInv
    <3>3. \A c \in AllDigests : Kept(c)' = IF c = d THEN class ELSE Kept(c)
      BY <2>2 DEF Says
    <3>4. Agrees(review.of)' BY <2>2, <3>2, <3>3 DEF Agrees
    <3> QED BY <2>2, <3>4 DEF ReviewInv, Holding
  <2>3. ASSUME NEW d \in AllDigests, NEW class \in Classes, DropRow(d) \/ ClassifyRow(d, class) PROVE ReviewInv'
    <3>1. /\ d \in DOMAIN review.of /\ DOMAIN review.of \subseteq AllDigests /\ pc \notin Holding
          /\ review = [ ok |-> review.ok, of |-> review.of ] /\ review.of = [ c \in DOMAIN review.of |-> review.of[c] ]
          /\ UNCHANGED <<rows, pc, pending, asserted>>
      BY <2>3 DEF DropRow, ClassifyRow, Edit, AtRest, ReviewInv, Agrees, command
    <3>2. CASE DropRow(d)
      <4> DEFINE of == [ c \in DOMAIN review.of \ {d} |-> review.of[c] ]
      <4>1. review' = [ ok |-> review.ok, of |-> of ] /\ Says(d, "unreviewed")
        BY <3>1, <3>2 DEF DropRow, Edit, Restrict
      <4>2. /\ DOMAIN of = DOMAIN review.of \ {d} /\ of = [ c \in DOMAIN of |-> of[c] ]
            /\ \A c \in DOMAIN of \ {d} : of[c] = review.of[c]
        OBVIOUS
      <4> HIDE DEF of
      <4> QED BY <3>1, <4>1, <4>2, <2>2
    <3>3. CASE ClassifyRow(d, class)
      <4> DEFINE of == [ c \in DOMAIN review.of |-> IF c = d THEN class ELSE review.of[c] ]
      <4>1. review' = [ ok |-> review.ok, of |-> of ] /\ Says(d, class)
        BY <3>1, <3>3 DEF ClassifyRow, Edit
      <4>2. /\ DOMAIN of = DOMAIN review.of /\ of = [ c \in DOMAIN of |-> of[c] ]
            /\ \A c \in DOMAIN of \ {d} : of[c] = review.of[c]
            /\ d \in DOMAIN of => of[d] = class
        OBVIOUS
      <4> HIDE DEF of
      <4> QED BY <3>1, <4>1, <4>2, <2>2
    <3> QED BY <2>3, <3>2, <3>3
  <2>4. CASE SpoilReview \/ RepairReview
    BY <2>4 DEF SpoilReview, RepairReview, Edit, AtRest, ReviewInv, Agrees, command
  <2>5. CASE Move
    BY <2>5 DEF Move, AtRest, ReviewInv, Agrees, files, command
  <2> QED BY <1>10, <2>1, <2>3, <2>4, <2>5 DEF Operator, Classes
<1>11. CASE UNCHANGED vars BY <1>11 DEF vars, ReviewInv, Agrees, sources, files, command
<1> QED BY <1>1, <1>2, <1>3, <1>4, <1>5, <1>6, <1>7, <1>8, <1>10, <1>11, StepsApart DEF Importing

(* What the importer makes of the data stays what the corpus is made of.   *)
LEMMA CorpusStep ==
    ASSUME PipelineInv, [Next]_vars
    PROVE  CorpusInv'
<1> CorpusInv /\ ReviewInv BY DEF PipelineInv
<1> USE DEF Holding, Shapely, Physical, Served
<1>1. CASE Importing
  <2>1. CASE ImporterDies
    BY <2>1 DEF ImporterDies, Importer, CutSummary, TornSummary, Invalid, CorpusInv
  <2> QED BY <1>1, <2>1 DEF Importing, ImportReads, Invalid, OpenReview, WriteReview, WriteCorpus, WriteSummary,
     CorpusInv, ReviewInv, Final, sources, command
<1>2. CASE Deciding
  BY <1>2, DecidingLeaves
     DEF Deciding, NoSummary, Raises, TooFew, Shaped, Preflight, PreflightDies, StopsShort, GoesOn, Finish, Conclude,
         Classify, command, CorpusInv, Final
<1>3. CASE Runner BY <1>3, RunnerLeaves DEF CorpusInv, Final
<1>4. CASE Children BY <1>4, ChildrenLeave DEF CorpusInv, Final
<1>5. CASE Kill BY <1>5 DEF Kill, CorpusInv
<1>6. CASE Operator BY <1>6, OperatorLeaves DEF Begin, CorpusInv
<1>7. CASE UNCHANGED vars BY <1>7 DEF vars, CorpusInv, Final, sources, files, command
<1> QED BY <1>1, <1>2, <1>3, <1>4, <1>5, <1>6, <1>7, StepsApart

(* What the preflight found stays so until the command ends.               *)
LEMMA PrerequisitesStep ==
    ASSUME PipelineInv, [Next]_vars
    PROVE  PrerequisitesInv'
<1> PrerequisitesInv /\ None # Ready BY PipelineAssumption DEF PipelineInv, Ready
<1> USE DEF Holding, Physical, Served, Ready
<1>1. CASE Importing BY <1>1, ImporterLeaves DEF PrerequisitesInv
<1>2. CASE Deciding
  BY <1>2, DecidingLeaves
     DEF Deciding, NoSummary, Raises, TooFew, Shaped, Preflight, PreflightDies, CutPreflight, StopsShort, GoesOn,
         Finish, Conclude, Classify, Executes, PrerequisitesInv, Prerequisites
<1>3. CASE Runner BY <1>3, RunnerLeaves DEF PrerequisitesInv, Prerequisites
<1>4. CASE Children BY <1>4, ChildrenLeave DEF PrerequisitesInv, Prerequisites
<1>5. CASE Kill BY <1>5 DEF Kill, PrerequisitesInv
<1>6. CASE Operator BY <1>6, OperatorLeaves DEF Begin, PrerequisitesInv
<1>7. CASE UNCHANGED vars BY <1>7 DEF vars, PrerequisitesInv, Prerequisites, sources, files
<1> QED BY <1>1, <1>2, <1>3, <1>4, <1>5, <1>6, <1>7, StepsApart

(* A torn report was torn in this command.                                 *)
LEMMA TornStep ==
    ASSUME PipelineInv, [Next]_vars
    PROVE  TornInv'
<1> TornInv /\ CorpusInv /\ PrerequisitesInv /\ proof \in ProofShape /\ None # "torn"
  BY PipelineAssumption DEF PipelineInv, OutcomeInv
<1> USE DEF ProofShape
<1>1. CASE Importing
  <2>1. CASE ImporterDies
    BY <2>1 DEF ImporterDies, Importer, CorpusInv, Holding, TornInv
  <2> QED BY <1>1, <2>1 DEF Importing, ImportReads, OpenReview, WriteReview, WriteCorpus, WriteSummary, SummaryOf,
             Invalid, CorpusInv, Holding, TornInv
<1>2. CASE Deciding
  <2>1. CASE Preflight BY <2>1 DEF Preflight, TornInv
  <2>2. CASE PreflightDies BY <2>2 DEF PreflightDies, PrerequisitesInv, TornInv
  <2> QED BY <1>2, <2>1, <2>2 DEF Deciding, NoSummary, Raises, TooFew, Shaped, StopsShort, GoesOn, Finish, Conclude,
             Classify, TornInv
<1>3. CASE Runner
  <2>1. CASE RunnerDies BY <2>1 DEF RunnerDies, TornInv, Physical, Served, PrerequisitesInv
  <2>2. CASE RunnerFails \/ Cleanup BY <2>2 DEF RunnerFails, Cleanup, TornInv, files
  <2>3. CASE Adjudicate BY <2>3 DEF Adjudicate, Adjudication, TornInv
  <2> QED BY <1>3, <2>1, <2>2, <2>3
          DEF Runner, StartServer, StartVoice, StartBenchmark, Grade, GradeFails, Benchmarked, VoiceReaped,
              VoiceTimeout, VoiceEnded, TornInv
<1>4. CASE Children
  <2>1. proof'.cut = proof.cut
    BY <1>4 DEF Children, ServerUp, ServerDies, VoiceReady, VoiceFinishes, VoiceDies
  <2> QED BY <1>4, <2>1, ChildrenLeave DEF TornInv
<1>5. CASE Kill BY <1>5 DEF Kill, TornInv
<1>6. CASE Operator BY <1>6, OperatorLeaves DEF Begin, TornInv
<1>7. CASE UNCHANGED vars BY <1>7 DEF vars, files, TornInv
<1> QED BY <1>1, <1>2, <1>3, <1>4, <1>5, <1>6, <1>7, StepsApart

(* However the runner goes on or ends, its children are as it left them.   *)
LEMMA ChildrenStep ==
    ASSUME PipelineInv, [Next]_vars
    PROVE  ChildrenInv'
<1> /\ ChildrenInv /\ proof \in ProofShape /\ (~AtRest => runs \in Commands)
    /\ server \in [Commands -> {"off", "starting", "up"}]
    /\ speaker \in [Commands -> {"off", "loading", "speaking", "done"}]
  BY DEF PipelineInv, OutcomeInv, RunInv, TypeOK
<1> UNCHANGED Commands BY DEF Commands
<1> HIDE DEF Commands
<1> USE DEF Served, Measuring, NothingLeftRunning, Running, Busy, ProofShape
<1>1. CASE Importing
  BY <1>1, ImporterLeaves DEF Holding, ChildrenInv
<1>2. CASE Deciding
  <2>1. UNCHANGED proof \/ proof' = NoProof \/ \E x : proof' = [ proof EXCEPT !.cut = x ]
    BY <1>2 DEF Deciding, NoSummary, Raises, TooFew, Shaped, Preflight, PreflightDies, StopsShort, GoesOn, Finish,
                Conclude, Classify, Forget
  <2>2. proof'.alone => proof.alone BY <2>1 DEF NoProof
  <2>3. pc' \notin {"physicaled"} \cup Served /\ pc \notin Served /\ (pc = "physicaled" => proof' = NoProof)
    BY <1>2 DEF Deciding, NoSummary, Raises, Unreadable, TooFew, Shaped, Preflight, PreflightDies, StopsShort, GoesOn,
                Finish, Conclude, Classify, Forget
  <2>4. ~proof'.alone BY <2>2, <2>3 DEF NoProof, ChildrenInv
  <2> QED BY <1>2, <2>3, <2>4, DecidingLeaves DEF ChildrenInv
<1>3. CASE Runner
  <2> runs \in Commands /\ UNCHANGED runs BY <1>3, RunnerLeaves DEF AtRest, Physical
  <2>1. CASE RunnerDies
    BY <2>1 DEF RunnerDies, Orphans, ChildrenInv, witness
  <2>2. CASE RunnerFails BY <2>2 DEF RunnerFails, ChildrenInv, processes, witness
  <2>3. CASE Cleanup BY <2>3 DEF Cleanup, ChildrenInv, witness
  <2>4. CASE StartServer BY <2>4 DEF StartServer, ChildrenInv
  <2>5. CASE StartVoice BY <2>5 DEF StartVoice, ChildrenInv, witness
  <2>6. CASE StartBenchmark BY <2>6 DEF StartBenchmark, ChildrenInv, processes, witness
  <2>7. CASE Grade \/ GradeFails
    BY <2>7 DEF Grade, GradeFails, Benchmarked, ChildrenInv, processes
  <2>8. CASE VoiceReaped \/ VoiceTimeout
    BY <2>8 DEF VoiceReaped, VoiceTimeout, VoiceEnded, ChildrenInv
  <2>9. CASE Adjudicate BY <2>9 DEF Adjudicate, ChildrenInv, processes, witness
  <2> QED BY <1>3, <2>1, <2>2, <2>3, <2>4, <2>5, <2>6, <2>7, <2>8, <2>9 DEF Runner
<1>4. ASSUME NEW n \in Commands, ServerUp(n) \/ ServerDies(n) \/ VoiceReady(n) \/ VoiceFinishes(n) \/ VoiceDies(n)
      PROVE  ChildrenInv'
  <2>1. UNCHANGED <<pc, runs, dead>> /\ proof'.alone = proof.alone
    BY <1>4 DEF ServerUp, ServerDies, VoiceReady, VoiceFinishes, VoiceDies, counts
  <2>2. CASE ServerUp(n) \/ ServerDies(n)
    BY <2>1, <2>2 DEF ServerUp, ServerDies, ChildrenInv, witness
  <2>3. CASE VoiceReady(n) BY <2>1, <2>3 DEF VoiceReady, ChildrenInv
  <2>4. CASE VoiceFinishes(n) BY <2>1, <2>4 DEF VoiceFinishes, ChildrenInv
  <2>5. CASE VoiceDies(n) BY <2>1, <2>5 DEF VoiceDies, ChildrenInv
  <2> QED BY <1>4, <2>2, <2>3, <2>4, <2>5
<1>5. CASE Kill BY <1>5, KillLeaves DEF Orphans, NoProof, ChildrenInv
<1>6. CASE Operator BY <1>6, OperatorLeaves DEF Begin, ChildrenInv
<1>7. CASE UNCHANGED vars BY <1>7 DEF vars, ChildrenInv, processes, witness, counts
<1> QED BY <1>1, <1>2, <1>3, <1>4, <1>5, <1>6, <1>7, StepsApart DEF Children

(* The files, the children and the word of the operator have their shapes. *)
LEMMA RunStep ==
    ASSUME PipelineInv, [Next]_vars
    PROVE  RunInv'
<1> TypeOK /\ CorpusInv /\ runs \in Nat BY PipelineAssumption DEF PipelineInv, RunInv
<1>1. NothingLeftRunning' BY ChildrenStep DEF ChildrenInv
<1>2. rows' \in Sources /\ said' \in [AllDigests -> Classes] /\ lost' \subseteq AllDigests
  <2>1. CASE ~Operator /\ ~Kill /\ ~ImporterDies
    <3>1. UNCHANGED <<rows, said, lost>>
      BY <2>1, StepsApart, ImporterLeaves, DecidingLeaves, RunnerLeaves, ChildrenLeave DEF vars, sources
    <3> QED BY <3>1 DEF TypeOK
  <2>2. CASE Kill \/ ImporterDies
    <3>1. UNCHANGED <<rows, said>> /\ CutReview BY <2>2, KillLeaves DEF ImporterDies
    <3>2. lost' \subseteq lost \cup AllDigests BY <3>1 DEF CutReview
    <3> QED BY <3>1, <3>2 DEF TypeOK
  <2>5. CASE Operator
    <3>1. \A d \in AllDigests, class \in Classes : [said EXCEPT ![d] = class] \in [AllDigests -> Classes]
      BY DEF TypeOK
    <3>2. "unreviewed" \in Classes BY DEF Classes
    <3>3. \/ said' = said /\ lost' = lost
          \/ \E d \in AllDigests, class \in Classes : Says(d, class)
      BY <2>5, <3>2 DEF Operator, Begin, DropRow, ClassifyRow, SpoilReview, RepairReview, Edit, Move,
           sources
    <3>4. rows' = rows \/ rows' \in Sources
      BY <2>5 DEF Operator, Begin, DropRow, ClassifyRow, SpoilReview, RepairReview, Edit, Move,
           sources
    <3> QED BY <3>1, <3>3, <3>4 DEF TypeOK, Says
  <2> QED BY <2>1, <2>2, <2>5
<1>3. \A d \in AllDigests' \ lost' : said'[d] # "unreviewed" =>
        pc' = "write_review" \/ (d \in DOMAIN review'.of /\ review'.of[d] = said'[d])
  BY ReviewStep DEF ReviewInv, Agrees, Kept
<1>4. corpus' = None \/ corpus' \subseteq AllDigests
  <2>1. CASE WriteCorpus \/ Kill \/ ImporterDies
    <3>1. FinalRows(rows, pending, asserted) \subseteq UniqueReady(rows) BY DEF FinalRows
    <3>2. UNCHANGED corpus \/ corpus' \subseteq FinalRows(rows, pending, asserted)
      BY <2>1, KillLeaves DEF WriteCorpus, ImporterDies, CutCorpus
    <3> QED BY <3>1, <3>2, KnownRows DEF TypeOK
  <2>2. CASE ~WriteCorpus /\ ~Kill /\ ~ImporterDies
    <3>1. UNCHANGED corpus
      BY <2>2, StepsApart, ImporterLeaves, DecidingLeaves, RunnerLeaves, ChildrenLeave, OperatorLeaves
         DEF vars, files
    <3> QED BY <3>1 DEF TypeOK
  <2> QED BY <2>1, <2>2
<1>5. preflight' \in {None, "torn", "READY_FOR_PHYSICAL_ADMISSION", "BLOCKED_RUNTIME_PREREQUISITES"}
  BY StepsApart, ImporterLeaves, DecidingLeaves, RunnerLeaves, ChildrenLeave, OperatorLeaves, KillLeaves
     DEF Shaped, Preflight, PreflightDies, CutPreflight, vars, files, TypeOK
<1>6. physical' \in {None, "torn", "TEST_INVALID", "BLOCKED", "PASS_REFLEX_PHYSICAL_ADMISSION"}
  <2>1. CASE Runner
    BY <2>1 DEF Runner, RunnerDies, CutPhysical, RunnerFails, Cleanup, StartServer, StartVoice, StartBenchmark, Grade,
         GradeFails, Benchmarked, VoiceReaped, VoiceTimeout, VoiceEnded, Adjudicate, Adjudication, files, TypeOK
  <2> QED BY <2>1, StepsApart, ImporterLeaves, DecidingLeaves, ChildrenLeave, OperatorLeaves, KillLeaves
          DEF GoesOn, CutPhysical, vars, files, TypeOK
<1>7. state'.verdict \in Verdicts \cup {None} /\ state'.run \in 0..runs'
  <2>1. UNCHANGED runs \/ runs' = runs + 1
    BY StepsApart, ImporterLeaves, DecidingLeaves, RunnerLeaves, ChildrenLeave, OperatorLeaves, KillLeaves
       DEF Begin, vars, counts
  <2>2. UNCHANGED state \/ (state'.verdict \in Verdicts /\ state'.run = runs)
    <3>1. \A d, f, x, g : AcquisitionState(d, f, x, g) \in Verdicts BY DEF AcquisitionState, Verdicts
    <3>2. "TEST_INVALID" \in Verdicts BY DEF Verdicts
    <3>3. CASE NoSummary \/ TooFew \/ StopsShort \/ Finish
      BY <3>1, <3>2, <3>3 DEF NoSummary, TooFew, StopsShort, Finish, Conclude, Classify
    <3>4. CASE ~(NoSummary \/ TooFew \/ StopsShort \/ Finish)
      BY <3>4, StepsApart, ImporterLeaves, DecidingLeaves, RunnerLeaves, ChildrenLeave, OperatorLeaves, KillLeaves
         DEF vars, files
    <3> QED BY <3>3, <3>4
  <2> QED BY <2>1, <2>2 DEF TypeOK
<1>8. /\ server' \in [Commands -> {"off", "starting", "up"}]
      /\ speaker' \in [Commands -> {"off", "loading", "speaking", "done"}]
  <2> HIDE DEF Commands
  <2>1. CASE Runner
    BY <2>1 DEF Runner, RunnerDies, RunnerFails, Cleanup, StartServer, StartVoice, StartBenchmark, Grade, GradeFails,
         Benchmarked, VoiceReaped, VoiceTimeout, VoiceEnded, Adjudicate, processes, TypeOK
  <2>2. CASE Children
    BY <2>2 DEF Children, ServerUp, ServerDies, VoiceReady, VoiceFinishes, VoiceDies, TypeOK
  <2> QED BY <2>1, <2>2, StepsApart, ImporterLeaves, DecidingLeaves, OperatorLeaves, KillLeaves
          DEF vars, processes, TypeOK
<1>9. UNCHANGED Commands BY DEF Commands
<1> HIDE DEF Commands
<1> QED BY <1>1, <1>2, <1>3, <1>4, <1>5, <1>6, <1>7, <1>8, <1>9 DEF RunInv, TypeOK

-----------------------------------------------------------------------------
(* crosstalk.py and qualification.py: what the witness calls a PASS was     *)
(* heard to be each session's own line.                                    *)
LEMMA BestIsBest ==
    ASSUME NEW heard, NEW s \in Sessions, \A t \in Sessions : heard[s][t] \in 0..100
    PROVE  /\ BestOther(heard, s) \in Nat
           /\ \A t \in Sessions \ {s} : heard[s][t] <= BestOther(heard, s)
<1> DEFINE V == {0} \cup { heard[s][t] : t \in Sessions \ {s} }
           W == { n \in Nat : 100 - n \in V }
<1>1. V \subseteq 0..100 OBVIOUS
<1>2. \E n \in W : \A k \in W : n <= k
  <2>1. 100 \in W BY <1>1
  <2>2. W \in SUBSET Nat OBVIOUS
  <2> HIDE DEF W
  <2> QED BY <2>1, <2>2, Least
<1>3. \E x \in V : \A y \in V : x >= y
  <2>1. PICK n \in W : \A k \in W : n <= k BY <1>2
  <2> HIDE DEF V
  <2>2. \A y \in V : 100 - y \in Nat /\ 100 - (100 - y) = y BY <1>1
  <2>3. \A y \in V : 100 - y \in W BY <2>2
  <2>4. \A y \in V : n <= 100 - y BY <2>1, <2>3
  <2>5. n \in Nat /\ 100 - n \in V BY <2>1
  <2>6. \A y \in V : 100 - n >= y BY <1>1, <2>4, <2>5
  <2> QED BY <2>5, <2>6
<1>4. BestOther(heard, s) = Max(V) BY DEF BestOther
<1> HIDE DEF V
<1>5. Max(V) \in V /\ \A y \in V : Max(V) >= y BY <1>3 DEF Max
<1>6. \A t \in Sessions \ {s} : heard[s][t] \in V BY DEF V
<1>7. \A y \in V : y \in Nat BY <1>1
<1> QED BY <1>4, <1>5, <1>6, <1>7

(* Each session is among what the witness saw of each run.                *)
LEMMA HeardOwn ==
    ASSUME NEW taken \in VoiceRuns, WitnessOf(taken).verdict = "PASS"
    PROVE  OwnLines(taken)
<1> DEFINE order == SetToSeq(Sessions)
           V == { Composite(taken[i], s) : i \in DOMAIN taken, s \in Sessions }
           seqs == [ i \in DOMAIN taken |-> [ k \in DOMAIN order |-> Composite(taken[i], order[k]) ] ]
           seen == FlattenSeq(seqs)
<1>1. /\ taken # <<>> /\ \A i \in DOMAIN taken : Conclusive(taken[i])
      /\ \A j \in DOMAIN seen : seen[j].cross = 0
  <2>1. /\ taken # <<>> /\ \A i \in DOMAIN taken : Conclusive(taken[i])
        /\ Qualified(Observations(taken))
    BY DEF WitnessOf
  <2>2. Observations(taken) = seen BY DEF Observations
  <2> HIDE DEF seen
  <2> QED BY <2>1, <2>2 DEF Qualified
<1>2. taken \in Seq(Range(taken)) /\ Len(taken) \in Nat \ {0} /\ DOMAIN taken = 1..Len(taken)
  <2>1. taken \in Seq(Range(taken)) BY PipelineAssumption
  <2> QED BY <1>1, <2>1
<1>3. /\ Cardinality(Sessions) \in Nat /\ DOMAIN order = 1..Cardinality(Sessions)
      /\ order \in [1..Cardinality(Sessions) -> Sessions]
      /\ \A s \in Sessions : \E k \in 1..Cardinality(Sessions) : order[k] = s
  <2>1. /\ Cardinality(Sessions) \in Nat /\ order \in Injection(1..Cardinality(Sessions), Sessions)
        /\ order \in Surjection(1..Cardinality(Sessions), Sessions)
    BY WitnessAssumption, Listed
  <2> HIDE DEF order
  <2> QED BY <2>1 DEF Injection, Surjection
<1>4. seqs \in [1..Len(taken) -> Seq(V)]
  <2> SUFFICES ASSUME NEW i \in DOMAIN taken
               PROVE  [ k \in DOMAIN order |-> Composite(taken[i], order[k]) ] \in Seq(V)
    BY <1>2
  <2>1. \A k \in 1..Cardinality(Sessions) : Composite(taken[i], order[k]) \in V BY <1>3
  <2> HIDE DEF order, V
  <2> QED BY <1>3, <2>1
<1>5. ASSUME NEW i \in DOMAIN taken, NEW s \in Sessions PROVE Composite(taken[i], s).cross = 0
  <2>1. PICK k \in 1..Cardinality(Sessions) : order[k] = s BY <1>3
  <2>2. Len(seqs[i]) = Cardinality(Sessions) /\ seqs[i][k] = Composite(taken[i], s)
    <3> HIDE DEF order
    <3>1. seqs[i] = [ m \in 1..Cardinality(Sessions) |-> Composite(taken[i], order[m]) ] BY <1>3
    <3> HIDE DEF seqs
    <3> QED BY <1>3, <2>1, <3>1
  <2> HIDE DEF order, V, seqs
  <2>3. i \in 1..Len(taken) /\ k \in 1..Len(seqs[i]) BY <1>2, <2>2
  <2>4. PICK j \in DOMAIN seen : seen[j] = seqs[i][k] BY <1>2, <1>4, <2>3, Flattened
  <2> QED BY <1>1, <2>2, <2>4
<1>6. ASSUME NEW i \in DOMAIN taken, NEW s \in Sessions, NEW t \in Sessions \ {s}
      PROVE  /\ taken[i].heard[s][t] <= taken[i].heard[s][s] + CrosstalkMargin
             /\ taken[i].heard[s][s] >= OwnMatchFloor - CrosstalkMargin
  <2> DEFINE heard == taken[i].heard
  <2>1. Conclusive(taken[i]) /\ ~Inconclusive(heard, s) BY <1>1 DEF Conclusive
  <2>2. ~Crosstalk(heard, s)
    <3>1. Composite(taken[i], s).cross = 0 BY <1>5
    <3> QED BY <2>1, <3>1 DEF Composite
  <2>3. \A u, v \in Sessions : heard[u][v] \in 0..100 BY PipelineAssumption
  <2> HIDE DEF heard
  <2>4. heard[s][t] <= BestOther(heard, s) /\ BestOther(heard, s) \in Nat BY <2>3, BestIsBest
  <2>5. heard[s][s] \in Nat /\ heard[s][t] \in Nat BY <2>3
  <2>6. /\ heard[s][t] <= heard[s][s] + CrosstalkMargin
        /\ heard[s][s] >= OwnMatchFloor - CrosstalkMargin
    BY <2>1, <2>2, <2>4, <2>5 DEF Crosstalk, Inconclusive, Own, OwnMatchFloor, CrosstalkMargin
  <2> QED BY <2>6 DEF heard
<1> QED BY <1>6 DEF OwnLines

-----------------------------------------------------------------------------
(* The corpus is finite.                                                   *)
LEMMA CorpusFinite ==
    ASSUME rows \in Sources, CorpusInv, pc \in Shapely
    PROVE  IsFiniteSet(corpus)
<1>1. corpus \subseteq UniqueReady(rows) BY DEF CorpusInv, Final, FinalRows
<1>2. rows \in Seq(Range(rows)) BY PipelineAssumption
<1>3. IsFiniteSet(1..Len(rows)) BY <1>2, FS_Interval
<1> DEFINE D == { i \in 1..Len(rows) : Status(rows[i]) = "ready_replay" }
           f == [ i \in D |-> Digest(rows[i]) ]
<1>4. IsFiniteSet(D) BY <1>3, FS_Subset
<1>5. DOMAIN rows = 1..Len(rows) BY <1>2
<1>6. UniqueReady(rows) = { Digest(rows[i]) : i \in D } BY <1>5 DEF UniqueReady, Range
<1>7. f \in Surjection(D, UniqueReady(rows))
  <2> HIDE DEF D
  <2> QED BY <1>6 DEF Surjection
<1>8. IsFiniteSet(UniqueReady(rows))
  <2> HIDE DEF D, f
  <2> QED BY <1>4, <1>7, FS_Surjection
<1> QED BY <1>1, <1>8, FS_Subset

(* What the runner believes of the measurement was so.                    *)
LEMMA OutcomeStep ==
    ASSUME PipelineInv, [Next]_vars
    PROVE  OutcomeInv'
<1> /\ OutcomeInv /\ ChildrenInv /\ PrerequisitesInv /\ None # Pass /\ (~AtRest => runs \in Commands)
    /\ speaker \in [Commands -> {"off", "loading", "speaking", "done"}]
  BY PipelineAssumption DEF PipelineInv, RunInv, TypeOK, Pass
<1> HIDE DEF Commands
<1> USE DEF Physical, Served, Measuring, Holding, Busy, ProofShape
<1>0. NoProof \in ProofShape /\ NoOutcome \in OutcomeShape BY DEF NoProof, NoOutcome, OutcomeShape
<1>1. CASE Importing
  <2>1. proof' \in ProofShape
    <3>1. CASE ImporterDies
      <4>1. proof' = [ proof EXCEPT !.cut = (summary' # None) ] /\ proof \in ProofShape
        BY <1>1, <3>1, ImporterLeaves DEF OutcomeInv
      <4> QED BY <4>1
    <3>2. CASE ~ImporterDies BY <1>1, <3>2, ImporterLeaves DEF OutcomeInv
    <3> QED BY <3>1, <3>2
  <2> QED BY <1>1, <2>1, ImporterLeaves DEF OutcomeInv
<1>2. CASE Deciding
  <2>1. proof' \in ProofShape /\ outcome' \in OutcomeShape
    <3>1. CASE PreflightDies
      <4>1. proof' = [ proof EXCEPT !.cut = (preflight' # None) ] /\ proof \in ProofShape /\ UNCHANGED outcome
        BY <3>1 DEF PreflightDies, OutcomeInv
      <4> QED BY <4>1 DEF OutcomeInv
    <3>2. CASE ~PreflightDies
      BY <1>0, <1>2, <3>2
         DEF Deciding, NoSummary, Raises, TooFew, Shaped, Preflight, StopsShort, GoesOn, Finish, Conclude, Classify,
             Forget, OutcomeInv
    <3> QED BY <3>1, <3>2
  <2>2. pc' = "physical" => physical' = None
    BY <1>2 DEF Deciding, NoSummary, Raises, TooFew, Shaped, Preflight, PreflightDies, StopsShort, GoesOn, Finish,
                Conclude, Classify
  <2> QED BY <1>2, <2>1, <2>2, DecidingLeaves DEF OutcomeInv
<1>3. CASE RunnerDies
  <2>1. proof' = [ proof EXCEPT !.cut = (physical' = "torn") ] /\ proof \in ProofShape
    BY <1>3 DEF RunnerDies, OutcomeInv
  <2>2. /\ proof' \in ProofShape /\ proof'.loaded = proof.loaded /\ proof'.clean = proof.clean
        /\ proof'.own = proof.own /\ proof'.alone = proof.alone
    BY <2>1
  <2>3. physical' = Pass => pc = "cleanup" /\ physical = Pass
    BY <1>3 DEF RunnerDies, CutPhysical, OutcomeInv, Pass
  <2> QED BY <1>0, <1>3, <2>2, <2>3 DEF RunnerDies, OutcomeInv
<1>4. CASE RunnerFails \/ Cleanup \/ StartVoice
  <2>1. UNCHANGED <<voice, outcome, proof, runs>>
    BY <1>4, RunnerLeaves DEF RunnerFails, Cleanup, StartVoice, witness, Runner
  <2>2. CASE RunnerFails BY <2>1, <2>2 DEF RunnerFails, OutcomeInv, ChildrenInv, Pass
  <2>3. CASE Cleanup BY <2>1, <2>3 DEF Cleanup, OutcomeInv, files
  <2>4. CASE StartVoice BY <2>1, <2>4 DEF StartVoice, OutcomeInv, files
  <2> QED BY <1>4, <2>2, <2>3, <2>4
<1>5. CASE StartServer
  <2>1. \E x \in BOOLEAN : proof' = [ proof EXCEPT !.alone = x ] BY <1>5 DEF StartServer
  <2>2. proof' \in ProofShape BY <2>1 DEF OutcomeInv
  <2> QED BY <1>5, <2>2 DEF StartServer, OutcomeInv, files
<1>6. CASE StartBenchmark
  <2>1. /\ proof' \in ProofShape /\ proof'.loaded = (speaker[runs] = "speaking")
        /\ proof'.own = proof.own /\ proof'.alone = proof.alone
    <3>1. \E x \in BOOLEAN : proof' = [ proof EXCEPT !.loaded = x ] /\ x = (speaker[runs] = "speaking")
      BY <1>6 DEF StartBenchmark
    <3> QED BY <3>1 DEF OutcomeInv
  <2>2. pc = "await_voice" /\ pc' = "benchmark" /\ UNCHANGED <<voice, physical, outcome, speaker, runs>>
    BY <1>6, RunnerLeaves DEF StartBenchmark, files, witness, processes, Runner
  <2> QED BY <2>1, <2>2 DEF OutcomeInv
<1>7. ASSUME NEW report, NEW ok \in BOOLEAN, NEW clean \in BOOLEAN, pc = "benchmark", Benchmarked(report, ok, clean),
             ok => clean
      PROVE  OutcomeInv'
  <2> DEFINE talking == speaker[runs] = "speaking"
             busy == speaker[runs] \in {"loading", "speaking"}
  <2>1. /\ proof' = [ proof EXCEPT !.loaded = @ /\ talking, !.clean = clean ]
        /\ outcome' = [ alive |-> busy, voiceOk |-> FALSE, admissionOk |-> ok ]
        /\ pc' = "await_end" /\ UNCHANGED <<voice, physical>>
    BY <1>7 DEF Benchmarked, files
  <2>2. talking \in BOOLEAN /\ busy \in BOOLEAN /\ (proof.alone => (busy => talking) /\ (talking => proof.loaded))
    BY <1>7 DEF ChildrenInv, OutcomeInv
  <2> HIDE DEF talking, busy
  <2>3. /\ proof' \in ProofShape /\ proof'.clean = clean /\ proof'.own = proof.own /\ proof'.alone = proof.alone
        /\ proof'.loaded = (proof.loaded /\ talking)
    BY <2>1, <2>2 DEF OutcomeInv
  <2>4. outcome' \in OutcomeShape /\ outcome'.alive = busy /\ outcome'.admissionOk = ok
    BY <2>1, <2>2 DEF OutcomeShape
  <2> QED BY <1>7, <2>1, <2>2, <2>3, <2>4 DEF OutcomeInv
<1>8. CASE Grade
  <2>1. PICK measured \in [corpus -> Decisions], ok \in BOOLEAN :
          /\ ok => ModelAdmission(measured) = "PASS_REFLEX_MODEL_ADMISSION"
          /\ Benchmarked(ModelAdmission(measured), ok, Clean(measured))
    BY <1>8 DEF Grade
  <2>2. IsFiniteSet(corpus) BY <1>8, CorpusFinite DEF Grade, PipelineInv, RunInv, TypeOK, Shapely
  <2>3. ok => Clean(measured) BY <2>1, <2>2, PassesClean
  <2>4. Clean(measured) \in BOOLEAN BY DEF Clean
  <2>5. pc = "benchmark" BY <1>8 DEF Grade
  <2> QED BY <1>7, <2>1, <2>3, <2>4, <2>5
<1>9. CASE GradeFails BY <1>7, <1>9 DEF GradeFails
<1>10. CASE VoiceReaped \/ VoiceTimeout
  <2>1. PICK ok \in BOOLEAN : VoiceEnded(ok) BY <1>10 DEF VoiceReaped, VoiceTimeout
  <2>2. outcome' \in OutcomeShape /\ outcome'.alive = outcome.alive /\ outcome'.admissionOk = outcome.admissionOk
    BY <2>1 DEF VoiceEnded, OutcomeInv, OutcomeShape
  <2>3. voice' = voice \/ voice'.verdict # "PASS"
    <3>1. voice' \in {voice, TornWitness} BY <1>10 DEF VoiceReaped, VoiceTimeout
    <3>2. TornWitness.verdict = "torn" BY DEF TornWitness
    <3> QED BY <3>1, <3>2
  <2> QED BY <2>1, <2>2, <2>3 DEF VoiceEnded, OutcomeInv, files
<1>11. CASE Adjudicate
  <2>1. physical' = Pass => voice # None /\ voice.verdict = "PASS" /\ outcome.alive /\ outcome.admissionOk
    BY <1>11 DEF Adjudicate, Adjudication, Pass
  <2>2. pc = "adjudicate" /\ pc' = "cleanup" /\ outcome' = NoOutcome /\ UNCHANGED <<voice, proof, speaker, runs>>
    BY <1>11, RunnerLeaves DEF Adjudicate, processes, witness, Runner
  <2> QED BY <1>0, <2>1, <2>2 DEF OutcomeInv, ChildrenInv
<1>12. ASSUME NEW n \in Commands, ServerUp(n) \/ ServerDies(n) \/ VoiceReady(n) \/ VoiceDies(n)
       PROVE  OutcomeInv'
  <2>1. UNCHANGED <<pc, physical, outcome, proof, runs>>
    BY <1>12 DEF ServerUp, ServerDies, VoiceReady, VoiceDies, files, counts
  <2>2. voice' = voice \/ voice'.verdict # "PASS"
    <3>1. voice' \in {voice, TornWitness} BY <1>12 DEF ServerUp, ServerDies, VoiceReady, VoiceDies, witness
    <3>2. TornWitness.verdict = "torn" BY DEF TornWitness
    <3> QED BY <3>1, <3>2
  <2>3. \/ speaker' = speaker
        \/ \E x \in {"off", "speaking"} : speaker' = [ speaker EXCEPT ![n] = x ] /\ Busy(n)
    BY <1>12 DEF ServerUp, ServerDies, VoiceReady, VoiceDies
  <2>4. Busy(runs)' => Busy(runs)
    <3>1. CASE speaker' = speaker BY <2>1, <3>1
    <3>2. CASE speaker' # speaker
      <4>1. PICK x \in {"off", "speaking"} : speaker' = [ speaker EXCEPT ![n] = x ] /\ Busy(n) BY <2>3, <3>2
      <4>2. runs = n \/ speaker'[runs] = speaker[runs] BY <4>1
      <4> QED BY <2>1, <4>1, <4>2
    <3> QED BY <3>1, <3>2
  <2>5. speaker'[runs] = "speaking" => Busy(runs) BY <2>1, <2>4
  <2> QED BY <2>1, <2>2, <2>4, <2>5 DEF OutcomeInv, ChildrenInv
<1>13. ASSUME NEW n \in Commands, VoiceFinishes(n) PROVE OutcomeInv'
  <2>1. PICK taken \in VoiceRuns :
          /\ voice' = WitnessOf(taken)
          /\ proof' = IF n = runs /\ pc \in Served THEN [ proof EXCEPT !.own = OwnLines(taken) ] ELSE proof
    BY <1>13 DEF VoiceFinishes
  <2>2. voice'.verdict = "PASS" => OwnLines(taken) BY <2>1, HeardOwn
  <2>3. OwnLines(taken) \in BOOLEAN BY DEF OwnLines
  <2>4. /\ UNCHANGED <<pc, physical, outcome, runs>> /\ Busy(n) /\ speaker' = [ speaker EXCEPT ![n] = "done" ]
    BY <1>13 DEF VoiceFinishes, files, counts
  <2>5. /\ Busy(runs)' => Busy(runs)
        /\ pc' = "benchmark" /\ speaker'[runs] = "speaking" => speaker[runs] = "speaking"
    BY <2>4
  <2>6. CASE n = runs /\ pc \in Served
    <3>1. /\ proof' \in ProofShape /\ proof'.own = OwnLines(taken) /\ proof'.loaded = proof.loaded
          /\ proof'.clean = proof.clean /\ proof'.alone = proof.alone
      BY <2>1, <2>3, <2>6 DEF OutcomeInv
    <3>2. ~(pc = "cleanup" /\ physical = Pass) BY <2>4, <2>6 DEF OutcomeInv
    <3> QED BY <2>2, <2>4, <2>5, <2>6, <3>1, <3>2 DEF OutcomeInv
  <2>7. CASE ~(n = runs /\ pc \in Served)
    <3>1. UNCHANGED proof BY <2>1, <2>7
    <3>2. pc \in Served => ~proof.alone BY <2>4, <2>7 DEF ChildrenInv
    <3> QED BY <2>4, <2>5, <3>1, <3>2 DEF OutcomeInv
  <2> QED BY <2>6, <2>7
<1>14. CASE Kill BY <1>0, <1>14, KillLeaves DEF OutcomeInv
<1>15. CASE Operator
  <2>1. pc' \in {"idle", "killed", "import"} /\ UNCHANGED <<proof, outcome>> BY <1>15, OperatorLeaves DEF Begin
  <2> QED BY <2>1 DEF OutcomeInv
<1>16. CASE UNCHANGED vars BY <1>16 DEF vars, OutcomeInv, files, witness, processes, counts
<1> QED BY <1>1, <1>2, <1>3, <1>4, <1>5, <1>6, <1>8, <1>9, <1>10, <1>11, <1>12, <1>13, <1>14, <1>15, <1>16,
           StepsApart DEF Runner, Children

-----------------------------------------------------------------------------
(* The invariant of a command and its children, from the first one on.    *)
LEMMA PipelineInit == Init => PipelineInv
<1> SUFFICES ASSUME Init PROVE PipelineInv OBVIOUS
<1> USE DEF Init, Physical, Served, Measuring, Holding, Shapely
<1>1. /\ said \in [AllDigests -> {"unreviewed"}] /\ \A d \in AllDigests : said[d] = "unreviewed"
      /\ DOMAIN EmptyReview.of = {}
  BY DEF EmptyReview
<1>2. NothingLeftRunning BY DEF NothingLeftRunning, Running
<1>3. RunInv
  <2>1. said \in [AllDigests -> Classes] BY <1>1 DEF Classes
  <2> QED BY <1>1, <1>2, <2>1 DEF RunInv, TypeOK
<1>4. ReviewInv
  <2>1. EmptyReview = [ ok |-> TRUE, of |-> <<>> ] BY DEF EmptyReview
  <2> QED BY <1>1, <2>1 DEF ReviewInv, Agrees, Kept
<1>5. CorpusInv /\ PrerequisitesInv /\ ChildrenInv /\ TornInv
  BY <1>2 DEF CorpusInv, PrerequisitesInv, ChildrenInv, TornInv, NoProof
<1>6. OutcomeInv BY DEF OutcomeInv, ProofShape, OutcomeShape, NoProof, NoOutcome
<1>7. runs \in 0..MaxRuns /\ AtRest BY PipelineAssumption DEF AtRest
<1> QED BY <1>3, <1>4, <1>5, <1>6, <1>7 DEF PipelineInv

(* No step of anyone breaks it.                                           *)
LEMMA PipelineStep == PipelineInv /\ [Next]_vars => PipelineInv'
<1> SUFFICES ASSUME PipelineInv, [Next]_vars PROVE PipelineInv' OBVIOUS
<1>1. asserted' \in BOOLEAN /\ execute' \in BOOLEAN
  <2> asserted \in BOOLEAN /\ execute \in BOOLEAN BY DEF PipelineInv
  <2>1. CASE Importing BY <2>1, ImporterLeaves
  <2>2. CASE Deciding BY <2>2, DecidingLeaves
  <2>3. CASE Runner \/ Children BY <2>3, RunnerLeaves, ChildrenLeave
  <2>4. CASE Operator BY <2>4, OperatorLeaves DEF Begin
  <2>5. CASE Kill \/ UNCHANGED vars BY <2>5, KillLeaves DEF vars, command
  <2> QED BY <2>1, <2>2, <2>3, <2>4, <2>5, StepsApart
<1>2. runs' \in 0..MaxRuns /\ (~AtRest => runs \in Commands)'
  <2> runs \in 0..MaxRuns /\ (~AtRest => runs \in Commands) BY DEF PipelineInv
  <2>1. CASE \E a, e \in BOOLEAN : Begin(a, e) BY <2>1, PipelineAssumption DEF Begin, Commands
  <2>2. CASE ~\E a, e \in BOOLEAN : Begin(a, e)
    <3>1. UNCHANGED runs /\ (AtRest => AtRest')
      BY <2>2, StepsApart, ImporterLeaves, DecidingLeaves, RunnerLeaves, ChildrenLeave, OperatorLeaves, KillLeaves
         DEF AtRest, Holding, Shapely, Physical, Served, vars, counts
    <3> QED BY <3>1 DEF Commands
  <2> QED BY <2>1, <2>2
<1> QED BY <1>1, <1>2, RunStep, ReviewStep, CorpusStep, PrerequisitesStep, ChildrenStep, OutcomeStep, TornStep
        DEF PipelineInv

(* The inductive invariant holds.                                         *)
THEOREM PipelineCorrect == Spec => []PipelineInv
  BY PipelineInit, PipelineStep, PTL DEF Spec

(* run_reflex_physical_admission.py: the files have their shapes, a review  *)
(* says what the operator said, and however a runner fails, what still runs *)
(* when its command goes on was started by a runner that was killed.        *)
THEOREM RunnerCleansUp == Spec => []RunInv
<1>1. PipelineInv => RunInv BY DEF PipelineInv
<1> QED BY <1>1, PipelineCorrect, PTL

(* A row whose word is known is put into the corpus by that word only.      *)
LEMMA EntersByWord ==
    ASSUME PipelineInv, pc \in {"write_corpus"}, NEW d \in FinalRows(rows, pending, asserted)
    PROVE  said[d] = "real" \/ (asserted /\ (said[d] # "demo" \/ d \in lost))
<1>1. /\ Agrees(pending) /\ DOMAIN pending = UniqueReady(rows) /\ rows \in Sources
      /\ asserted => \A c \in DOMAIN pending : pending[c] # "demo"
  BY DEF PipelineInv, ReviewInv, Holding, RunInv, TypeOK
<1>2. d \in UniqueReady(rows) /\ (asserted \/ pending[d] = "real") BY DEF FinalRows
<1>3. d \in AllDigests /\ Kept(d) = pending[d] BY <1>1, <1>2, KnownRows DEF Agrees
<1> QED BY <1>1, <1>2, <1>3 DEF Kept

(* acquisition.py: only turns that the operator called real enter a corpus, *)
(* or that he asserts and never called a demo unless a torn rewrite lost    *)
(* that; no whole rewrite of the review loses or changes a word of his.     *)
THEOREM CorpusIsTheOperators == Spec => CorpusKept
<1>1. ASSUME PipelineInv, [Next]_vars, corpus' # corpus
      PROVE  \A d \in corpus' : said[d] = "real" \/ (asserted /\ (said[d] # "demo" \/ d \in lost))
  <2>1. pc = "write_corpus" /\ corpus' \subseteq FinalRows(rows, pending, asserted)
    <3>1. CASE WriteCorpus BY <3>1 DEF WriteCorpus
    <3>2. CASE ImporterDies \/ Kill
      <4>1. CutCorpus BY <3>2, KillLeaves DEF ImporterDies
      <4> QED BY <1>1, <4>1 DEF CutCorpus
    <3>3. CASE ~WriteCorpus /\ ~ImporterDies /\ ~Kill
      BY <1>1, <3>3, StepsApart, ImporterLeaves, DecidingLeaves, RunnerLeaves, ChildrenLeave, OperatorLeaves
         DEF vars, files
    <3> QED BY <3>1, <3>2, <3>3
  <2> QED BY <1>1, <2>1, EntersByWord
<1>2. ASSUME PipelineInv, [Next]_vars, pc = "write_review" /\ pc' = "write_corpus"
      PROVE  \A d \in AllDigests \ lost : said[d] # "unreviewed" => d \in DOMAIN review'.of /\ review'.of[d] = said[d]
  <2>1. WriteReview
    <3> SUFFICES ASSUME ~WriteReview PROVE FALSE BY <1>2
    <3>1. CASE Importing
      BY <1>2, <3>1 DEF Importing, ImportReads, OpenReview, WriteCorpus, WriteSummary, ImporterDies
    <3> QED BY <1>2, <3>1, StepsApart, DecidingLeaves, RunnerLeaves, ChildrenLeave, OperatorLeaves, KillLeaves
            DEF Shapely, Physical, Served, vars
  <2>2. Agrees(pending) BY <1>2 DEF PipelineInv, ReviewInv, Holding
  <2> QED BY <2>1, <2>2 DEF WriteReview, Agrees, Kept
<1>3. PipelineInv /\ [Next]_vars =>
        [ corpus' # corpus =>
          \A d \in corpus' : said[d] = "real" \/ (asserted /\ (said[d] # "demo" \/ d \in lost)) ]_vars
  BY <1>1
<1>4. PipelineInv /\ [Next]_vars =>
        [ pc = "write_review" /\ pc' = "write_corpus" =>
          \A d \in AllDigests \ lost : said[d] # "unreviewed" =>
            d \in DOMAIN review'.of /\ review'.of[d] = said[d] ]_vars
  BY <1>2
<1>5. Spec => OnlyRealTurns BY <1>3, PipelineCorrect, PTL DEF Spec, OnlyRealTurns
<1>6. Spec => ReviewKept BY <1>4, PipelineCorrect, PTL DEF Spec, ReviewKept
<1> QED BY <1>5, <1>6 DEF CorpusKept

(* What a command must have found before it says that the operator may go on. *)
LEMMA Concluded ==
    ASSUME PipelineInv, [Next]_vars, state' # state, state'.verdict \in {Ready, Pass}
    PROVE  /\ Prerequisites /\ corpus = Final
           /\ state'.verdict = Pass => proof.clean /\ (proof.alone => proof.loaded /\ proof.own)
<1> CorpusInv /\ PrerequisitesInv /\ OutcomeInv BY DEF PipelineInv
<1> USE DEF Ready, Pass
<1>1. TooFew \/ StopsShort \/ Finish
  <2>1. CASE NoSummary BY <2>1 DEF NoSummary, Classify
  <2>2. CASE ~NoSummary /\ ~TooFew /\ ~StopsShort /\ ~Finish
    BY <2>2, StepsApart, ImporterLeaves, DecidingLeaves, RunnerLeaves, ChildrenLeave, OperatorLeaves, KillLeaves
       DEF vars, files
  <2> QED BY <2>1, <2>2
<1>2. state'.verdict = AcquisitionState(summary, preflight, execute, physical)
  BY <1>1 DEF TooFew, StopsShort, Finish, Conclude, Classify
<1>3. /\ summary.sufficient /\ preflight = Ready
      /\ state'.verdict = Pass => execute /\ physical = Pass
  BY <1>2 DEF AcquisitionState
<1>4. CASE TooFew BY <1>3, <1>4 DEF TooFew
<1>5. CASE StopsShort
  BY <1>3, <1>5 DEF StopsShort, Executes, CorpusInv, PrerequisitesInv, Shapely
<1>6. CASE Finish
  BY <1>3, <1>6 DEF Finish, CorpusInv, PrerequisitesInv, OutcomeInv, Shapely, Physical
<1> QED BY <1>1, <1>4, <1>5, <1>6

(* A verdict that lets the operator go on was earned by this run: enough    *)
(* turns on this host, graded clean, and, if no voice of a killed runner    *)
(* was at work, under load, each session heard to say its own line.         *)
THEOREM VerdictIsEarned == Spec => VerdictEarned
<1>1. PipelineInv /\ [Next]_vars =>
        [ state' # state /\ state'.verdict \in {"READY_FOR_PHYSICAL_ADMISSION", "PASS_REFLEX_PHYSICAL_ADMISSION"} =>
            /\ Prerequisites
            /\ corpus = FinalRows(rows, review.of, asserted) ]_vars
  BY Concluded DEF Final, Ready, Pass
<1>2. PipelineInv /\ [Next]_vars =>
        [ state' # state /\ state'.verdict = "PASS_REFLEX_PHYSICAL_ADMISSION" => proof.loaded \/ ~proof.alone ]_vars
  BY Concluded DEF Ready, Pass
<1>3. PipelineInv /\ [Next]_vars =>
        [ state' # state /\ state'.verdict = "PASS_REFLEX_PHYSICAL_ADMISSION" => proof.clean ]_vars
  BY Concluded DEF Ready, Pass
<1>4. PipelineInv /\ [Next]_vars =>
        [ state' # state /\ state'.verdict = "PASS_REFLEX_PHYSICAL_ADMISSION" => proof.own \/ ~proof.alone ]_vars
  BY Concluded DEF Ready, Pass
<1>5. Spec => GoesAheadOnFacts BY <1>1, PipelineCorrect, PTL DEF Spec, GoesAheadOnFacts
<1>6. Spec => PassUnderLoad BY <1>2, PipelineCorrect, PTL DEF Spec, PassUnderLoad
<1>7. Spec => PassIsClean BY <1>3, PipelineCorrect, PTL DEF Spec, PassIsClean
<1>8. Spec => PassIsHeard BY <1>4, PipelineCorrect, PTL DEF Spec, PassIsHeard
<1> QED BY <1>5, <1>6, <1>7, <1>8 DEF VerdictEarned

(* A command that ends by itself leaves a state of its own, but where its    *)
(* importer called the input invalid, or a child of this command, and of no  *)
(* other, ended within the write of its report.                              *)
THEOREM StateIsOfThisRun == Spec => StateOfThisRun
<1> DEFINE Torn == (summary # None /\ ~summary.whole) \/ "torn" \in {preflight, physical}
           Told == summary # None /\ summary.whole /\ ~summary.valid
<1>1. ASSUME PipelineInv, [Next]_vars, pc # "idle" /\ pc' = "idle"
      PROVE  state'.run = runs \/ Told \/ (proof.cut /\ Torn)
  <2>1. CASE NoSummary \/ TooFew \/ StopsShort \/ Finish
    BY <2>1 DEF NoSummary, TooFew, StopsShort, Finish, Conclude, Classify
  <2>2. CASE Raises BY <1>1, <2>2 DEF Raises, Unreadable, PipelineInv, TornInv
  <2>3. CASE ~Raises /\ ~(NoSummary \/ TooFew \/ StopsShort \/ Finish)
    BY <1>1, <2>3, StepsApart, ImporterLeaves, DecidingLeaves, RunnerLeaves, ChildrenLeave, OperatorLeaves, KillLeaves
       DEF Holding, Physical, Served, Begin, vars
  <2> QED BY <2>1, <2>2, <2>3
<1>2. PipelineInv /\ [Next]_vars =>
        [ pc # "idle" /\ pc' = "idle" =>
            \/ state'.run = runs
            \/ summary # None /\ summary.whole /\ ~summary.valid
            \/ proof.cut /\ ((summary # None /\ ~summary.whole) \/ "torn" \in {preflight, physical}) ]_vars
  BY <1>1
<1> QED BY <1>2, PipelineCorrect, PTL DEF Spec, StateOfThisRun
=============================================================================
