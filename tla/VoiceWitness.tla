----------------------------- MODULE VoiceWitness -----------------------------
(* What the voice witness of a physical admission concludes from its runs:    *)
(* the acoustic crosstalk of tts/crosstalk.py, the measurement of             *)
(* tts/measurement.py and the adjudication of tts/qualification.py, as        *)
(* examples/run_wt_voice_tts_001.py puts them together.  Similarities are in  *)
(* percent, delays in ms.                                                     *)
EXTENDS Naturals, FiniteSets, FiniteSetsExt, Functions, SequencesExt

CONSTANTS
  Sessions,      \* the concurrent sessions of a run
  MinRuns,       \* successful observations that a lane needs
  MaxFirst,      \* first chunk p95 of the policy
  MaxSilence     \* cancel to silence p95 of the policy

ASSUME WitnessAssumption == IsFiniteSet(Sessions)

OwnMatchFloor == 60
CrosstalkMargin == 15

(* detect_crosstalk, for one session: heard[s][t] is how much the transcript  *)
(* of s resembles the line that t was asked to speak.                         *)
Own(heard, s) == heard[s][s]
BestOther(heard, s) == Max({0} \cup { heard[s][t] : t \in Sessions \ {s} })
Inconclusive(heard, s) == Own(heard, s) < OwnMatchFloor /\ BestOther(heard, s) < OwnMatchFloor
Crosstalk(heard, s) ==
  ~Inconclusive(heard, s) /\ BestOther(heard, s) > Own(heard, s) + CrosstalkMargin

(* One run is [heard, taken]: taken[s] has the two streams measured for s,    *)
(* the whole one and the one cancelled at its first chunk.                    *)
BugConclusive(run) == \E s \in Sessions : ~Inconclusive(run.heard, s)
Conclusive(run) == \A s \in Sessions : ~Inconclusive(run.heard, s)

(* measure_request: what was seen of a stream.  A stream that raised or had   *)
(* no chunk is a failed one; every chunk after the cancel is a stale one.     *)
Observed(stream, cancelled) ==
  [ success |-> stream.chunks > 0 /\ ~stream.raised,
    first |-> IF stream.chunks = 0 THEN 0 ELSE stream.first,
    silence |-> IF cancelled /\ stream.chunks > 0 THEN stream.silence ELSE 0,
    stale |-> IF cancelled /\ stream.chunks > 0 THEN stream.chunks - 1 ELSE 0 ]

(* _measure_composite, with the crosstalk of the run when it is conclusive.   *)
Composite(run, s) ==
  LET normal == Observed(run.taken[s].whole, FALSE)
      interrupted == Observed(run.taken[s].cut, TRUE)
  IN [ success |-> normal.success /\ interrupted.success, first |-> normal.first,
       silence |-> interrupted.silence, stale |-> interrupted.stale,
       cross |-> IF Conclusive(run) /\ Crosstalk(run.heard, s) THEN 1 ELSE 0 ]

Percentile95(values) ==
  LET ordered == SortSeq(values, LAMBDA a, b : a < b)
  IN ordered[(95 * Len(values) + 99) \div 100]

(* run_lane with its transcriber: aggregate_lane, then qualify_tts_lane.      *)
Observations(runs) ==
  FlattenSeq([ i \in DOMAIN runs |->
                 LET order == SetToSeq(Sessions)
                 IN [ k \in DOMAIN order |-> Composite(runs[i], order[k]) ] ])

Qualified(seen) ==
  /\ Cardinality({ i \in DOMAIN seen : seen[i].success }) >= MinRuns
  /\ Percentile95([ i \in DOMAIN seen |-> seen[i].first ]) <= MaxFirst
  /\ Percentile95([ i \in DOMAIN seen |-> seen[i].silence ]) <= MaxSilence
  /\ \A i \in DOMAIN seen : seen[i].stale = 0 /\ seen[i].cross = 0

WitnessOf(runs) ==
  LET complete == runs # <<>> /\ \A i \in DOMAIN runs : Conclusive(runs[i])
  IN [ complete |-> complete, acoustic |-> Cardinality(Sessions) > 1,
       verdict |-> IF ~complete THEN "TEST_INVALID"
                   ELSE IF Qualified(Observations(runs)) THEN "PASS" ELSE "FAIL" ]
===============================================================================
