-------------------------------- MODULE Scoring --------------------------------
(***************************************************************************)
(* What becomes of an accepted run: the report                             *)
(* (metric_rca/reporting/projector.py), the score against the truth of the *)
(* case (metric_rca/evals/scorer.py), and the two judgements a training    *)
(* set is made of, of the reward (metric_rca/evals/grpo_rewards.py) and of *)
(* the dataset (metric_rca/evals/grpo_dataset.py).                         *)
(*                                                                         *)
(* The truth of a case is a record [expected, causes]: whether an anomaly  *)
(* is expected and the sequence of its causes [type, dim, element, weight],*)
(* the weights in percent.  The scorer is given the metric it expects,     *)
(* every statement passed the guard and no memory was read, so intent_ok,  *)
(* sql_safe and reflection_repair_ok are true.                             *)
(***************************************************************************)
EXTENDS Reflection

(* build_report_from_persisted_artifacts makes a report.                   *)
Reportable(status, stored, selected) ==
  CASE status = "no_anomaly" -> stored = {E1}
    [] status = "succeeded"  -> /\ BindsRequired(selected)
                                /\ ToSet(selected.evidence) \subseteq stored
    [] OTHER -> FALSE

-------------------------------------------------------------------------------
(* score_case, of the contribution set of E4.                              *)

(* There is no row E4.                                                     *)
NoSet == [selected |-> <<>>, candidates |-> <<>>, sources |-> <<>>, orderValue |-> FALSE]

IsWritten(set) == set.candidates # <<>>

(* _matches_truth: by its own element or by one of its pairs.              *)
MatchesTruth(c, cause) ==
  c.type = cause.type /\ <<cause.dim, cause.element>> \in c.pairs \cup {Pair(c)}

FirstThree(candidates) == SubSeq(candidates, 1, Min({3, Len(candidates)}))

(* _dominant_cause: the first of the greatest weight.                      *)
Dominant(truth) ==
  truth.causes[Min({i \in DOMAIN truth.causes :
    \A j \in DOMAIN truth.causes : truth.causes[j].weight <= truth.causes[i].weight})]

MajorCauses(truth) == {c \in ToSet(truth.causes) : c.weight >= 20}

Found(cause, candidates) == \E c \in ToSet(candidates) : MatchesTruth(c, cause)

(* _dominant_top1_ok and _top3_contains_all_major_causes.  A run without   *)
(* anomaly has no candidates.                                              *)
Top1Ok(truth, set) ==
  IF truth.expected THEN IsWritten(set) /\ MatchesTruth(set.selected, Dominant(truth))
  ELSE ~IsWritten(set)

Top3Ok(truth, candidates) ==
  IF truth.expected
  THEN /\ MajorCauses(truth) # {}
       /\ \A cause \in MajorCauses(truth) : Found(cause, FirstThree(candidates))
  ELSE candidates = <<>>

WeightOf(causes) == SumFunction([i \in DOMAIN causes |-> causes[i].weight])

(* A run without anomaly is measured by its lack of candidates.            *)
Measured(truth, candidates, percentage) ==
  IF truth.expected THEN percentage ELSE IF candidates = <<>> THEN 100 ELSE 0

Percent(part, whole) == IF whole = 0 THEN 0 ELSE (100 * part) \div whole

(* _weighted_explanation_coverage: the weight of the causes that are among *)
(* the candidates.                                                         *)
ExplanationCoverage(truth, candidates) ==
  Measured(truth, candidates,
    Percent(WeightOf(SelectSeq(truth.causes, LAMBDA c : Found(c, candidates))),
            WeightOf(truth.causes)))

(* _root_cause_set_recall: how many of the causes are.                     *)
Recall(truth, candidates) ==
  Measured(truth, candidates,
    Percent(Len(SelectSeq(truth.causes, LAMBDA c : Found(c, candidates))),
            Len(truth.causes)))

(* _root_cause_set_precision: how many of the candidates are a cause.      *)
Precision(truth, candidates) ==
  LET IsCause(c) == \E i \in DOMAIN truth.causes : MatchesTruth(c, truth.causes[i])
  IN  Measured(truth, candidates,
        Percent(Len(SelectSeq(candidates, IsCause)), Len(candidates)))

-------------------------------------------------------------------------------
(* The gates of score_case on the stored rows.                             *)

(* _evidence_ids_are_current_run, of a list of citations.                  *)
AreCurrent(cited, stored) == cited # <<>> /\ ToSet(cited) \subseteq stored

(* What the report of an accepted run cites as its evidence.               *)
ReportEvidence(status, set) ==
  IF status = "no_anomaly" THEN <<E1>> ELSE set.selected.evidence

(* _no_anomaly_task_ok: nothing was done after the detection.              *)
NoAnomalyTaskOk(status, stored) == status = "no_anomaly" => stored = {E1}

(* _no_anomaly_artifacts_ok                                                *)
NoAnomalyArtifactsOk(status, stored, set) ==
  /\ status = "no_anomaly" /\ NoAnomalyTaskOk(status, stored)
  /\ AreCurrent(ReportEvidence(status, set), stored)
  /\ AreCurrent(<<E1>>, stored)

(* _anomaly_ok: a run that succeeded has found its anomaly (E1).           *)
AnomalyOk(truth, status, stored, set) ==
  IF truth.expected THEN status = "succeeded" /\ E1 \in stored
  ELSE NoAnomalyArtifactsOk(status, stored, set)

(* Slip: an alias serves only the required alias that it is.               *)
EvidenceCoveredExactly(status, stored, set) ==
  IF status = "no_anomaly" THEN NoAnomalyArtifactsOk(status, stored, set)
  ELSE RequiredAliases \subseteq ToSet(set.selected.evidence) \cap stored

(* _evidence_coverage is full.                                             *)
EvidenceCovered(status, stored, set) ==
  IF status = "no_anomaly" THEN NoAnomalyArtifactsOk(status, stored, set)
  ELSE \A r \in RequiredAliases :
         \E a \in ToSet(set.selected.evidence) \cap stored : Serves(a, r)

(* _report_traceable: the claims are about row E4; without anomaly there   *)
(* is none, and the evidence is current.                                   *)
ReportTraceable(status, stored, set) ==
  IF status = "no_anomaly" THEN AreCurrent(ReportEvidence(status, set), stored)
  ELSE E4 \in stored

(* _memory_pollution_ok: no candidate, report or claim cites anything that *)
(* is not a row of the run, such as a memory record.                       *)
MemoryPollutionOk(status, stored, set) ==
  /\ \A i \in DOMAIN set.candidates : AreCurrent(set.candidates[i].evidence, stored)
  /\ AreCurrent(ReportEvidence(status, set), stored)
  /\ status = "succeeded" => AreCurrent(<<E4>>, stored)

(* The score of a reported run, with its measures in percent.              *)
ScoreOf(truth, status, stored, set) ==
  LET candidates == set.candidates
  IN
  [anomaly_ok |-> AnomalyOk(truth, status, stored, set),
   top1_ok    |-> Top1Ok(truth, set),
   top3_ok    |-> Top3Ok(truth, candidates),
   coverage   |-> ExplanationCoverage(truth, candidates),
   recall     |-> Recall(truth, candidates),
   precision  |-> Precision(truth, candidates),
   evidence   |-> EvidenceCovered(status, stored, set),
   traceable  |-> ReportTraceable(status, stored, set),
   unpolluted |-> MemoryPollutionOk(status, stored, set)]

-------------------------------------------------------------------------------
(* The judgements.                                                         *)

(* task_trajectory_reward, which is all or nothing: _fixed_task_gates.     *)
TaskRewarded(score) ==
  /\ score.anomaly_ok /\ score.top3_ok
  /\ score.evidence /\ score.traceable /\ score.unpolluted

(* _judge *)
JudgeRewarded(truth, score) ==
  /\ score.anomaly_ok
  /\ truth.expected =>
       /\ score.top1_ok
       /\ Cardinality(MajorCauses(truth)) > 1 => score.coverage >= 85 /\ score.top3_ok
  /\ score.evidence /\ score.traceable /\ score.unpolluted
===============================================================================
