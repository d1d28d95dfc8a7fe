-------------------------------- MODULE Rewards --------------------------------
(***************************************************************************)
(* What is predicted of the cases of an evaluation                         *)
(* (metric_rca/evals/prediction.py), how far a prediction is from what the *)
(* evaluation then measured (metric_rca/evals/gap_analyzer.py), and the    *)
(* rewards of the training records that come of it (grpo_rewards.py) with  *)
(* the contract a reward has to keep (grpo_schema.py).                     *)
(*                                                                         *)
(* A prediction is a record [case, aspect, says, sound, cites]: says is a  *)
(* function from the keys it states, sound stands for a reasoning, risks   *)
(* and a confidence in range, cites for a reasoning that cites code; what  *)
(* it says has the type of its key.  A measured row is the score of a case *)
(* with the details the analysis reads, its rates in percent.              *)
(*                                                                         *)
(* A reward is a record [total, eligible, fix]: the total is the weighted  *)
(* average of the components, here their weighted sum in eighths, of which *)
(* only the sign matters; fix is the assessment of a fix or NoFix.         *)
(* Metrics are functions from the tracked aggregates that an evaluation    *)
(* has.                                                                    *)
(*                                                                         *)
(* A round of a cycle is a record of what its artifacts say:               *)
(*   metrics, met       the tracked aggregates and thresholds_met          *)
(*   green              metricrca_gates_passed                             *)
(*   rules              the record of the controller rules is complete     *)
(*   selected           the category of fix it selected, or Null           *)
(*   diagnosis          its rows [case, category, files]                   *)
(*   fix                its fix_commit: the files it changed, or NoCommit; *)
(*                      {} when there is no diff to be shown               *)
(*   cases              the measured row of each case                      *)
(*   predictions        what was predicted                                 *)
(*   tasks              the dataset of the evaluation: NoTasks, or its     *)
(*                      rows, the number its manifest states and whether   *)
(*                      it is of this evaluation                           *)
(***************************************************************************)
EXTENDS Integers, Sequences, SequencesExt, FiniteSetsExt

Null == "null"

KnownAspects == {"intent", "execution", "evidence", "memory", "outcome", "multi_cause_outcome"}

(* ASPECT_REQUIRED_KEYS; an execution states one of three.                 *)
RequiredKeys == [intent              |-> {"metric_id"},
                 execution           |-> {},
                 evidence            |-> {"chain"},
                 memory              |-> {"influence"},
                 outcome             |-> {"root_cause_type"},
                 multi_cause_outcome |-> {"root_causes", "top3_ok"}]
ExecutionKeys == {"step_count", "tool_sequence", "critical_decisions"}

DownstreamTools ==
  {"drilldown_dimension", "fetch_related_signal", "calculate_contribution", "rank_root_causes"}

(* payload.get(key, default)                                               *)
Says(p, key, default) == IF key \in DOMAIN p.says THEN p.says[key] ELSE default

(* validate_prediction                                                     *)
IsPrediction(p) ==
  /\ p.sound /\ p.aspect \in KnownAspects
  /\ RequiredKeys[p.aspect] \subseteq DOMAIN p.says
  /\ p.aspect = "execution" => ExecutionKeys \cap DOMAIN p.says # {}

(* A no-anomaly prediction names no cause and claims success.              *)
PredictsNoAnomaly(p) ==
  /\ {Says(p, key, Null) : key \in {"root_cause_type", "dimension", "element"}} = {Null}
  /\ Says(p, "top1_ok", FALSE) /\ Says(p, "anomaly_ok", FALSE)

(* aspects.get(aspect), a set of at most one: the last of the case counts. *)
LastOf(predictions, case, aspect) ==
  LET own == {i \in DOMAIN predictions : predictions[i].case = case
                                          /\ predictions[i].aspect = aspect}
  IN  {predictions[i] : i \in {j \in own : \A k \in own : k <= j}}

(* _validate_no_anomaly_execution_predictions: who predicts that nothing   *)
(* is wrong predicts that nothing is drilled down, too.                    *)
StopsEarly(p) ==
  /\ "detect_anomaly" \in ToSet(Says(p, "tool_sequence", <<>>))
  /\ DownstreamTools \subseteq Says(p, "forbidden_tools", {})

Consistent(predictions, case) ==
  \A outcome \in LastOf(predictions, case, "outcome") :
    PredictsNoAnomaly(outcome) =>
      \E execution \in LastOf(predictions, case, "execution") : StopsEarly(execution)

(* validate_predictions gives no warning.                                  *)
ArePredictions(predictions) ==
  /\ \A p \in ToSet(predictions) : IsPrediction(p)
  /\ \A p \in ToSet(predictions) : Consistent(predictions, p.case)

-------------------------------------------------------------------------------
(* The divergences, one operator for an aspect.                            *)

Correct    == "correct"
Complexity == "complexity_gap"
DesignFlaw == "design_flaw"
Overfit    == "overfit"
Divergences == {Correct, Complexity, DesignFlaw, Overfit}

OfIntent(p, a) ==
  IF /\ Null \notin {Says(p, "metric_id", Null), a.metric_id}
     /\ Says(p, "metric_id", Null) # a.metric_id
  THEN DesignFlaw ELSE Correct

(* _analyze_execution_invariants: no forbidden tool, the others in order.  *)
OfTools(p, a) ==
  IF \/ Says(p, "forbidden_tools", {}) \cap ToSet(a.tools) # {}
     \/ Says(p, "tool_sequence", <<>>) \notin AllSubSeqs(a.tools)
  THEN DesignFlaw ELSE Correct

OfExecution(p, a) ==
  CASE "step_count" \notin DOMAIN p.says         -> OfTools(p, a)
    [] a.steps > Says(p, "step_count", 0) + 1    -> Complexity
    [] a.steps < Says(p, "step_count", 0) - 1    -> Overfit
    [] OTHER                                     -> Correct

OfEvidence(p, a) ==
  CASE a.evidence_coverage < 100                  -> DesignFlaw
    [] ~Says(p, "evidence_coverage_full", TRUE)   -> Overfit
    [] OTHER                                      -> Correct

OfMemory(p, a) ==
  CASE a.memory_pollution_ok /\ Says(p, "pollution_risk", FALSE)   -> Overfit
    [] a.memory_pollution_ok /\ ~Says(p, "pollution_risk", FALSE)  -> Correct
    [] ~a.memory_pollution_ok /\ Says(p, "pollution_risk", FALSE)  -> Complexity
    [] OTHER                                                       -> DesignFlaw

(* Another cause than the predicted one is a flaw, but looked at only when *)
(* the first cause was to be right and is not.                             *)
OtherCause(p, a) ==
  /\ Null \notin {Says(p, "root_cause_type", Null), a.cause}
  /\ Says(p, "root_cause_type", Null) # a.cause

OfOutcome(p, a) ==
  CASE ~a.intent_ok                                    -> DesignFlaw
    [] Says(p, "top1_ok", TRUE) /\ ~a.top1_ok          ->
         IF OtherCause(p, a) THEN DesignFlaw ELSE Complexity
    [] ~Says(p, "top1_ok", TRUE) /\ a.top1_ok          -> Overfit
    [] Says(p, "anomaly_ok", TRUE) /\ ~a.anomaly_ok    -> DesignFlaw
    [] OTHER                                           -> Correct

OfCauses(p, a) ==
  CASE p.says["top3_ok"] /\ (~a.top3_ok \/ a.recall < 85 \/ a.weighted < 85) -> Complexity
    [] ~p.says["top3_ok"] /\ a.top3_ok                                        -> Overfit
    [] OTHER                                                                  -> Correct

(* _ASPECT_ANALYZERS, of the predictions that are validated.               *)
Divergence(p, a) ==
  CASE p.aspect = "intent"              -> OfIntent(p, a)
    [] p.aspect = "execution"           -> OfExecution(p, a)
    [] p.aspect = "evidence"            -> OfEvidence(p, a)
    [] p.aspect = "memory"              -> OfMemory(p, a)
    [] p.aspect = "outcome"             -> OfOutcome(p, a)
    [] p.aspect = "multi_cause_outcome" -> OfCauses(p, a)

(* analyze_gaps: a row for each prediction, in their order.  measured is a *)
(* function from the cases the evaluation has.                             *)
GapOf(p, measured) ==
  [case |-> p.case, aspect |-> p.aspect,
   divergence |-> IF p.case \in DOMAIN measured THEN Divergence(p, measured[p.case])
                  ELSE Complexity]

AnalyzeGaps(predictions, measured) ==
  [i \in DOMAIN predictions |-> GapOf(predictions[i], measured)]

-------------------------------------------------------------------------------
(* Rewards.                                                                *)

NoCommit == {<<"none">>}
NoTasks  == <<>>

(* fix_category is there and is not NO-FIX.                                *)
IsActionable(row) == row.category \notin {Null, "NO-FIX"}

ActionableOf(round) == SelectSeq(round.diagnosis, IsActionable)
CategoriesOf(round) == {row.category : row \in ToSet(ActionableOf(round))}
TargetsOf(round)    == {row.case : row \in ToSet(ActionableOf(round))}
ProposedOf(round)   == UNION {row.files : row \in ToSet(ActionableOf(round))}

-------------------------------------------------------------------------------

NoFix == <<>>

(* A component worth 1 when the condition holds.                           *)
Worth(condition, eighths, otherwise) == IF condition THEN eighths ELSE otherwise

Reward(total, eligible, fix) == [total |-> total, eligible |-> eligible, fix |-> fix]

(* metric_deltas, of the metrics both evaluations have.                    *)
Fallen(before, after) == {m \in DOMAIN before \cap DOMAIN after : after[m] < before[m]}
Risen(before, after)  == {m \in DOMAIN before \cap DOMAIN after : after[m] > before[m]}

(* controller_reward                                                       *)
EffectOf(before, after, met) ==
  IF Fallen(before, after) # {} THEN -8
  ELSE Worth(Risen(before, after) # {} \/ met, 8, 0)

ControllerReward(before, after, met, rulesValid, supported) ==
  LET total == Worth(rulesValid, 8, -8) + Worth(supported, 8, -8) + EffectOf(before, after, met)
  IN  Reward(total,
             total > 0 /\ rulesValid /\ supported /\ Fallen(before, after) = {}, NoFix)

(* _fixed_task_gates and _case_passed.                                     *)
CasePassed(row) ==
  /\ row.intent_ok /\ row.anomaly_ok /\ row.top3_ok
  /\ row.evidence_coverage >= 100
  /\ row.sql_safe /\ row.reflection_repair_ok
  /\ row.report_traceable_ok /\ row.memory_pollution_ok

(* task_trajectory_reward                                                  *)
TaskReward(row) == Reward(Worth(CasePassed(row), 8, 0), CasePassed(row), NoFix)

(* prediction_reward                                                       *)
CorrectnessOf(divergence) ==
  CASE divergence = Correct    -> 8
    [] divergence = Complexity -> -2
    [] divergence = DesignFlaw -> -4
    [] divergence = Overfit    -> 0

PredictionReward(divergence, cites) ==
  LET total == CorrectnessOf(divergence) + Worth(cites, 8, -8)
  IN  Reward(total, divergence = Correct /\ cites /\ total > 0, NoFix)

-------------------------------------------------------------------------------
(* assess_coding_fix, of the rows of the cases before and after it, the    *)
(* cases and the files of the diagnosis, and the files that were changed.  *)

Recovered(before, after, targets) ==
  {c \in targets \cap DOMAIN before \cap DOMAIN after :
     ~CasePassed(before[c]) /\ CasePassed(after[c])}

LostCases(before, after) ==
  {c \in DOMAIN before \cap DOMAIN after : CasePassed(before[c]) /\ ~CasePassed(after[c])}

(* Files below tests/ and docs/ accompany a fix.                           *)
CodeFiles(files) == {f \in files : f[1] = "code"}

(* Every target recovers.                                                  *)
Effective(before, after, targets) ==
  targets # {} /\ Recovered(before, after, targets) = targets

Minimal(changed, proposed) ==
  /\ changed # {} /\ CodeFiles(changed) \subseteq proposed
  /\ Cardinality(changed) <= Max({1, Cardinality(proposed) + 4})

AssessCodingFix(before, after, targets, changed, proposed) ==
  LET regressed == \/ LostCases(before.cases, after.cases) # {}
                   \/ Fallen(before.metrics, after.metrics) # {}
  IN  [effective |-> Effective(before.cases, after.cases, targets) /\ ~regressed,
       minimal   |-> Minimal(changed, proposed),
       regressed |-> regressed]

(* coding_fix_reward; whether a fix is minimal has half the weight.        *)
CodingFixReward(fix) ==
  LET total == Worth(fix.effective, 8, -8) + Worth(fix.minimal, 4, -2)
                 + Worth(fix.regressed, -8, 8)
  IN  Reward(total, fix.effective /\ fix.minimal /\ ~fix.regressed /\ total > 0, fix)

-------------------------------------------------------------------------------
(* RewardRecord.validate: a positive example has a positive reward, and    *)
(* exactly the rewards of fixes carry an assessment.                       *)
RewardIsValid(reward, layer) ==
  /\ reward.eligible => reward.total > 0
  /\ (layer = "layer3_coding_fix") <=> (DOMAIN reward.fix # {})
===============================================================================
