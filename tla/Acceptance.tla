------------------------------ MODULE Acceptance ------------------------------
(***************************************************************************)
(* When an evaluation is accepted: what it sums up of the scores of its    *)
(* cases (metric_rca/evals/scorer.py), the thresholds of the direct runner *)
(* (metric_rca/evals/runner.py) and those of the HTTP client               *)
(* (metric_rca/evals/client.py), which are lists of their own.             *)
(*                                                                         *)
(* An evaluation is a record [suite, enabled, disabled]: the rows of the   *)
(* pass with memory and of the pass without, which the runner counts as    *)
(* the scores.  A row is what CasePassed reads with [case, tags, top1_ok,  *)
(* recall, precision, weighted, task_ok, memory_read]; averages are in     *)
(* millionths, of percentages.  The guard always blocks the dangerous      *)
(* statement it is asked about.                                            *)
(***************************************************************************)
EXTENDS Rewards, Functions

CONSTANT Evaluations   \* the evaluations that may end

(* The memory suite has cases that only a prior solves.                    *)
Suites == {"regression", "memory-treatment"}

VARIABLES
  evaluation,  \* one that has scored its cases, or none
  met          \* who accepts it, or Open before it is summed up

avars == <<evaluation, met>>

NoEvaluation == <<>>
Open         == {"open"}

AcceptanceInit == evaluation \in Evaluations /\ met = Open

-------------------------------------------------------------------------------
(* The summary.                                                            *)

Whole == 1000000

(* _rate and _score_rate, of a field that is true or false                 *)
Rate(rows, field) ==
  IF rows = <<>> THEN 0
  ELSE (Whole * Cardinality({i \in DOMAIN rows : rows[i][field]})) \div Len(rows)

Average(rows, field) ==
  ((Whole \div 100) * SumFunction([i \in DOMAIN rows |-> rows[i][field]])) \div Len(rows)

Holds(rows, field) == \A i \in DOMAIN rows : rows[i][field]

(* Some questions are traps: nothing is wrong with what they ask about.    *)
Traps == {"gmv_no_anomaly", "C19_gmv_seasonal_false_positive", "C20_cvr_no_anomaly_noise",
          "C22_gmv_borderline"}

(* _all_no_anomaly_traps_clean                                             *)
TrapsAreClean(rows) ==
  LET traps == {i \in DOMAIN rows : rows[i].case \in Traps}
  IN  traps # {} /\ \A i \in traps : rows[i].task_ok /\ rows[i].anomaly_ok

(* summarize_scores; dominant_top1_ok is top1_ok, and                      *)
(* top3_contains_all_major_causes is top3_ok.                              *)
SummarizeScores(rows) ==
  [case_total           |-> Len(rows),
   intent_accuracy      |-> Rate(rows, "intent_ok"),
   top1_rate            |-> Rate(rows, "top1_ok"),
   top3_rate            |-> Rate(rows, "top3_ok"),
   recall_avg           |-> Average(rows, "recall"),
   precision_avg        |-> Average(rows, "precision"),
   weighted_avg         |-> Average(rows, "weighted"),
   anomaly_accuracy     |-> Rate(rows, "anomaly_ok"),
   evidence_avg         |-> Average(rows, "evidence_coverage"),
   sql_safe_rate        |-> Rate(rows, "sql_safe"),
   traceable_rate       |-> Rate(rows, "report_traceable_ok"),
   reflection_repair_ok |-> Holds(rows, "reflection_repair_ok"),
   no_anomaly_correct   |-> TrapsAreClean(rows)]

(* summarize_memory_retrieval                                              *)
SummarizeMemory(enabled, disabled) ==
  [hit_improvement     |-> Rate(enabled, "top1_ok") - Rate(disabled, "top1_ok"),
   memory_pollution_ok |-> Holds(enabled \o disabled, "memory_pollution_ok")]

(* _scenario_family: a leading tag, or the first that says something.      *)
LeadingTags == <<"no_anomaly", "unsupported", "data_missing", "memory_treatment", "multi_cause">>
IgnoredTags == {"mvp", "p7", "e1", "e2", "e3", "discovery", "specified_slice", "gmv_family",
                "rate_family"}

FamilyOf(row) ==
  LET leading == SelectSeq(LeadingTags, LAMBDA tag : tag \in ToSet(row.tags))
      telling == SelectSeq(row.tags, LAMBDA tag : tag \notin IgnoredTags)
  IN  Head(leading \o telling \o <<"regression">>)

StrictFamilies == {"no_anomaly", "unsupported", "data_missing"}

(* Slip: what most of the cases can do, their families need not.           *)
FamilyPassesSlip(family, rows) ==
  /\ family \in StrictFamilies => Rate(rows, "anomaly_ok") = Whole
  /\ Average(rows, "evidence_coverage") = Whole

(* _family_metrics and _per_family_gate                                    *)
FamilyPasses(family, rows) ==
  /\ IF family \in StrictFamilies THEN Rate(rows, "anomaly_ok") = Whole
     ELSE 100 * Rate(rows, "top3_ok") >= 85 * Whole
  /\ \A i \in DOMAIN rows : rows[i].evidence_coverage = 100
  /\ Holds(rows, "memory_pollution_ok")

(* _per_family_summary                                                     *)
FamiliesPass(rows) ==
  /\ rows # <<>>
  /\ \A family \in {FamilyOf(rows[i]) : i \in DOMAIN rows} :
       FamilyPasses(family, SelectSeq(rows, LAMBDA r : FamilyOf(r) = family))

(* Slip: that a prior was read is not looked at.                           *)
MemoryDecidesSlip(enabled, disabled) ==
  /\ enabled # <<>>
  /\ Rate(enabled, "top1_ok") = Whole /\ Rate(disabled, "top1_ok") = 0

(* _memory_treatment_gate; both passes have the same cases.                *)
MemoryDecides(enabled, disabled) ==
  LET sound(row) == row.evidence_coverage = 100 /\ row.memory_pollution_ok
  IN  /\ enabled # <<>>
      /\ Rate(enabled, "top1_ok") = Whole /\ Rate(disabled, "top1_ok") = 0
      /\ \A i \in DOMAIN enabled :
           /\ sound(enabled[i]) /\ sound(disabled[i])
           /\ enabled[i].memory_read /\ ~disabled[i].memory_read

-------------------------------------------------------------------------------
(* The thresholds.                                                         *)

AtLeast(value, percent) == 100 * value >= percent * Whole

(* What runner and client ask of each suite.                               *)
AllSound(s, memory) ==
  /\ s.case_total > 0
  /\ Whole = s.intent_accuracy /\ Whole = s.anomaly_accuracy /\ Whole = s.evidence_avg
  /\ Whole = s.sql_safe_rate /\ Whole = s.traceable_rate
  /\ s.reflection_repair_ok /\ memory.memory_pollution_ok

(* _http_thresholds_met, of a complete evaluation                          *)
HttpThresholdsMet(e) ==
  LET s      == SummarizeScores(e.disabled)
      memory == SummarizeMemory(e.enabled, e.disabled)
  IN  /\ AllSound(s, memory)
      /\ AtLeast(s.top1_rate, 80) /\ AtLeast(s.top3_rate, 90)
      /\ memory.hit_improvement >= 0 /\ s.no_anomaly_correct

(* _memory_treatment_thresholds_met                                        *)
MemoryThresholdsMet(e) ==
  /\ AllSound(SummarizeScores(e.disabled), SummarizeMemory(e.enabled, e.disabled))
  /\ MemoryDecides(e.enabled, e.disabled)

(* _thresholds_met, of a complete evaluation                               *)
ThresholdsMet(e) ==
  LET s      == SummarizeScores(e.disabled)
      memory == SummarizeMemory(e.enabled, e.disabled)
  IN  IF e.suite = "memory-treatment" THEN MemoryThresholdsMet(e)
      ELSE /\ AllSound(s, memory)
           /\ AtLeast(s.top1_rate, 80) /\ AtLeast(s.top3_rate, 90)
           /\ AtLeast(s.recall_avg, 85) /\ AtLeast(s.precision_avg, 85)
           /\ AtLeast(s.weighted_avg, 85)
           /\ memory.hit_improvement >= 0 /\ s.no_anomaly_correct
           /\ FamiliesPass(e.disabled)

(* The summary of an evaluation that is complete, by the runner or by the  *)
(* client.                                                                 *)
SumUp ==
  /\ evaluation # NoEvaluation /\ met = Open
  /\ met' = (IF ThresholdsMet(evaluation) THEN {"runner"} ELSE {})
              \cup (IF HttpThresholdsMet(evaluation) THEN {"client"} ELSE {})
  /\ UNCHANGED evaluation

-------------------------------------------------------------------------------
(* Properties.                                                             *)

AcceptedBy(who) == evaluation # NoEvaluation /\ who \in met

(* A regression evaluation that the runner accepts stands for its cases:   *)
(* nine of ten would pass as positive examples of a training set, and the  *)
(* others fail by their first three causes alone; these are of families of *)
(* at least seven cases, so that no small family is given up for the sake  *)
(* of the average; no trap caught it; and the client would have accepted   *)
(* it as well.                                                             *)
RegressionIsEarned ==
  (AcceptedBy("runner") /\ evaluation.suite = "regression") =>
    LET rows   == evaluation.disabled
        passed == {i \in DOMAIN rows : CasePassed(rows[i])}
        kin(i) == {j \in DOMAIN rows : FamilyOf(rows[j]) = FamilyOf(rows[i])}
    IN  /\ "client" \in met
        /\ 10 * Cardinality(passed) >= 9 * Len(rows)
        /\ \A i \in DOMAIN rows \ passed :
             CasePassed([rows[i] EXCEPT !.top3_ok = TRUE]) /\ Cardinality(kin(i)) >= 7
        /\ \A i \in DOMAIN rows : rows[i].case \in Traps => rows[i].task_ok

(* An accepted memory evaluation shows, for each of its cases, that memory *)
(* alone made the difference: with a prior its first cause was right, and  *)
(* without one it was not.                                                 *)
MemoryIsEarned ==
  (AcceptedBy("runner") /\ evaluation.suite = "memory-treatment") =>
    \A i \in DOMAIN evaluation.enabled :
      LET with == evaluation.enabled[i]  without == evaluation.disabled[i]
      IN  with.memory_read /\ with.top1_ok /\ ~without.memory_read /\ ~without.top1_ok

(* What an accepted evaluation stands for.                                 *)
AcceptanceIsEarned == RegressionIsEarned /\ MemoryIsEarned
===============================================================================
