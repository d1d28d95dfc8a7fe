-------------------------------- MODULE Verdict --------------------------------
(***************************************************************************)
(* From the facts of a question to the verdict on it: the lanes of a plan  *)
(* attribute the anomaly, their sets are merged and ranked, the reflection *)
(* accepts the result or fails the run, the projector reports it and the   *)
(* evaluation scores it.  Each action is a step of the plan                *)
(* (metric_rca/runtime/tool_executor.py calls the tools) or of             *)
(* RunService.run after it (metric_rca/runtime/run_service.py); what the   *)
(* executor does around the steps of a plan is PlanExecutor's subject.     *)
(***************************************************************************)
EXTENDS Scoring

CONSTANTS
  Questions,  \* the facts of the questions that are asked
  Truths      \* what their cases may expect

(* The facts describe every lane of the plan of a question, and a truth    *)
(* has a cause where an anomaly is expected.                               *)
ASSUME QuestionsAssumption ==
  \A q \in Questions :
    /\ q.anomalous \in BOOLEAN /\ q.bad \in BOOLEAN
    /\ q.chains = ChainsOf(q)
    /\ Drilled(q) \subseteq DOMAIN q.drop
    /\ \A i \in DOMAIN q.chains : q.pick[i] \in DOMAIN q.drop[q.chains[i].dim]

ASSUME TruthsAssumption ==
  \A t \in Truths : t.expected => \E i \in DOMAIN t.causes : t.causes[i].weight > 0

VARIABLES
  f,       \* the facts of the question
  phase,   \* how far the run is
  stored,  \* the aliases of the stored rows
  sets,    \* the contribution sets of the lanes that were calculated
  e4,      \* the contribution set of row E4
  erank,   \* the contribution set of row E_rank
  errors,  \* the errors of the reflection
  truth,   \* what the case expects, once the run is scored
  score    \* the score of the run

vars == <<f, phase, stored, sets, e4, erank, errors, truth, score>>
scoring == <<truth, score>>

NoTruth == [expected |-> FALSE, causes |-> <<>>]
NoScore == [anomaly_ok |-> FALSE]

Init ==
  /\ f \in Questions
  /\ phase = "start"
  /\ stored = {} /\ sets = <<>> /\ errors = {}
  /\ e4 = NoSet /\ erank = NoSet
  /\ truth = NoTruth /\ score = NoScore

(* detect_anomaly, after which a run without anomaly has nothing to do.    *)
Detect ==
  /\ phase = "start"
  /\ stored' = {E1}
  /\ phase' = IF f.anomalous THEN "lanes" ELSE "no_anomaly"
  /\ UNCHANGED <<f, sets, e4, erank, errors, scoring>>

(* calculate_contribution of the next lane, after its drilldown, selection *)
(* and signal.  The only lane of a plan writes E4 itself.                  *)
CalculateLane ==
  LET i == Len(sets) + 1
      chain == f.chains[i]
  IN  /\ phase = "lanes" /\ i \in DOMAIN f.chains
      /\ IsAttributed(f, chain)
      /\ sets' = Append(sets, LaneSet(f, i))
      /\ stored' = stored \cup ToSet(chain.base) \cup {chain.e3, chain.e4}
      /\ e4' = IF IsMerged(f) THEN e4 ELSE LaneSet(f, i)
      /\ UNCHANGED <<f, phase, erank, errors, scoring>>

(* ATTRIBUTION_COVERAGE_LOW: the element of the lane explains nothing.     *)
LaneExplainsNothing ==
  LET i == Len(sets) + 1
      chain == f.chains[i]
  IN  /\ phase = "lanes" /\ i \in DOMAIN f.chains
      /\ ~IsAttributed(f, chain)
      /\ stored' = stored \cup ToSet(chain.base) \cup {chain.e3}
      /\ phase' = "failed"
      /\ UNCHANGED <<f, sets, e4, erank, errors, scoring>>

LanesDone == phase = "lanes" /\ Len(sets) = Len(f.chains)

(* merge_contribution_sets writes E4.                                      *)
Merge ==
  /\ LanesDone /\ IsMerged(f) /\ ~IsWritten(e4)
  /\ e4' = MergedSet(sets, [i \in DOMAIN sets |-> f.chains[i].e4])
  /\ stored' = stored \cup {E4}
  /\ UNCHANGED <<f, phase, sets, erank, errors, scoring>>

(* rank_root_causes updates E4 first,                                      *)
UpdateE4 ==
  /\ LanesDone /\ IsWritten(e4)
  /\ e4' = RankedSet(f, e4)
  /\ phase' = "updated"
  /\ UNCHANGED <<f, stored, sets, erank, errors, scoring>>

(* then writes E_rank,                                                     *)
WriteERank ==
  /\ phase = "updated"
  /\ erank' = e4
  /\ stored' = stored \cup {ERank}
  /\ phase' = "ranked"
  /\ UNCHANGED <<f, sets, e4, errors, scoring>>

(* unless that write fails, and the run with it.                           *)
RankInterrupted ==
  /\ phase = "updated"
  /\ phase' = "failed"
  /\ UNCHANGED <<f, stored, sets, e4, erank, errors, scoring>>

(* The reflection fails a plan that ran to its end with any error; of a    *)
(* run without anomaly it has no say.                                      *)
Reflect ==
  /\ phase \in {"ranked", "no_anomaly"}
  /\ errors' = IF phase = "ranked" THEN Errors(f, stored, e4, erank)
               ELSE NoAnomalyErrors(stored)
  /\ phase' = CASE phase = "no_anomaly"            -> "quiet"
                [] phase = "ranked" /\ errors' = {} -> "accepted"
                [] OTHER                            -> "failed"
  /\ UNCHANGED <<f, stored, sets, e4, erank, scoring>>

StatusOf == IF phase = "quiet" THEN "no_anomaly" ELSE "succeeded"

(* The run ends with a report and is scored from the stored rows, against  *)
(* the truth of its case; or it has no report (REPORT_PROJECTION_FAILED)   *)
(* and fails.                                                              *)
ReportAndScore ==
  /\ phase \in {"quiet", "accepted"}
  /\ \E t \in Truths :
       IF Reportable(StatusOf, stored, e4.selected)
       THEN phase' = "scored" /\ truth' = t /\ score' = ScoreOf(t, StatusOf, stored, e4)
       ELSE phase' = "unreported" /\ UNCHANGED scoring
  /\ UNCHANGED <<f, stored, sets, e4, erank, errors>>

Next ==
  \/ Detect
  \/ CalculateLane
  \/ LaneExplainsNothing
  \/ Merge
  \/ UpdateE4
  \/ WriteERank
  \/ RankInterrupted
  \/ Reflect
  \/ ReportAndScore

Spec == Init /\ [][Next]_vars

-------------------------------------------------------------------------------
(* Properties.                                                             *)

(* Whatever the facts, the ranked set of a plan that ran to its end is     *)
(* whole: every candidate cites stored rows of all kinds and the selected  *)
(* one heads the list, so that the reflection can only object to what the  *)
(* signals say or to how little is explained, and the projector, which     *)
(* looks at the evidence again, reports what the reflection accepted.      *)
OnlySignalsOrCoverageRefute ==
  /\ errors \subseteq {"signal_consistency", "ATTRIBUTION_COVERAGE_LOW"}
  /\ phase # "unreported"

(* The candidate that was selected before the ranking.                     *)
Attested ==
  IF IsMerged(f) THEN MergedSet(sets, [i \in DOMAIN sets |-> f.chains[i].e4]).selected
  ELSE sets[1].selected

(* A selection that a stored signal confirms is never given up for one     *)
(* that none confirms: no rule of the ranking, and not the weight that the *)
(* Adtributor gives to other elements, outranks the evidence.              *)
VerifiedIsNotOutranked ==
  phase = "ranked" /\ IsVerified(f, Attested) => IsVerified(f, e4.selected)

(* The ranked causes are distinct, so that the first three of a report are *)
(* three causes, and both rows of the ranking agree on them.               *)
CausesAreDistinct ==
  IsWritten(erank) =>
    /\ e4 = erank
    /\ \A i, j \in DOMAIN erank.candidates :
         i # j => KeyOf(erank.candidates[i]) # KeyOf(erank.candidates[j])

(* The causes that a run reports: the evidence chose the first, and no     *)
(* cause is among them twice.                                              *)
CausesAreSound == VerifiedIsNotOutranked /\ CausesAreDistinct

(* The diagnosis of a case is right.                                       *)
IsRight ==
  IF truth.expected
  THEN /\ IsWritten(e4)
       /\ \A cause \in MajorCauses(truth) : Found(cause, FirstThree(e4.candidates))
       /\ MajorCauses(truth) # {}
  ELSE ~IsWritten(e4)

(* Every run that was reported is rewarded for its diagnosis alone: the    *)
(* gates on evidence, claims and pollution, which the reward shares with   *)
(* the reflection, withhold no reward from a right diagnosis.  What the    *)
(* judge of the dataset rewards, by its stricter view of the first cause,  *)
(* is a trajectory that the task reward accepts too.                       *)
RewardIsEarned ==
  phase = "scored" =>
    /\ TaskRewarded(score) <=> IsRight
    /\ JudgeRewarded(truth, score) => TaskRewarded(score)

(* The measures of one score, which an evaluation averages and compares    *)
(* with thresholds of their own, do not contradict each other: a cause is  *)
(* found exactly if a candidate is right, and everything is explained      *)
(* exactly if every cause is found; and a rewarded run has all the weight  *)
(* of its major causes.                                                    *)
MeasuresAgree ==
  phase = "scored" =>
    /\ score.recall = 0 <=> score.precision = 0
    /\ score.recall = 100 <=> score.coverage = 100
    /\ TaskRewarded(score) =>
         LET major == SelectSeq(truth.causes, LAMBDA c : c \in MajorCauses(truth))
         IN  score.coverage >= Percent(WeightOf(major), WeightOf(truth.causes))
===============================================================================
