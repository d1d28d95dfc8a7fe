------------------------------- MODULE PtvRules -------------------------------
(***************************************************************************)
(* The rules by which a round of the Predict-Test-Verify cycle is judged   *)
(* from the rounds before it (metric_rca/evals/ptv_summary.py, and the     *)
(* checks across rounds of metric_rca/evals/ptv_anti_cheat.py).            *)
(*                                                                         *)
(* The history of a round is the sequence of the earlier rounds, each a    *)
(* record of the category it selected, the categories its diagnosis left,  *)
(* its evaluation, the contract of that, and its commits.  A commit of a   *)
(* lineage may be absent.                                                  *)
(***************************************************************************)
EXTENDS Integers, Sequences, SequencesExt, FiniteSetsExt

None == "none"

(* FIX_PRIORITY.                                                           *)
FixPriority == <<"FIX-ENUM", "FIX-D", "FIX-INJ", "FIX-M", "FIX-A", "FIX-P", "FIX-T",
                 "FIX-B", "FIX-S", "FIX-G", "STRUCTURAL">>

(* The first category of the list that is in S.                            *)
FirstOf(S) ==
  LET ranks == {i \in DOMAIN FixPriority : FixPriority[i] \in S}
  IN  IF ranks = {} THEN None ELSE FixPriority[Min(ranks)]

(* _regressed_metrics: metrics that both evaluations have, and that fell.  *)
Regressed(history, eval) ==
  IF history = <<>> THEN {}
  ELSE LET before == Last(history).eval.metrics
       IN  {m \in DOMAIN before \cap DOMAIN eval.metrics : eval.metrics[m] < before[m]}

(* RULE-C1: the category of the round before is blocked after a regression.*)
Blocked(history, regressed) ==
  IF regressed = {} \/ history = <<>> THEN {} ELSE {Last(history).selected} \ {None}

(* RULE-C2: a category that both of the last two rounds left is promoted.  *)
Promoted(history) ==
  IF Len(history) < 2 THEN None
  ELSE FirstOf(history[Len(history)].left \cap history[Len(history) - 1].left)

(* RULE-C3: candidates are to be found before they are ranked.             *)
DiscoveryFirst(found) == {"FIX-D", "FIX-A"} \subseteq found

(* RULE-C5: how often the selected category came last, rounds that         *)
(* selected nothing left aside.                                            *)
Streak(history, selected) ==
  LET before == SelectSeq([i \in DOMAIN history |-> history[i].selected], LAMBDA c : c # None)
      others == {i \in DOMAIN before : before[i] # selected}
  IN  1 + Len(before) - Max(others \cup {0})

(* _controller_rules: the selection breaks none of C1, C2, C3 and C5, and  *)
(* by C4 two regressions need a decision.                                  *)
Allowed(history, found, regressed, selected, decision) ==
  /\ selected \notin Blocked(history, regressed)
  /\ Promoted(history) # None => selected \in {Promoted(history), None}
  /\ ~(DiscoveryFirst(found) /\ selected = "FIX-A")
  /\ selected # None => Streak(history, selected) <= 2
  /\ Cardinality(regressed) >= 2 => decision \in {"revert", "keep"}

(* What may be selected: the choice of the controller, or else the first   *)
(* of the categories found, or else the one found most often, which may be *)
(* any of them (_recommended_category).                                    *)
Selections(choice, found) ==
  IF choice # None THEN {choice}
  ELSE IF found = {} THEN {None}
  ELSE IF FirstOf(found) # None THEN {FirstOf(found)} ELSE found

-------------------------------------------------------------------------------
(* Slip: only the round before must not have been fixed afterwards.        *)
TwoGreenSlip(eval, lineage, prior) ==
  /\ eval.green
  /\ prior.eval.green /\ prior.lineage.post = None
  /\ prior.lineage.eval = lineage.eval
  /\ prior.contract = eval.contract

(* formal_two_green_status: this round and the one before it are green, of *)
(* the same commit and contract, and neither was fixed after its           *)
(* evaluation.                                                             *)
TwoGreen(eval, lineage, prior) ==
  /\ eval.green /\ lineage.post = None
  /\ prior.eval.green /\ prior.lineage.post = None
  /\ prior.lineage.eval = lineage.eval
  /\ prior.contract = eval.contract

(* build_commit_lineage: a fix is what was evaluated, a later fix is not.  *)
LineageIsValid(l) == l.fix \in {None, l.eval} /\ l.post # l.eval

-------------------------------------------------------------------------------
(* The checks of ptv_anti_cheat that compare with the round before.        *)

(* _check_cross_round_change.                                              *)
Stale(rows, rowsBefore, confirmation) == rows = rowsBefore /\ ~confirmation

(* _check_fix_commit: a confirmation evaluates the same commit again, any  *)
(* other round a new one that is a fix.                                    *)
CommitIsWrong(l, before, confirmation) ==
  IF confirmation THEN l.eval # before.eval ELSE l.eval = before.eval \/ l.fix = None

(* _check_stall: the last three rounds that have a summary selected the    *)
(* same category.                                                          *)
Stalled(categories) ==
  LET chosen == SelectSeq(categories, LAMBDA c : c # None)
  IN  Len(chosen) >= 3 /\ Cardinality(ToSet(chosen)) = 1
===============================================================================
