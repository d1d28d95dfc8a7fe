------------------------------ MODULE Reflection ------------------------------
(***************************************************************************)
(* verify_reflection (metric_rca/agent/reflection.py) on the state that    *)
(* the run service hands it, RunService._reflection_state: the stored      *)
(* rows, the candidates of E4, no repair and no report.  The result is the *)
(* set of the codes of its errors.  A row of a run is current, passed the  *)
(* guard and is read twice unchanged, so what can be wrong is what a       *)
(* candidate cites, how much it explains and what its signal says.         *)
(***************************************************************************)
EXTENDS Ranking

RequiredAliases == {E1, <<"E2">>, <<"E3">>, E4, ERank}

(* An alias serves a required one that is it or its prefix.                *)
Serves(alias, required) == IsPrefix(required, alias)

(* _missing_required_aliases.  Every candidate is confirmed or likely.     *)
BindsRequired(c) ==
  \A r \in RequiredAliases : \E a \in ToSet(c.evidence) : Serves(a, r)

(* _low_coverage_repair_applies: the ranking by the Adtributor excuses a   *)
(* candidate that both rows select.                                        *)
CoverageTooLow(f, c, e4, erank) ==
  /\ c.contribution < 50
  /\ f.metric \in AdditiveMetrics
  /\ ~( /\ {E4, ERank} \subseteq ToSet(c.evidence)
        /\ AdtributorApplies(f)
        /\ e4.selected = c /\ erank.selected = c )

-------------------------------------------------------------------------------
(* The signal of the first candidate.                                      *)

(* The lane whose signal the candidate cites first, 0 if it cites none:    *)
(* _candidate_e3_evidence.                                                 *)
CitedLane(f, c) ==
  LET chains == f.chains
      e3s == SelectSeq(c.evidence, LAMBDA a : Serves(a, <<"E3">>))
  IN  IF e3s = <<>> THEN 0
      ELSE Min({i \in DOMAIN chains : chains[i].e3 = Head(e3s)})

IsOf(chain, pair) == <<chain.dim, chain.pick>> = pair

(* _aov_drop_is_proven_by_e4_decomposition *)
OrderValueProven(f, c, e4) ==
  /\ c.type = "aov_drop" /\ E4 \in ToSet(c.evidence)
  /\ CitedLane(f, c) # 0 /\ IsOf(f.chains[CitedLane(f, c)], Pair(c))
  /\ e4.orderValue

(* _has_non_causal_single_dimension_signal: the first cited signal of the  *)
(* pair does not explain the anomaly by itself.                            *)
ExplainsNothingAlone(f, c, pair) ==
  LET chains == f.chains
      about(a) == {i \in DOMAIN chains : chains[i].e3 = a /\ IsOf(chains[i], pair)}
      cited == SelectSeq(c.evidence, LAMBDA a : about(a) # {})
  IN  /\ cited # <<>>
      /\ \A i \in about(Head(cited)) : ~(f.signal[i].anomalous /\ f.signal[i].bad)

(* _interaction_is_proven_by_cross_chain_evidence *)
InteractionProven(f, c) ==
  LET pairs == {p \in c.pairs \cup {Pair(c)} : p[1] \in {"channel", "category"}}
  IN  /\ c.type = "interaction"
      /\ {p[1] : p \in pairs} = {"channel", "category"}
      /\ f.bad
      /\ {<<"E4", "channel">>, <<"E4", "category">>} \subseteq ToSet(c.evidence)
      /\ \A p \in pairs : ExplainsNothingAlone(f, c, p)

(* select_signal_type for a cause: the policies of the cause, else those   *)
(* without one; NoValue if there are none or they disagree.                *)
ExpectedSignal(metric, dim, type) ==
  LET own == {p[4] : p \in {p \in SignalPolicies :
                              p[1] = metric /\ p[2] = dim /\ p[3] = type}}
  IN  IF own = {} THEN DefaultSignal(metric, dim)
      ELSE IF Cardinality(own) = 1 THEN CHOOSE s \in own : TRUE ELSE NoValue

(* _e3_signal_matches_candidate *)
SignalMatches(f, c, e4) ==
  \/ OrderValueProven(f, c, e4)
  \/ InteractionProven(f, c)
  \/ CitedLane(f, c) = 0
  \/ LET chain == f.chains[CitedLane(f, c)]
     IN  IsOf(chain, Pair(c)) /\ chain.signal = ExpectedSignal(f.metric, c.dim, c.type)

-------------------------------------------------------------------------------

(* The errors of a plan that ran to its end.                               *)
Errors(f, stored, e4, erank) ==
  LET all == ToSet(e4.candidates)
      top == e4.candidates[1]
      error(code, found) == IF found THEN {code} ELSE {}
  IN  error("required_evidence_present", \E c \in all : ~BindsRequired(c))
      \cup error("current_run_evidence", \E c \in all : ~(ToSet(c.evidence) \subseteq stored))
      \cup error("ATTRIBUTION_COVERAGE_LOW", CoverageTooLow(f, top, e4, erank))
      \cup error("signal_consistency", ~SignalMatches(f, top, e4))
      \cup error("candidate_traceability", E4 \in ToSet(top.evidence) /\ top # e4.selected)

(* The errors of a run without anomaly, which has no candidates.           *)
NoAnomalyErrors(stored) ==
  IF stored = {E1} THEN {} ELSE {"no_anomaly_evidence_scope"}
===============================================================================
