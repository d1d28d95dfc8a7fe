------------------------------ MODULE ActionGate ------------------------------
(***************************************************************************)
(* The deterministic action gate (metric_rca/runtime/action_gate.py).      *)
(* GateVerdict is ActionGate.validate: Allowed, or the code of the first   *)
(* check that fails.  Its arguments:                                       *)
(*   plan     the run target, scope and budget (they are copied to the     *)
(*            RunContext)                                                  *)
(*   ctx      the counters [step, query, depth] of the RunContext          *)
(*   action   the action to be judged                                      *)
(*   graph    the aliases of the evidence graph                            *)
(*   finding  what the persisted E1 row says: "anomaly", "no_anomaly", or  *)
(*            NoValue if there is no such row                              *)
(* Budgets are natural numbers here, so BUDGET_CONFIG_INVALID is left out. *)
(*                                                                         *)
(* After the action, resolve_action_execution                              *)
(* (metric_rca/runtime/execution_contract.py) says what is charged for it  *)
(* and what its primary error is, from the tool's result and the SQL audit *)
(* counts around it.  The repository of a run always has the audit reader, *)
(* so both counts are numbers here.                                        *)
(***************************************************************************)
EXTENDS RcaPlan

Allowed == "allowed"

(* Slip: a required alias is only found in full.                           *)
HasAliasesExactly(graph, required) == ToSet(required) \subseteq graph

(* has_alias for every required alias; the family names that aliases()     *)
(* adds are prefixes, which AliasMatches accepts already.                  *)
HasAliases(graph, required) ==
  \A r \in ToSet(required) : \E a \in graph : AliasMatches(a, r)

(* _global_explanatory_scope_allowed *)
GlobalExplanatory(action, dim) ==
  /\ action.policy = "global_explanatory"
  /\ action.dim = dim
  /\ action.kind \in {"select_signal_element", "fetch_related_signal", "calculate_contribution"}

(* _explicit_multi_driver_scope_error: the action stays in the scope.      *)
MultiDriverInScope(action, dim, element) ==
  /\ FilterOf(action, dim) \in {NoValue, element}
  /\ \/ GlobalExplanatory(action, dim)
     \/ /\ \/ action.dim = dim
           \/ action.kind \notin {"drilldown_dimension", "calculate_contribution"}
           \/ FilterOf(action, dim) = element
        /\ ~(action.kind = "select_signal_element" /\ action.dim = dim)
        /\ \/ action.kind \notin {"fetch_related_signal", "calculate_contribution"}
           \/ action.dim # dim
           \/ action.element = element

SingleScopeInScope(action, dim, element) ==
  /\ action.dim = dim
  /\ action.kind \in {"fetch_related_signal", "calculate_contribution"} =>
       action.element = element
  /\ action.kind \in {"drilldown_dimension", "calculate_contribution"} =>
       FilterOf(action, dim) = element

(* _explicit_scope_error: only a scope of exactly one dimension binds.     *)
InExplicitScope(plan, action) ==
  \A dim \in DOMAIN plan.scope :
    (DOMAIN plan.scope = {dim} /\ action.kind \in DataKinds) =>
      CASE action.kind = "detect_anomaly" ->
             FilterOf(action, dim) = plan.scope[dim]
        [] action.kind # "detect_anomaly" /\ plan.mode = "explicit_multi_driver" ->
             MultiDriverInScope(action, dim, plan.scope[dim])
        [] OTHER -> SingleScopeInScope(action, dim, plan.scope[dim])

(* _budget_error: a rank is exempt from the step budget.                   *)
WithinBudget(budget, ctx, action) ==
  /\ ctx.step < budget.steps \/ action.kind = "rank_root_causes"
  /\ action.kind \in DataKinds => ctx.query < budget.queries
  /\ action.kind = "drilldown_dimension" => ctx.depth < budget.depth

GateVerdict(plan, ctx, action, graph, finding) ==
  IF action.metric # plan.metric \/ action.date # plan.date THEN "METRIC_SCOPE_VIOLATION"
  ELSE IF ~HasAliases(graph, action.requires) THEN "EVIDENCE_MISSING"
  ELSE IF ~InExplicitScope(plan, action) THEN "ACTION_SCHEMA_INVALID"
  ELSE IF action.kind \in DownstreamKinds /\ finding = "no_anomaly"
       THEN "NO_ANOMALY_CONTRACT_VIOLATED"
  ELSE IF ~WithinBudget(plan.budget, ctx, action) THEN "BUDGET_EXCEEDED"
  ELSE Allowed

-------------------------------------------------------------------------------
(* The execution contract.                                                 *)

NoErrorCode == "none"

ActualSqlCount(declared, before, after) ==
  IF declared < 0 \/ after < before THEN 0 ELSE after - before

(* Slip: only the counts are compared.                                     *)
PrimaryErrorOfCounts(ok, code, declared, before, after) ==
  IF declared < 0 THEN "TOOL_SQL_COUNT_INVALID"
  ELSE IF after - before # declared THEN "TOOL_SQL_COUNT_MISMATCH"
  ELSE NoErrorCode

(* The precedence ladder: invalid counts, the tool's own failure, then a   *)
(* count that differs from the audit.                                      *)
PrimaryError(ok, code, declared, before, after) ==
  IF declared < 0 THEN "TOOL_SQL_COUNT_INVALID"
  ELSE IF after < before THEN "SQL_AUDIT_INVALID"
  ELSE IF ~ok THEN code
  ELSE IF after - before # declared THEN "TOOL_SQL_COUNT_MISMATCH"
  ELSE NoErrorCode
===============================================================================
