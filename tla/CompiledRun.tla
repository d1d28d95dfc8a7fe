------------------------------ MODULE CompiledRun ------------------------------
(***************************************************************************)
(* The compiler and the executor together (run in                          *)
(* metric_rca/services/run_service.py): what the executor does with the    *)
(* plans that are compiled from intents, memory hints and budgets.         *)
(***************************************************************************)
EXTENDS PlanCompiler, PlanExecutor

CONSTANT CoherentPlans   \* those of Plans whose intents agree with themselves

(* What an intent says about its scope agrees with itself and with the     *)
(* metric: a dimension and element are repeated by the filters or there    *)
(* are none, and the filters are dimensions of the metric.                 *)
Coherent(intent) ==
  /\ DOMAIN intent.filters \subseteq AllowedDimensions(intent.metric)
  /\ (intent.dim # NoValue /\ intent.element # NoValue) =>
       intent.filters \in {NoFilters, [d \in {intent.dim} |-> intent.element]}

(* The plans that compile returns for some calls.                          *)
PlansOf(cases) ==
  {r.plan : r \in {q \in {Compile(c.intent, c.hints, c.budget) : c \in cases} :
                     q.error = NoError}}

(* How the lanes of a plan are kept apart: every action writes an alias of *)
(* its own, which continues the one it declares; what it requires is       *)
(* declared before it, and matches no earlier row but those; a merge names *)
(* its sources in full, and a detection has none.                          *)
AreLanesApart(actions) ==
  \A i, j \in DOMAIN actions :
    LET a == actions[i]
        b == actions[j]
        isSource == b.produces \in ToSet(a.requires)
    IN  /\ a.writes = b.writes => i = j
        /\ IsPrefix(a.produces, a.writes)
        /\ isSource => j < i
        /\ j < i /\ (\E r \in ToSet(a.requires) : IsPrefix(r, b.writes)) => isSource
        /\ a.kind = "detect_anomaly" => a.requires = <<>>
        /\ a.kind = "merge_contribution_sets" =>
             /\ isSource => b.writes = b.produces
             /\ ToSet(a.requires) \subseteq {actions[k].produces : k \in DOMAIN actions}

ASSUME LanesAssumption == \A p \in Plans : AreLanesApart(p.actions)

(* A plan that can be carried out if nothing fails: every action is one    *)
(* that gate and tool accept once the rows of the actions before it are    *)
(* there, and the element that it leaves open has been selected by then.   *)
IsRunnable(p) ==
  \A i \in DOMAIN p.actions :
    LET a == p.actions[i]
        earlier == {p.actions[j] : j \in 1..(i - 1)}
        handed == {b \in earlier : \E r \in ToSet(a.requires) : IsPrefix(r, b.writes)}
    IN  /\ a.metric = p.metric /\ a.date = p.date
        /\ \A r \in ToSet(a.requires) : \E b \in earlier : IsPrefix(r, b.writes)
        /\ \A r \in Insists(a) : \E b \in handed : IsPrefix(r, b.writes)
        /\ a.kind = "merge_contribution_sets" =>
             ToSet(a.requires) \subseteq {b.writes : b \in earlier}
        /\ a.kind = "rank_root_causes" => \E b \in earlier : b.writes = E4
        /\ a.dynamic => \E b \in earlier :
             b.writes \in ToSet(a.requires) /\ IsPrefix(<<"E", "select">>, b.writes) /\ b.dim = a.dim
        /\ a.kind = "fetch_related_signal" => SignalAccepted(a.metric, a.dim, a.signal)
        /\ a.kind \in {"fetch_related_signal", "calculate_contribution"} =>
             FilterOf(a, a.dim) \in {NoValue} \cup (IF a.dynamic THEN {} ELSE {a.element})
        /\ InExplicitScope(p, a) /\ DimensionsAllowed(a) /\ Renderable(a)

ASSUME RunnableAssumption == \A p \in CoherentPlans : IsRunnable(p)

(* A plan that merges lanes has a budget of what its actions may need, and *)
(* more statements than that.                                              *)
AffordsItsActions(p) ==
  (\E i \in DOMAIN p.actions : p.actions[i].kind = "merge_contribution_sets") =>
    /\ Len(p.actions) <= p.budget.steps
    /\ EstimatedQueryBudget(p.actions) <= p.budget.queries
    /\ Cardinality({i \in DOMAIN p.actions : p.actions[i].kind = "drilldown_dimension"})
         <= p.budget.depth

ASSUME BudgetAssumption == \A p \in Plans : AffordsItsActions(p)

-------------------------------------------------------------------------------
(* Errors that a data or database problem can cause.                      *)
DataErrors ==
  {NoErrorCode, "NO_ANOMALY_DETECTED", "DATA_REJECTED", "SIGNAL_SELECTION_UNRESOLVED",
   "SQL_EXECUTION_FAILED", "SYSTEM_TABLE_WRITE_FAILED"}

MergesLanes == \E i \in DOMAIN plan.actions : plan.actions[i].kind = "merge_contribution_sets"

(* A plan of a coherent intent never fails for a reason that lies in the   *)
(* plan: no evidence missing, no action out of scope, no dynamic element   *)
(* unresolved, no query refused or impossible to render, no SQL count that *)
(* differs from the audit.  The budget may end it; but one that merges     *)
(* lanes raised its own budget to what it needs, whatever the settings are.*)
CompiledPlansNeverMisfire ==
  \/ outcome.error \in DataErrors
  \/ outcome.error = "BUDGET_EXCEEDED" /\ ~MergesLanes
  \/ plan \notin CoherentPlans

(* "... SQL failures ... produce typed errors": no exception but that of    *)
(* the database leaves the executor.                                       *)
FailuresAreTyped ==
  outcome.status = "raised" => outcome.error = "SYSTEM_TABLE_WRITE_FAILED"

(* The rows that a plan declares as the sources of an action.              *)
Sources(a) ==
  {plan.actions[j].writes :
     j \in {k \in DOMAIN plan.actions : plan.actions[k].produces \in ToSet(a.requires)}}

(* Lanes do not leak into each other: although required aliases match      *)
(* whole families, the inputs recorded with a row are exactly the rows     *)
(* that the plan declares as its sources, those of its own lane.           *)
LanesAreIsolated ==
  \A i \in DOMAIN plan.actions :
    LET a == plan.actions[i]
    IN  (a.writes \in DOMAIN evidence /\ a.kind # "rank_root_causes") =>
          evidence[a.writes].inputs = Sources(a)
===============================================================================
