----------------------------- MODULE PlanExecutor -----------------------------
(***************************************************************************)
(* The plan executor (metric_rca/runtime/plan_executor.py) with the tool   *)
(* executor (metric_rca/runtime/sdk_tools.py) and the tools it calls       *)
(* (metric_rca/agent/tools/, metric_rca/runtime/ranking.py), against a     *)
(* database whose reads, queries, audit writes, evidence writes and trace  *)
(* writes may each fail.                                                   *)
(*                                                                         *)
(* One action of a plan takes these steps (pc):                            *)
(*   gate     the action gate judges it                                    *)
(*   before   the SQL audit rows of the run are counted                    *)
(*   tool     arguments are resolved, evidence is looked up                *)
(*   query    a current or baseline statement runs and is audited          *)
(*   judge    the tool decides on the rows it read                         *)
(*   rerank   rank_root_causes rewrites the E4 row                         *)
(*   persist  the evidence row is written                                  *)
(*   after    rows are counted again, the action is charged and traced     *)
(* A run has its executor, and its run_id, to itself, so only its own      *)
(* steps change its rows.                                                  *)
(***************************************************************************)
EXTENDS ActionGate, PolicyRegistry

CONSTANT Plans      \* the plans that may be handed to the executor

(* The actions are a sequence, and the budget consists of numbers.         *)
IsTyped(p) ==
  /\ p.actions \in Seq(ToSet(p.actions))
  /\ p.budget \in [steps : Nat, queries : Nat, depth : Nat]

(* What the compiler does: only the first action of a plan detects, and    *)
(* E_rank is what a rank makes, and nothing else.                          *)
HasShape(p) ==
  \A i \in DOMAIN p.actions :
    /\ p.actions[i].kind = "detect_anomaly" => i = 1
    /\ p.actions[i].kind = "rank_root_causes" <=> p.actions[i].writes = ERank

ASSUME PlansAssumption == \A p \in Plans : IsTyped(p)
ASSUME ShapeAssumption == \A p \in Plans : HasShape(p)

VARIABLES
  plan,       \* the plan being executed
  pos,        \* the index of the current action
  pc,         \* where the executor is, see above; "load" first, "done" last
  ctx,        \* the counters of the RunContext: [step, query, depth]
  graph,      \* the aliases of the in-memory EvidenceGraph
  evidence,   \* the evidence rows: alias -> [inputs, dim, content]
  audit,      \* the number of sql_audit rows of the run
  before,     \* audit_count_before
  issued,     \* statements the current tool call has run
  result,     \* the tool's result: [ok, code, declared, content]
  trace,      \* the trace rows, as <<[pos, error], ...>>
  outcome     \* the ExecutionResult: [status, error]

vars == <<plan, pos, pc, ctx, graph, evidence, audit, before, issued, result,
          trace, outcome>>

tables == <<evidence, audit>>
frame == <<plan, pos>>

Running == [status |-> "running", error |-> NoErrorCode]
NoResult == [ok |-> TRUE, code |-> NoErrorCode, declared |-> 0, content |-> NoValue]

action == plan.actions[pos]

Init ==
  /\ plan \in Plans
  /\ pos = 1
  /\ pc = "load"
  /\ ctx = [step |-> 0, query |-> 0, depth |-> 0]
  /\ graph = {}
  /\ evidence = [a \in {} |-> NoValue]
  /\ audit = 0
  /\ before = 0
  /\ issued = 0
  /\ result = NoResult
  /\ trace = <<>>
  /\ outcome = Running

-------------------------------------------------------------------------------
(* What the gate and the tools read.                                       *)

(* What the E1 row says, NoValue without one.                              *)
Finding == IF E1 \in DOMAIN evidence THEN evidence[E1].content ELSE NoValue

(* The evidence a tool is handed: whatever matches a required alias, for a *)
(* merge the named sources, for a rank the canonical E4.                   *)
Inputs ==
  CASE action.kind = "detect_anomaly"          -> {}
    [] action.kind = "merge_contribution_sets" -> ToSet(action.requires)
    [] action.kind = "rank_root_causes"        -> {E4}
    [] OTHER -> {a \in graph : \E r \in ToSet(action.requires) : AliasMatches(a, r)}

(* What the tool of an action insists on finding among its inputs.         *)
Insists(a) ==
  CASE a.kind = "drilldown_dimension"     -> {E1}
    [] a.kind \in {"select_signal_element", "fetch_related_signal"} -> {E1, E2Alias(a.dim)}
    [] a.kind = "calculate_contribution"  -> {E1, <<"E2">>, <<"E3">>}
    [] OTHER -> {}

InputsComplete ==
  /\ Inputs \subseteq DOMAIN evidence
  /\ \A r \in Insists(action) : \E a \in Inputs : AliasMatches(a, r)

(* The element of an action whose element is dynamic: that of the first    *)
(* required selection row of its dimension.                                *)
SelectionRows ==
  {a \in ToSet(action.requires) \cap DOMAIN evidence :
     IsPrefix(<<"E", "select">>, a) /\ evidence[a].dim = action.dim}

Element ==
  IF ~action.dynamic THEN action.element
  ELSE IF SelectionRows = {} THEN NoValue
  ELSE evidence[CHOOSE a \in SelectionRows : TRUE].content

(* The checks a tool makes before it runs SQL.  For a fresh alias the      *)
(* "existing row" branches of the tools find nothing.                      *)
ToolRefusal ==
  IF action.dynamic /\ Element = NoValue THEN "DYNAMIC_ACTION_UNRESOLVED"
  ELSE IF ~InputsComplete
       THEN IF action.kind = "rank_root_causes" THEN "ATTRIBUTION_COVERAGE_LOW"
            ELSE "EVIDENCE_MISSING"
  ELSE IF \/ /\ action.kind = "fetch_related_signal"
             /\ ~SignalAccepted(action.metric, action.dim, action.signal)
          \/ /\ action.kind \in {"fetch_related_signal", "calculate_contribution"}
             /\ FilterOf(action, action.dim) \notin {NoValue, Element}
       THEN "QUERY_SPEC_INVALID"
  ELSE IF ~DimensionsAllowed(action) THEN "DIMENSION_NOT_ALLOWED"
  ELSE IF action.writes \in DOMAIN evidence THEN "EVIDENCE_ALREADY_EXISTS"
  ELSE NoErrorCode

(* What a tool can find in the rows it read.                               *)
Contents ==
  CASE action.kind = "detect_anomaly"        -> {"anomaly", "no_anomaly"}
    [] action.kind = "select_signal_element" -> {Picked}
    [] OTHER                                 -> {"value"}

WithRow(row) ==
  [a \in DOMAIN evidence \cup {action.writes} |->
     IF a = action.writes THEN row ELSE evidence[a]]

NewRow == [inputs |-> Inputs, dim |-> action.dim, content |-> result.content]

Verdict == GateVerdict(plan, ctx, action, graph, Finding)

-------------------------------------------------------------------------------
(* How the executor ends.                                                  *)

End(status, error) ==
  /\ pc' = "done"
  /\ outcome' = [status |-> status, error |-> error]

(* A database error that no handler catches leaves execute as an exception.*)
Raise == End("raised", "SYSTEM_TABLE_WRITE_FAILED")

ToolFails(code, declared) ==
  /\ result' = [ok |-> FALSE, code |-> code, declared |-> declared, content |-> NoValue]
  /\ pc' = "after"
  /\ UNCHANGED outcome

(* One trace row for the current action: written, or reported as not       *)
(* written, in which case it may be there all the same.                    *)
Traced(error) == trace' = Append(trace, [pos |-> pos, error |-> error])
TraceLost(error) == Traced(error) \/ UNCHANGED trace

-------------------------------------------------------------------------------
(* The graph is loaded from the repository, where a new run has no rows.   *)
Load ==
  /\ pc = "load"
  /\ graph' = DOMAIN evidence
  /\ pc' = "gate"
  /\ UNCHANGED <<frame, tables, ctx, before, issued, result, trace, outcome>>

(* Slips: the loop ends one action early, or never.                        *)
SucceedEarly ==
  /\ pc = "gate"
  /\ pos >= Len(plan.actions)
  /\ End("succeeded", NoErrorCode)
  /\ UNCHANGED <<frame, tables, ctx, graph, before, issued, result, trace>>

SucceedNever ==
  /\ pc = "gate"
  /\ pos > Len(plan.actions) + 1
  /\ End("succeeded", NoErrorCode)
  /\ UNCHANGED <<frame, tables, ctx, graph, before, issued, result, trace>>

(* The loop over the actions is exhausted.                                 *)
Succeed ==
  /\ pc = "gate"
  /\ pos > Len(plan.actions)
  /\ End("succeeded", NoErrorCode)
  /\ UNCHANGED <<frame, tables, ctx, graph, before, issued, result, trace>>

GateAllows ==
  /\ pc = "gate"
  /\ pos <= Len(plan.actions)
  /\ Verdict = Allowed
  /\ pc' = "before"
  /\ UNCHANGED <<frame, tables, ctx, graph, before, issued, result, trace, outcome>>

GateDenies ==
  /\ pc = "gate"
  /\ pos <= Len(plan.actions)
  /\ Verdict # Allowed
  /\ \/ Traced(Verdict) /\ End("failed", Verdict)
     \/ TraceLost(Verdict) /\ End("failed", "SYSTEM_TABLE_WRITE_FAILED")
  /\ UNCHANGED <<frame, tables, ctx, graph, before, issued, result>>

CountBefore ==
  /\ pc = "before"
  /\ before' = audit
  /\ issued' = 0
  /\ result' = NoResult
  /\ pc' = "tool"
  /\ UNCHANGED <<frame, tables, ctx, graph, trace, outcome>>

(* A selection may also find no candidate in the drilldown row.            *)
ToolBegins ==
  /\ pc = "tool"
  /\ \/ /\ ToolRefusal # NoErrorCode
        /\ ToolFails(ToolRefusal, 0)
     \/ /\ action.kind = "select_signal_element"
        /\ ToolRefusal = NoErrorCode
        /\ ToolFails("SIGNAL_SELECTION_UNRESOLVED", 0)
     \/ /\ ToolRefusal = NoErrorCode
        /\ Renderable(action)
        /\ pc' = IF SqlCost(action) > 0 THEN "query" ELSE "judge"
        /\ UNCHANGED <<result, outcome>>
  /\ UNCHANGED <<frame, tables, ctx, graph, before, issued, trace>>

(* A missing column of the campaign facts is a KeyError, which nothing     *)
(* catches.                                                                *)
RenderRaises ==
  /\ pc = "tool"
  /\ ToolRefusal = NoErrorCode
  /\ ~Renderable(action)
  /\ End("raised", "KEY_ERROR")
  /\ UNCHANGED <<frame, tables, ctx, graph, before, issued, result, trace>>

(* execute_plan of the repository: a statement and its audit row.  The     *)
(* rows are judged after each current and baseline pair.                   *)
QueryRuns ==
  /\ pc = "query"
  /\ audit' = audit + 1
  /\ issued' = issued + 1
  /\ pc' = IF issued' \in {2, 4, SqlCost(action)} THEN "judge" ELSE "query"
  /\ UNCHANGED <<frame, evidence, ctx, graph, before, result, trace, outcome>>

(* A failed statement is audited too; the tools then declare no SQL.       *)
QueryFails ==
  /\ pc = "query"
  /\ audit' = audit + 1
  /\ issued' = issued + 1
  /\ ToolFails("SQL_EXECUTION_FAILED", 0)
  /\ UNCHANGED <<frame, evidence, ctx, graph, before, trace>>

(* The audit write fails after the statement ran.                          *)
AuditWriteFails ==
  /\ pc = "query"
  /\ audit' \in {audit, audit + 1}
  /\ issued' = issued + 1
  /\ ToolFails("SYSTEM_TABLE_WRITE_FAILED", 0)
  /\ UNCHANGED <<frame, evidence, ctx, graph, before, trace>>

JudgeAccepts ==
  /\ pc = "judge"
  /\ \/ /\ issued < SqlCost(action)
        /\ pc' = "query"
        /\ UNCHANGED result
     \/ /\ issued = SqlCost(action)
        /\ \E content \in Contents :
             result' = [ok |-> TRUE, code |-> NoErrorCode, declared |-> issued,
                        content |-> content]
        /\ pc' = IF action.kind = "rank_root_causes" THEN "rerank" ELSE "persist"
  /\ UNCHANGED <<frame, tables, ctx, graph, before, issued, trace, outcome>>

(* Too little data, low coverage, no candidate: the tool declares the two  *)
(* statements it ran, and none when the factor queries are at fault.       *)
JudgeRejects ==
  /\ pc = "judge"
  /\ ToolFails("DATA_REJECTED", IF issued = 2 THEN 2 ELSE 0)
  /\ UNCHANGED <<frame, tables, ctx, graph, before, issued, trace>>

(* rank_from_persisted_e4 first rewrites the E4 row in place.              *)
RerankE4 ==
  /\ pc = "rerank"
  /\ evidence' = [evidence EXCEPT ![E4].content = "ranked"]
  /\ pc' = "persist"
  /\ UNCHANGED <<frame, audit, ctx, graph, before, issued, result, trace, outcome>>

RerankFails ==
  /\ pc = "rerank"
  /\ \/ evidence' = [evidence EXCEPT ![E4].content = "ranked"]
     \/ UNCHANGED evidence
  /\ Raise
  /\ UNCHANGED <<frame, audit, ctx, graph, before, issued, result, trace>>

Persist ==
  /\ pc = "persist"
  /\ evidence' = WithRow(NewRow)
  /\ pc' = "after"
  /\ UNCHANGED <<frame, audit, ctx, graph, before, issued, result, trace, outcome>>

(* The write is reported as failed; the row may be there all the same.     *)
(* rank_root_causes does not catch the error.                              *)
PersistFails ==
  /\ pc = "persist"
  /\ evidence' \in {evidence, WithRow(NewRow)}
  /\ IF action.kind = "rank_root_causes" THEN Raise /\ UNCHANGED result
     ELSE ToolFails("SYSTEM_TABLE_WRITE_FAILED",
            IF action.kind \in {"select_signal_element", "fetch_related_signal"}
            THEN 2 ELSE 0)
  /\ UNCHANGED <<frame, audit, ctx, graph, before, issued, trace>>

-------------------------------------------------------------------------------
(* After the tool: the audit is counted again, the action is resolved,     *)
(* charged and traced, and the run goes on or ends.                        *)

Error == PrimaryError(result.ok, result.code, result.declared, before, audit)

(* Slip: the count the tool declares is charged.                           *)
ChargeDeclared ==
  ctx' = [step  |-> ctx.step + 1,
          query |-> ctx.query + result.declared,
          depth |-> IF action.kind = "drilldown_dimension" THEN ctx.depth + 1 ELSE ctx.depth]

(* record_allowed_action *)
Charge ==
  ctx' = [step  |-> ctx.step + 1,
          query |-> IF action.kind \in DataKinds
                    THEN ctx.query + ActualSqlCount(result.declared, before, audit)
                    ELSE ctx.query,
          depth |-> IF action.kind = "drilldown_dimension" THEN ctx.depth + 1 ELSE ctx.depth]

MoreDataActions ==
  \E i \in (pos + 1)..Len(plan.actions) : plan.actions[i].kind \in DataKinds

(* Slip: the budget is only checked while data actions remain.             *)
ExhaustedWithMore ==
  /\ action.kind \in DataKinds
  /\ ctx'.query >= plan.budget.queries
  /\ MoreDataActions

(* The check of the query budget after the action has been charged.        *)
Exhausted ==
  /\ action.kind \in DataKinds
  /\ \/ ctx'.query > plan.budget.queries
     \/ ctx'.query >= plan.budget.queries /\ MoreDataActions

SaysNoAnomaly == action.kind = "detect_anomaly" /\ result.content = "no_anomaly"

Publish == graph' = graph \cup {action.writes}

(* The trace row cannot be written.                                        *)
AccountUntraced ==
  /\ pc = "after"
  /\ Charge
  /\ TraceLost(Error)
  /\ End("failed", "SYSTEM_TABLE_WRITE_FAILED")
  /\ UNCHANGED <<frame, tables, graph, before, issued, result>>

(* The tool failed or its SQL count is wrong.                              *)
AccountFailed ==
  /\ pc = "after"
  /\ Error # NoErrorCode
  /\ Charge
  /\ Traced(Error)
  /\ End("failed", Error)
  /\ UNCHANGED <<frame, tables, graph, before, issued, result>>

(* The action used up the query budget; its evidence is not published.     *)
AccountExhausted ==
  /\ pc = "after"
  /\ Error = NoErrorCode
  /\ Charge
  /\ Exhausted
  /\ Traced(NoErrorCode)
  /\ End("failed", "BUDGET_EXCEEDED")
  /\ UNCHANGED <<frame, tables, graph, before, issued, result>>

(* Slip: the run ends before the evidence is published.                    *)
AccountNoAnomalyUnpublished ==
  /\ pc = "after"
  /\ Error = NoErrorCode
  /\ Charge
  /\ SaysNoAnomaly
  /\ Traced(NoErrorCode)
  /\ End("no_anomaly", "NO_ANOMALY_DETECTED")
  /\ UNCHANGED <<frame, tables, graph, before, issued, result>>

(* detect_anomaly found nothing to explain.                                *)
AccountNoAnomaly ==
  /\ pc = "after"
  /\ Error = NoErrorCode
  /\ Charge
  /\ ~Exhausted
  /\ SaysNoAnomaly
  /\ Traced(NoErrorCode)
  /\ Publish
  /\ End("no_anomaly", "NO_ANOMALY_DETECTED")
  /\ UNCHANGED <<frame, tables, before, issued, result>>

(* The action is done, the next one follows.                               *)
AccountAction ==
  /\ pc = "after"
  /\ Error = NoErrorCode
  /\ Charge
  /\ ~Exhausted
  /\ ~SaysNoAnomaly
  /\ Traced(NoErrorCode)
  /\ Publish
  /\ pos' = pos + 1
  /\ pc' = "gate"
  /\ UNCHANGED <<plan, tables, before, issued, result, outcome>>

(* A read of the repository fails.  No caller of a read catches that: not  *)
(* when the graph is loaded, when the gate reads E1 (all other checks up   *)
(* to the budget have passed then), when audit rows are counted, or in a   *)
(* tool.  A drilldown, a contribution and a rank read evidence once more   *)
(* while they judge.                                                       *)
ReadRaises ==
  /\ \/ pc \in {"load", "before", "tool", "after"}
     \/ /\ pc = "gate"
        /\ pos <= Len(plan.actions)
        /\ action.kind \in DownstreamKinds
        /\ Verdict \in {Allowed, "NO_ANOMALY_CONTRACT_VIOLATED", "BUDGET_EXCEEDED"}
     \/ /\ pc = "judge"
        /\ action.kind \in {"drilldown_dimension", "calculate_contribution", "rank_root_causes"}
  /\ Raise
  /\ UNCHANGED <<frame, tables, ctx, graph, before, issued, result, trace>>

Next ==
  \/ Load \/ Succeed \/ GateAllows \/ GateDenies \/ CountBefore
  \/ ToolBegins \/ RenderRaises
  \/ QueryRuns \/ QueryFails \/ AuditWriteFails
  \/ JudgeAccepts \/ JudgeRejects \/ RerankE4 \/ RerankFails
  \/ Persist \/ PersistFails
  \/ AccountUntraced \/ AccountFailed \/ AccountExhausted \/ AccountNoAnomaly
  \/ AccountAction \/ ReadRaises

(* The executor is a loop on one thread whose every database call returns  *)
(* or times out, so it never stays where it can go on.                     *)
Spec == Init /\ [][Next]_vars
FairSpec == Spec /\ WF_vars(Next)

-------------------------------------------------------------------------------
(* Properties.                                                             *)

Written == {plan.actions[i].writes : i \in DOMAIN plan.actions}

(* Every variable stays in its type: positions in the plan, counters of    *)
(* natural numbers, evidence under the aliases of the plan only.           *)
TypeOK ==
  /\ pos \in 1..(Len(plan.actions) + 1)
  /\ pc \in {"load", "gate", "before", "tool", "query", "judge", "rerank",
             "persist", "after", "done"}
  /\ pc \notin {"load", "gate", "done"} => pos <= Len(plan.actions)
  /\ ctx \in [step : Nat, query : Nat, depth : Nat]
  /\ graph \subseteq Written
  /\ DOMAIN evidence \subseteq Written
  /\ audit \in Nat
  /\ before \in Nat
  /\ issued \in 0..6
  /\ result.declared \in 0..6
  /\ outcome.status \in {"running", "succeeded", "no_anomaly", "failed", "raised"}

(* The query counter of the run context is the SQL audit: between actions  *)
(* every audited statement has been charged exactly once, whatever failed  *)
(* before; only the statements of an action that is under way are not.     *)
LedgerIsAudit ==
  /\ pc \in {"load", "gate", "before"} => ctx.query = audit
  /\ pc \in {"tool", "query", "judge", "rerank", "persist", "after"} =>
       /\ ctx.query = before
       /\ before <= audit
       /\ audit <= before + issued
  /\ pc \in {"query", "judge", "rerank", "persist"} => audit = before + issued
  /\ outcome.status \in {"succeeded", "no_anomaly", "failed"} => ctx.query = audit

(* A plan may overrun the query budget only by the one action during which *)
(* it is used up, and then does not succeed; beyond the step budget only a *)
(* rank runs; the drilldown depth is never exceeded.                       *)
BudgetHonoured ==
  /\ audit <= plan.budget.queries + 5
  /\ audit > plan.budget.queries => outcome.status # "succeeded"
  /\ \A i \in 1..ctx.step :
       i > plan.budget.steps => plan.actions[i].kind = "rank_root_causes"
  /\ ctx.depth <= plan.budget.depth

(* A run is reported as a success only when every row of the plan is       *)
(* there, published and traced without error, and E4 carries the ranking.  *)
SuccessIsComplete ==
  outcome.status = "succeeded" =>
    /\ DOMAIN evidence = Written
    /\ graph = Written
    /\ trace = [i \in DOMAIN plan.actions |-> [pos |-> i, error |-> NoErrorCode]]
    /\ (E4 \in Written /\ ERank \in Written) => evidence[E4].content = "ranked"

(* E4 carries a ranking without an E_rank row only while the rank is being *)
(* persisted, or when it was interrupted there by an exception.            *)
RankedTogether ==
  (E4 \in DOMAIN evidence /\ evidence[E4].content = "ranked") =>
    \/ ERank \in DOMAIN evidence
    \/ pc = "persist"
    \/ outcome.status = "raised"

(* The trace accounts for the evidence: an action is traced at most once   *)
(* and in the order of the plan, only the last row may carry an error,     *)
(* whatever is published was traced before, and a row without error is     *)
(* never about evidence that does not exist, nor a ranking without E_rank. *)
EvidenceIsTraced ==
  /\ \A i \in DOMAIN trace :
       /\ trace[i].pos = i
       /\ trace[i].error # NoErrorCode => i = Len(trace) /\ pc = "done"
       /\ trace[i].error = NoErrorCode => plan.actions[i].writes \in DOMAIN evidence
  /\ \A a \in graph : \E i \in DOMAIN trace :
       plan.actions[i].writes = a /\ trace[i].error = NoErrorCode
  /\ RankedTogether

(* The executor always comes to an end.                                    *)
Terminates == <>(pc = "done")

(* The executor keeps the promises of PlanRun.                             *)
Script == [i \in DOMAIN plan.actions |-> plan.actions[i].writes]

Run == INSTANCE PlanRun WITH
  Scripts   <- {[i \in DOMAIN p.actions |-> p.actions[i].writes] : p \in Plans},
  script    <- Script,
  stored    <- DOMAIN evidence,
  published <- graph,
  status    <- outcome.status

ImplementsPlanRun == Run!Spec
===============================================================================
