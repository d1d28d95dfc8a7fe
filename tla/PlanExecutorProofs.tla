-------------------------- MODULE PlanExecutorProofs --------------------------
(***************************************************************************)
(* The plan executor, for every set of plans: its type, the ledger and the *)
(* budgets; that it implements PlanRun; what a success and a trace stand   *)
(* for; that the lanes of a plan do not feed each other, and that a plan   *)
(* which can be carried out is never refused.  The compiler: that its      *)
(* plans fit the executor, and are about what the question asks.           *)
(***************************************************************************)
EXTENDS CompiledRun, PlanCompilation, NaturalSets, TLAPS

ToolSteps == {"tool", "query", "judge", "rerank", "persist", "after"}

(* While an action is under way the verdict of the gate still holds of the *)
(* counters, and no tool runs more statements than its action may cost.    *)
InFlight ==
  /\ pc # "done" =>
       /\ outcome.status = "running"
       /\ ctx.step = pos - 1
       /\ ctx.query <= plan.budget.queries
  /\ pc \in ToolSteps \cup {"before"} => WithinBudget(plan.budget, ctx, action)
  /\ pc \in ToolSteps => issued <= SqlCost(action)
  /\ pc = "tool" => issued = 0
  /\ pc = "query" => issued < SqlCost(action)

Inv ==
  /\ plan \in Plans
  /\ TypeOK
  /\ LedgerIsAudit
  /\ BudgetHonoured
  /\ InFlight

-------------------------------------------------------------------------------
(* What a tool may cost: at most six statements, and none unless it is a   *)
(* data action.                                                            *)
LEMMA Costs ==
  ASSUME NEW a
  PROVE  /\ SqlCost(a) \in 0..6
         /\ a.kind \notin DataKinds => SqlCost(a) = 0
BY DEF SqlCost

(* What the assumption on plans says of the plan of a run.                 *)
LEMMA PlanFacts ==
  ASSUME plan \in Plans
  PROVE  /\ Len(plan.actions) \in Nat
         /\ DOMAIN plan.actions = 1..Len(plan.actions)
         /\ plan.budget.steps \in Nat
         /\ plan.budget.queries \in Nat
         /\ plan.budget.depth \in Nat
BY PlansAssumption DEF IsTyped

LEMMA InvInit == Init => Inv
BY PlanFacts DEF Init, Inv, TypeOK, LedgerIsAudit, BudgetHonoured, InFlight,
  Running, NoResult, NoErrorCode, ToolSteps, Written

(* Charging an action makes the query counter the audit again, and leaves  *)
(* every counter within the bounds of BudgetHonoured.                      *)
LEMMA Charged ==
  ASSUME Inv, pc = "after", Charge
  PROVE  /\ ctx' \in [step : Nat, query : Nat, depth : Nat]
         /\ ctx'.step = pos
         /\ ctx'.query = audit
         /\ ctx'.depth <= plan.budget.depth
         /\ \A i \in 1..ctx'.step :
              i > plan.budget.steps => plan.actions[i].kind = "rank_root_causes"
<1>1. /\ SqlCost(action) \in 0..6
      /\ action.kind \notin DataKinds => SqlCost(action) = 0
  BY Costs
<1>2. /\ Len(plan.actions) \in Nat
      /\ plan.budget \in [steps : Nat, queries : Nat, depth : Nat]
  BY PlansAssumption DEF IsTyped, Inv
<1>3. /\ pos \in 1..Len(plan.actions)
      /\ ctx \in [step : Nat, query : Nat, depth : Nat]
      /\ audit \in Nat /\ before \in Nat /\ issued \in 0..6
      /\ result.declared \in 0..6
  BY <1>2 DEF Inv, TypeOK
<1>4. /\ ctx.query = before /\ before <= audit /\ audit <= before + issued
      /\ issued <= SqlCost(action)
      /\ ctx.step = pos - 1
      /\ WithinBudget(plan.budget, ctx, action)
  BY DEF Inv, LedgerIsAudit, InFlight, ToolSteps
<1>5. ActualSqlCount(result.declared, before, audit) = audit - before
  BY <1>3, <1>4 DEF ActualSqlCount
<1>6. ctx' = [step  |-> ctx.step + 1, query |-> audit,
              depth |-> IF action.kind = "drilldown_dimension" THEN ctx.depth + 1 ELSE ctx.depth]
  <2>1. CASE action.kind \in DataKinds
    <3>1. ctx.query + ActualSqlCount(result.declared, before, audit) = audit
      BY <1>3, <1>4, <1>5
    <3>q. QED
      BY <2>1, <3>1 DEF Charge
  <2>2. CASE action.kind \notin DataKinds
    <3>1. ctx.query = audit
      BY <1>1, <1>3, <1>4, <2>2
    <3>q. QED
      BY <2>2, <3>1 DEF Charge
  <2>q. QED
    BY <2>1, <2>2
<1>7. ctx.depth <= plan.budget.depth
  BY DEF Inv, BudgetHonoured
<1>8. ctx'.depth <= plan.budget.depth
  BY <1>2, <1>3, <1>4, <1>6, <1>7 DEF WithinBudget
<1>9. ASSUME NEW i \in 1..ctx'.step, i > plan.budget.steps
      PROVE  plan.actions[i].kind = "rank_root_causes"
  <2>1. CASE i = pos
    BY <1>2, <1>3, <1>4, <1>9, <2>1 DEF WithinBudget, action
  <2>2. CASE i # pos
    <3>1. i \in 1..ctx.step
      BY <1>3, <1>4, <1>6, <2>2
    <3>q. QED
      BY <1>9, <3>1 DEF Inv, BudgetHonoured
  <2>q. QED
    BY <2>1, <2>2
<1>q. QED
  BY <1>3, <1>4, <1>6, <1>8, <1>9

(* What holds while an action is under way bounds the audit: the gate let  *)
(* a data action pass with a statement to spare, and it runs at most six.  *)
LEMMA AuditBound ==
  ASSUME Inv, pc \in ToolSteps
  PROVE  /\ before + SqlCost(action) <= plan.budget.queries + 5
         /\ action.kind \notin DataKinds => SqlCost(action) = 0
<1>1. /\ SqlCost(action) \in 0..6
      /\ action.kind \notin DataKinds => SqlCost(action) = 0
  BY Costs
<1>2. plan.budget.queries \in Nat /\ ctx.query \in Nat /\ before = ctx.query
  BY PlansAssumption DEF IsTyped, Inv, TypeOK, LedgerIsAudit, ToolSteps
<1>3. ctx.query <= plan.budget.queries /\ WithinBudget(plan.budget, ctx, action)
  BY DEF Inv, InFlight, ToolSteps
<1>q. QED
  BY <1>1, <1>2, <1>3 DEF WithinBudget

(* A step inside a tool: the invariant survives whatever the tool does, if *)
(* it counts what it runs and stays within the cost of its action.         *)
LEMMA ToolStep ==
  ASSUME Inv, pc \in ToolSteps, pc' \in ToolSteps,
         UNCHANGED <<plan, pos, ctx, graph, before, outcome>>,
         DOMAIN evidence' \subseteq Written,
         audit' \in Nat, before <= audit',
         issued' \in 0..SqlCost(action), audit' <= before + issued',
         result'.declared \in 0..6,
         pc' \in {"query", "judge", "rerank", "persist"} => audit' = before + issued',
         pc' = "tool" => issued' = 0,
         pc' = "query" => issued' < SqlCost(action)
  PROVE  Inv'
<1> SqlCost(action) \in 0..6
  BY Costs
<1>1. /\ plan' = plan /\ pos' = pos /\ Written' = Written /\ action' = action
  BY DEF Written, action
<1>2. pos \in 1..Len(plan.actions) /\ Len(plan.actions) \in Nat
  BY PlanFacts DEF Inv, TypeOK, ToolSteps
<1>3. TypeOK'
  BY <1>1, <1>2 DEF Inv, TypeOK, ToolSteps
<1>4. LedgerIsAudit'
  BY DEF Inv, LedgerIsAudit, InFlight, ToolSteps
<1>5. BudgetHonoured'
  <2>1. before + SqlCost(action) <= plan.budget.queries + 5
    BY AuditBound
  <2>2. audit' <= plan.budget.queries + 5
    <3>1. before \in Nat /\ plan.budget.queries \in Nat
      BY PlanFacts DEF Inv, TypeOK
    <3>2. audit' <= before + SqlCost(action)
      <4>1. PICK a, b, c, i : a = audit' /\ b = before /\ c = SqlCost(action) /\ i = issued'
        OBVIOUS
      <4>2. a \in Nat /\ b \in Nat /\ c \in 0..6 /\ i \in 0..c /\ a <= b + i
        BY <3>1, <4>1
      <4>3. a <= b + c
        BY <4>2
      <4>q. QED
        BY <4>1, <4>3
    <3>q. QED
      BY <2>1, <3>1, <3>2
  <2>3. outcome'.status # "succeeded"
    BY DEF Inv, InFlight, ToolSteps
  <2>q. QED
    BY <1>1, <2>2, <2>3 DEF Inv, BudgetHonoured
<1>6. InFlight'
  <2>1. /\ outcome'.status = "running" /\ ctx'.step = pos' - 1
        /\ ctx'.query <= plan'.budget.queries
        /\ WithinBudget(plan'.budget, ctx', action')
    BY <1>1 DEF Inv, InFlight, ToolSteps
  <2>2. SqlCost(action') = SqlCost(action)
    BY <1>1
  <2>3. issued' <= SqlCost(action') /\ (pc' = "query" => issued' < SqlCost(action'))
    BY <2>2
  <2>q. QED
    BY <2>1, <2>3 DEF InFlight, ToolSteps
<1>q. QED
  BY <1>1, <1>3, <1>4, <1>5, <1>6 DEF Inv

(* A step that ends the run, before or after the action is charged: every  *)
(* ending but an exception leaves the counter equal to the audit.          *)
LEMMA EndStep ==
  ASSUME Inv, pc # "done", pc' = "done",
         UNCHANGED <<plan, pos, audit, before, issued, result>>,
         ctx' = ctx \/ (pc = "after" /\ Charge),
         graph' \subseteq Written, DOMAIN evidence' \subseteq Written,
         outcome'.status \in {"succeeded", "no_anomaly", "failed", "raised"},
         outcome'.status # "raised" => ctx'.query = audit,
         outcome'.status = "succeeded" => ctx' = ctx
  PROVE  Inv'
<1>1. plan' = plan /\ pos' = pos /\ Written' = Written
  BY DEF Written
<1>2. /\ plan.budget.queries \in Nat /\ ctx.query \in Nat /\ audit \in Nat
      /\ ctx.query <= plan.budget.queries
  BY PlanFacts DEF Inv, TypeOK, InFlight
<1>3. /\ ctx' \in [step : Nat, query : Nat, depth : Nat]
      /\ ctx'.depth <= plan.budget.depth
      /\ \A i \in 1..ctx'.step :
           i > plan.budget.steps => plan.actions[i].kind = "rank_root_causes"
  <2>1. CASE ctx' = ctx
    BY <2>1 DEF Inv, TypeOK, BudgetHonoured
  <2>2. CASE pc = "after" /\ Charge
    BY <2>2, Charged
  <2>q. QED
    BY <2>1, <2>2
<1>4. TypeOK'
  BY <1>1, <1>3 DEF Inv, TypeOK
<1>5. LedgerIsAudit'
  BY <1>1 DEF LedgerIsAudit
<1>6. BudgetHonoured'
  <2>1. outcome'.status = "succeeded" => audit <= plan.budget.queries
    BY <1>2
  <2>2. audit <= plan.budget.queries + 5
    BY DEF Inv, BudgetHonoured
  <2>q. QED
    BY <1>1, <1>2, <1>3, <2>1, <2>2 DEF BudgetHonoured
<1>7. InFlight'
  BY DEF InFlight, ToolSteps
<1>q. QED
  BY <1>1, <1>4, <1>5, <1>6, <1>7 DEF Inv

-------------------------------------------------------------------------------
(* Every step preserves the invariant.                                     *)
LEMMA InvNext == Inv /\ [Next]_vars => Inv'
<1> SUFFICES ASSUME Inv, [Next]_vars
             PROVE  Inv'
  OBVIOUS
<1> USE DEF frame, tables
<1>f. /\ plan \in Plans /\ TypeOK /\ LedgerIsAudit /\ BudgetHonoured /\ InFlight
  BY DEF Inv
<1>p. /\ Len(plan.actions) \in Nat
      /\ DOMAIN plan.actions = 1..Len(plan.actions)
      /\ plan.budget.steps \in Nat
      /\ plan.budget.queries \in Nat
      /\ plan.budget.depth \in Nat
  BY <1>f, PlanFacts
<1>c. /\ SqlCost(action) \in 0..6
      /\ action.kind \notin DataKinds => SqlCost(action) = 0
  BY Costs
<1>t. /\ audit \in Nat /\ before \in Nat /\ issued \in 0..6
      /\ result.declared \in 0..6
      /\ graph \subseteq Written /\ DOMAIN evidence \subseteq Written
  BY <1>f DEF TypeOK
<1>w. pc \in ToolSteps => action.writes \in Written
  BY <1>f, <1>p DEF TypeOK, ToolSteps, Written, action
<1>l. /\ pc \in ToolSteps => /\ before <= audit
                             /\ audit <= before + issued
                             /\ issued \in 0..SqlCost(action)
      /\ pc \in ToolSteps \ {"after"} => audit = before + issued
      /\ pc = "query" => issued < SqlCost(action)
      /\ pc \in {"load", "gate", "before"} => ctx.query = audit
  BY <1>f, <1>c, <1>t DEF LedgerIsAudit, InFlight, ToolSteps
<1>1. CASE Load
  BY <1>f, <1>p, <1>1
    DEF Load, Inv, TypeOK, LedgerIsAudit, BudgetHonoured, InFlight, ToolSteps, action, WithinBudget, Written
<1>2. CASE Succeed
  BY <1>t, <1>l, <1>2, EndStep DEF Succeed, End
<1>3. CASE GateAllows
  BY <1>f, <1>p, <1>3
    DEF GateAllows, Verdict, GateVerdict, Allowed, Inv, TypeOK, LedgerIsAudit, BudgetHonoured, InFlight, ToolSteps, action, WithinBudget, Written
<1>4. CASE GateDenies
  BY <1>t, <1>l, <1>4, EndStep DEF GateDenies, End
<1>5. CASE CountBefore
  <2>1. /\ pc = "before" /\ pc' = "tool" /\ plan' = plan /\ pos' = pos
        /\ before' = audit /\ issued' = 0 /\ result'.declared = 0
        /\ UNCHANGED <<ctx, graph, evidence, audit, outcome>>
    BY <1>5 DEF CountBefore, NoResult
  <2>2. TypeOK'
    BY <1>f, <1>p, <2>1 DEF TypeOK, Written
  <2>3. LedgerIsAudit'
    BY <1>f, <2>1 DEF LedgerIsAudit, TypeOK
  <2>4. BudgetHonoured'
    BY <1>f, <2>1 DEF BudgetHonoured
  <2>5. InFlight'
    BY <1>f, <1>c, <2>1 DEF InFlight, ToolSteps, action
  <2>q. QED
    BY <1>f, <2>1, <2>2, <2>3, <2>4, <2>5 DEF Inv
<1>6. CASE ToolBegins
  <2>1. /\ pc = "tool" /\ issued = 0
        /\ UNCHANGED <<plan, pos, ctx, graph, evidence, audit, before, issued, outcome>>
    BY <1>f, <1>6 DEF ToolBegins, ToolFails, InFlight
  <2>2. /\ pc' \in {"after", "query", "judge"}
        /\ pc' = "query" => SqlCost(action) > 0
        /\ result'.declared \in 0..6
    BY <1>t, <1>6 DEF ToolBegins, ToolFails
  <2>q. QED
    BY <1>t, <1>l, <1>c, <2>1, <2>2, ToolStep DEF ToolSteps
<1>7. CASE RenderRaises
  BY <1>t, <1>l, <1>7, EndStep DEF RenderRaises, End
<1>8. CASE QueryRuns
  BY <1>t, <1>l, <1>c, <1>8, ToolStep DEF QueryRuns, ToolSteps
<1>9. CASE QueryFails
  BY <1>t, <1>l, <1>c, <1>9, ToolStep DEF QueryFails, ToolFails, ToolSteps
<1>10. CASE AuditWriteFails
  BY <1>t, <1>l, <1>c, <1>10, ToolStep DEF AuditWriteFails, ToolFails, ToolSteps
<1>11. CASE JudgeAccepts
  BY <1>t, <1>l, <1>c, <1>11, ToolStep DEF JudgeAccepts, ToolSteps
<1>12. CASE JudgeRejects
  BY <1>t, <1>l, <1>c, <1>12, ToolStep DEF JudgeRejects, ToolFails, ToolSteps
<1>13. CASE RerankE4
  BY <1>t, <1>l, <1>c, <1>13, ToolStep DEF RerankE4, ToolSteps
<1>14. CASE RerankFails
  BY <1>t, <1>l, <1>14, EndStep DEF RerankFails, Raise, End
<1>15. CASE Persist
  BY <1>t, <1>l, <1>c, <1>15, <1>w, ToolStep DEF Persist, WithRow, ToolSteps
<1>16. CASE PersistFails
  <2>1. /\ pc = "persist"
        /\ DOMAIN evidence' \subseteq Written
        /\ UNCHANGED <<plan, pos, ctx, graph, audit, before, issued>>
    BY <1>t, <1>w, <1>16 DEF PersistFails, WithRow, ToolSteps
  <2>2. CASE action.kind = "rank_root_causes"
    BY <1>t, <2>1, <2>2, <1>16, EndStep DEF PersistFails, Raise, End
  <2>3. CASE action.kind # "rank_root_causes"
    BY <1>t, <1>l, <2>1, <2>3, <1>16, ToolStep DEF PersistFails, ToolFails, ToolSteps
  <2>q. QED
    BY <2>2, <2>3
<1>17. CASE AccountUntraced
  BY <1>t, <1>17, Charged, EndStep DEF AccountUntraced, End
<1>18. CASE AccountFailed
  BY <1>t, <1>18, Charged, EndStep DEF AccountFailed, End
<1>19. CASE AccountExhausted
  BY <1>t, <1>19, Charged, EndStep DEF AccountExhausted, End
<1>20. CASE AccountNoAnomaly
  BY <1>t, <1>w, <1>20, Charged, EndStep DEF AccountNoAnomaly, Publish, End, ToolSteps
<1>21. CASE AccountAction
  <2>1. /\ pc = "after" /\ pc' = "gate" /\ plan' = plan /\ pos' = pos + 1
        /\ UNCHANGED <<evidence, audit, before, issued, result, outcome>>
        /\ graph' \subseteq Written
    BY <1>t, <1>w, <1>21 DEF AccountAction, Publish, ToolSteps
  <2>2. /\ ctx' \in [step : Nat, query : Nat, depth : Nat]
        /\ ctx'.step = pos
        /\ ctx'.query = audit
        /\ ctx'.depth <= plan.budget.depth
        /\ \A i \in 1..ctx'.step :
             i > plan.budget.steps => plan.actions[i].kind = "rank_root_causes"
    BY <1>21, <2>1, Charged DEF AccountAction
  <2>3. pos \in 1..Len(plan.actions) /\ pos' - 1 = pos
    BY <1>f, <1>p, <2>1 DEF TypeOK
  <2>4. ctx'.query <= plan.budget.queries
    <3>1. CASE action.kind \in DataKinds
      BY <1>p, <1>t, <1>21, <2>2, <3>1 DEF AccountAction, Exhausted
    <3>2. CASE action.kind \notin DataKinds
      BY <1>f, <1>p, <1>t, <1>c, <1>l, <2>1, <2>2, <3>2
        DEF InFlight, LedgerIsAudit, TypeOK, ToolSteps
    <3>q. QED
      BY <3>1, <3>2
  <2>5. TypeOK'
    <3>1. pos' \in 1..(Len(plan.actions) + 1)
      BY <1>p, <2>1, <2>3
    <3>2. Written' = Written
      BY <2>1 DEF Written
    <3>3. /\ DOMAIN evidence' \subseteq Written' /\ graph' \subseteq Written'
          /\ audit' \in Nat /\ before' \in Nat /\ issued' \in 0..6 /\ result'.declared \in 0..6
          /\ outcome'.status \in {"running", "succeeded", "no_anomaly", "failed", "raised"}
      BY <1>f, <2>1, <3>2 DEF TypeOK
    <3>q. QED
      BY <2>1, <2>2, <3>1, <3>3 DEF TypeOK
  <2>6. LedgerIsAudit'
    BY <1>f, <2>1, <2>2 DEF LedgerIsAudit, InFlight
  <2>7. BudgetHonoured'
    BY <1>f, <1>t, <2>1, <2>2 DEF BudgetHonoured, InFlight
  <2>8. InFlight'
    BY <1>f, <2>1, <2>2, <2>3, <2>4 DEF InFlight, ToolSteps
  <2>q. QED
    BY <1>f, <2>1, <2>5, <2>6, <2>7, <2>8 DEF Inv
<1>22. CASE ReadRaises
  BY <1>t, <1>l, <1>22, EndStep DEF ReadRaises, Raise, End
<1>23. CASE UNCHANGED vars
  BY <1>f, <1>23 DEF vars, Inv, TypeOK, LedgerIsAudit, BudgetHonoured, InFlight, ToolSteps, action, WithinBudget, Written
<1>q. QED
  BY <1>1, <1>2, <1>3, <1>4, <1>5, <1>6, <1>7, <1>8, <1>9, <1>10, <1>11, <1>12,
     <1>13, <1>14, <1>15, <1>16, <1>17, <1>18, <1>19, <1>20, <1>21, <1>22, <1>23 DEF Next

-------------------------------------------------------------------------------
LEMMA Invariant == Spec => []Inv
BY InvInit, InvNext, PTL DEF Spec

(* Every variable of the executor stays in its type, whatever plans it is  *)
(* given and whichever database calls fail.                                *)
THEOREM TypeCorrect == Spec => []TypeOK
<1>1. Inv => TypeOK
  BY DEF Inv
<1>q. QED
  BY <1>1, Invariant, PTL

(* The query counter of the RunContext is the number of audit rows of the  *)
(* run between actions and whenever the executor returns a result.         *)
THEOREM LedgerCorrect == Spec => []LedgerIsAudit
<1>1. Inv => LedgerIsAudit
  BY DEF Inv
<1>q. QED
  BY <1>1, Invariant, PTL

(* No plan runs more than five statements beyond its query budget, none    *)
(* that overruns it succeeds, and the step and depth limits hold.          *)
THEOREM BudgetsCorrect == Spec => []BudgetHonoured
<1>1. Inv => BudgetHonoured
  BY DEF Inv
<1>q. QED
  BY <1>1, Invariant, PTL

-------------------------------------------------------------------------------
(* What has been made when n actions are done, and how it was traced.      *)
Made(n) == {plan.actions[i].writes : i \in 1..n}
Rows(n) == [i \in 1..n |-> [pos |-> i, error |-> NoErrorCode]]

(* Until the run ends, the graph and the trace are those of the actions    *)
(* before this one, and so is the evidence until the tool has written; a   *)
(* tool that reports success has written its row, one that fails may have, *)
(* and says why it failed.                                                 *)
Progress ==
  /\ pc # "done" => graph = Made(pos - 1) /\ trace = Rows(pos - 1)
  /\ pc \notin {"after", "done"} => DOMAIN evidence = Made(pos - 1)
  /\ pc \in {"rerank", "persist"} => result.ok = TRUE
  /\ pc = "after" =>
       /\ result.ok \in BOOLEAN
       /\ result.ok => DOMAIN evidence = Made(pos)
       /\ ~result.ok => /\ DOMAIN evidence \in {Made(pos - 1), Made(pos)}
                        /\ result.code # NoErrorCode

LEMMA MadeFacts ==
  ASSUME NEW n \in Nat
  PROVE  /\ Made(n + 1) = Made(n) \cup {plan.actions[n + 1].writes}
         /\ Made(0) = {}
BY DEF Made

LEMMA RowsFacts ==
  ASSUME NEW n \in Nat
  PROVE  /\ Rows(n) \in Seq([pos : Int, error : {NoErrorCode}])
         /\ Len(Rows(n)) = n
         /\ \A i \in 1..n : Rows(n)[i].pos = i /\ Rows(n)[i].error = NoErrorCode
BY DEF Rows

(* Tracing the next action without error gives the rows of one more.       *)
LEMMA RowsGrow ==
  ASSUME NEW n \in Nat
  PROVE  Append(Rows(n), [pos |-> n + 1, error |-> NoErrorCode]) = Rows(n + 1)
BY RowsFacts DEF Rows

(* What the next action of the plan makes is what the current one writes.  *)
LEMMA MadeNow ==
  ASSUME Inv
  PROVE  /\ pos - 1 \in Nat
         /\ Made(pos) = Made(pos - 1) \cup {action.writes}
<1>1. pos \in Nat \ {0}
  BY PlanFacts DEF Inv, TypeOK
<1>2. pos - 1 \in Nat /\ pos = (pos - 1) + 1
  BY <1>1
<1>q. QED
  BY <1>2, MadeFacts DEF action

(* What the gate says is never taken for the absence of an error.          *)
LEMMA VerdictIsNoNone == Verdict # NoErrorCode
BY DEF Verdict, GateVerdict, NoErrorCode, Allowed

(* A tool's error comes without error only from a tool that succeeded.     *)
LEMMA ErrorOfResult ==
  ASSUME Inv, Progress, pc = "after"
  PROVE  Error = NoErrorCode => result.ok /\ DOMAIN evidence = Made(pos)
BY DEF Progress, Error, PrimaryError, NoErrorCode

LEMMA ProgressInit == Init => Progress
BY MadeFacts DEF Init, Progress, Rows

(* A step inside a tool changes neither graph nor trace; the tool goes on  *)
(* with what was there, has written its row, or fails with a code.         *)
LEMMA ProgressInTool ==
  ASSUME Inv, Progress, pc \notin {"after", "done"}, pc' \notin {"done"},
         UNCHANGED <<frame, graph, trace>>,
         pc' # "after" => DOMAIN evidence' = DOMAIN evidence,
         pc' \in {"rerank", "persist"} => result'.ok = TRUE,
         pc' = "after" =>
           \/ result'.ok = TRUE /\ DOMAIN evidence' = DOMAIN evidence \cup {action.writes}
           \/ /\ result'.ok = FALSE /\ result'.code # NoErrorCode
              /\ DOMAIN evidence' \in {DOMAIN evidence, DOMAIN evidence \cup {action.writes}}
  PROVE  Progress'
<1>1. /\ graph' = Made(pos - 1) /\ trace' = Rows(pos - 1) /\ DOMAIN evidence = Made(pos - 1)
  BY DEF Progress, frame
<1>2. DOMAIN evidence \cup {action.writes} = Made(pos)
  BY <1>1, MadeNow
<1>3. pos' = pos /\ Made(pos)' = Made(pos) /\ Made(pos - 1)' = Made(pos - 1) /\ Rows(pos - 1)' = Rows(pos - 1)
  BY DEF frame, Made, Rows
<1>q. QED
  BY <1>1, <1>2, <1>3 DEF Progress

LEMMA ProgressWhenToolFails ==
  ASSUME Inv, Progress, pc \notin {"after", "done"},
         NEW code, NEW declared, ToolFails(code, declared), code # NoErrorCode,
         UNCHANGED <<frame, graph, trace>>,
         DOMAIN evidence' \in {DOMAIN evidence, DOMAIN evidence \cup {action.writes}}
  PROVE  Progress'
<1>1. pc' = "after" /\ result'.ok = FALSE /\ result'.code = code
  BY DEF ToolFails
<1>q. QED
  BY <1>1, ProgressInTool

LEMMA ProgressNext ==
  ASSUME Inv, Progress, [Next]_vars
  PROVE  Progress'
<1> USE DEF tables, frame
<1>s. /\ pos' = pos /\ plan' = plan =>
           /\ Made(pos)' = Made(pos) /\ Made(pos - 1)' = Made(pos - 1)
           /\ Rows(pos - 1)' = Rows(pos - 1)
  BY DEF Made, Rows
<1>e. ASSUME pc' = "done"
      PROVE  Progress'
  BY <1>e DEF Progress
<1>1. CASE Load
  <2>1. pc = "load" /\ pc' = "gate" /\ UNCHANGED <<frame, evidence, trace>> /\ graph' = DOMAIN evidence
    BY <1>1 DEF Load
  <2>q. QED
    BY <1>s, <2>1 DEF Progress, frame
<1>2. CASE Succeed \/ GateDenies \/ RenderRaises \/ RerankFails \/ ReadRaises
  BY <1>2, <1>e DEF Succeed, GateDenies, RenderRaises, RerankFails, ReadRaises, Raise, End
<1>3. CASE GateAllows \/ CountBefore
  BY <1>3, ProgressInTool DEF GateAllows, CountBefore
<1>4. CASE ToolBegins
  <2>1. pc = "tool" /\ UNCHANGED <<plan, pos, graph, trace, evidence>>
    BY <1>4 DEF ToolBegins
  <2>2. CASE ToolFails(ToolRefusal, 0) /\ ToolRefusal # NoErrorCode
    BY <2>1, <2>2, ProgressWhenToolFails
  <2>3. CASE ToolFails("SIGNAL_SELECTION_UNRESOLVED", 0)
    <3>1. "SIGNAL_SELECTION_UNRESOLVED" # NoErrorCode
      BY DEF NoErrorCode
    <3>q. QED
      BY <2>1, <2>3, <3>1, ProgressWhenToolFails
  <2>4. CASE pc' \in {"query", "judge"}
    BY <2>1, <2>4, ProgressInTool
  <2>q. QED
    BY <1>4, <2>2, <2>3, <2>4 DEF ToolBegins
<1>5. CASE QueryRuns
  BY <1>5, ProgressInTool DEF QueryRuns
<1>6. CASE QueryFails \/ AuditWriteFails \/ JudgeRejects
  <2>1. /\ pc \notin {"after", "done"} /\ UNCHANGED <<plan, pos, graph, trace, evidence>>
        /\ \E code \in {"SQL_EXECUTION_FAILED", "SYSTEM_TABLE_WRITE_FAILED", "DATA_REJECTED"},
              declared \in {0, 2} : ToolFails(code, declared)
    BY <1>6 DEF QueryFails, AuditWriteFails, JudgeRejects
  <2>2. PICK code \in {"SQL_EXECUTION_FAILED", "SYSTEM_TABLE_WRITE_FAILED", "DATA_REJECTED"},
             declared \in {0, 2} : ToolFails(code, declared)
    BY <2>1
  <2>3. code # NoErrorCode
    BY DEF NoErrorCode
  <2>q. QED
    BY <2>1, <2>2, <2>3, ProgressWhenToolFails
<1>13. CASE JudgeAccepts
  <2>1. /\ pc = "judge" /\ pc' \in {"query", "rerank", "persist"}
        /\ UNCHANGED <<plan, pos, graph, trace, evidence>>
        /\ pc' \in {"rerank", "persist"} => result'.ok = TRUE
    BY <1>13 DEF JudgeAccepts
  <2>q. QED
    BY <2>1, ProgressInTool
<1>7. CASE RerankE4
  <2>1. DOMAIN evidence' = DOMAIN evidence
    BY <1>7 DEF RerankE4
  <2>2. /\ pc = "rerank" /\ pc' = "persist" /\ UNCHANGED <<plan, pos, graph, trace>>
        /\ result'.ok = TRUE
    BY <1>7 DEF RerankE4, Progress
  <2>q. QED
    BY <2>1, <2>2, ProgressInTool
<1>8. CASE Persist
  <2>1. /\ pc = "persist" /\ pc' = "after" /\ UNCHANGED <<plan, pos, graph, trace>>
        /\ result'.ok = TRUE
        /\ DOMAIN evidence' = DOMAIN evidence \cup {action.writes}
    BY <1>8 DEF Persist, WithRow, Progress
  <2>q. QED
    BY <2>1, ProgressInTool
<1>9. CASE PersistFails
  <2>1. DOMAIN evidence' \in {DOMAIN evidence, DOMAIN evidence \cup {action.writes}}
    BY <1>9 DEF PersistFails, WithRow
  <2>2. pc = "persist" /\ UNCHANGED <<plan, pos, graph, trace>>
    BY <1>9 DEF PersistFails
  <2>3. CASE Raise
    BY <1>e, <2>3 DEF Raise, End
  <2>4. CASE \E declared \in {0, 2} : ToolFails("SYSTEM_TABLE_WRITE_FAILED", declared)
    <3>1. "SYSTEM_TABLE_WRITE_FAILED" # NoErrorCode
      BY DEF NoErrorCode
    <3>q. QED
      BY <2>1, <2>2, <2>4, <3>1, ProgressWhenToolFails
  <2>q. QED
    BY <1>9, <2>3, <2>4 DEF PersistFails
<1>10. CASE AccountUntraced \/ AccountFailed \/ AccountExhausted \/ AccountNoAnomaly
  BY <1>10, <1>e DEF AccountUntraced, AccountFailed, AccountExhausted, AccountNoAnomaly, End
<1>11. CASE AccountAction
  <2>1. /\ pc = "after" /\ pc' = "gate" /\ plan' = plan /\ pos' = pos + 1
        /\ evidence' = evidence /\ graph' = graph \cup {action.writes}
        /\ trace' = Append(trace, [pos |-> pos, error |-> NoErrorCode])
        /\ Error = NoErrorCode
    BY <1>11 DEF AccountAction, Publish, Traced
  <2>2. pos \in Nat /\ pos' - 1 = pos /\ pos - 1 \in Nat
    BY <2>1, PlanFacts DEF Inv, TypeOK
  <2>3. graph' = Made(pos) /\ DOMAIN evidence' = Made(pos)
    BY <2>1, MadeNow, ErrorOfResult DEF Progress
  <2>4. trace' = Rows(pos)
    BY <2>1, <2>2, RowsGrow DEF Progress
  <2>5. Made(pos - 1)' = Made(pos) /\ Rows(pos - 1)' = Rows(pos)
    BY <2>1, <2>2 DEF Made, Rows
  <2>q. QED
    BY <2>1, <2>3, <2>4, <2>5 DEF Progress
<1>12. CASE UNCHANGED vars
  BY <1>s, <1>12 DEF vars, Progress
<1>q. QED
  BY <1>1, <1>2, <1>3, <1>4, <1>5, <1>6, <1>7, <1>8, <1>9, <1>10,
     <1>11, <1>12, <1>13 DEF Next

-------------------------------------------------------------------------------
LEMMA ProgressHolds == Spec => []Progress
<1>1. Inv /\ Progress /\ [Next]_vars => Progress'
  BY ProgressNext
<1>q. QED
  BY <1>1, ProgressInit, Invariant, PTL DEF Spec

(* The evidence PlanRun speaks of is what the first actions make.          *)
LEMMA ScriptOfPlan ==
  ASSUME Inv
  PROVE  /\ Len(Script) = Len(plan.actions)
         /\ \A n \in 0..Len(plan.actions) : Run!Prefix(n) = Made(n)
<1>1. /\ Len(plan.actions) \in Nat
      /\ Script = [i \in 1..Len(plan.actions) |-> plan.actions[i].writes]
  BY PlanFacts DEF Inv, Script
<1>2. Len(Script) = Len(plan.actions)
  BY <1>1
<1>3. ASSUME NEW n \in 0..Len(plan.actions)
      PROVE  Run!Prefix(n) = Made(n)
  <2>1. \A i \in 1..n : Script[i] = plan.actions[i].writes
    BY <1>1
  <2>q. QED
    BY <2>1 DEF Run!Prefix, Made
<1>q. QED
  BY <1>2, <1>3

(* An action under way may store its row, and leave the rest as it is.     *)
LEMMA StoreStep ==
  ASSUME Inv, Progress, pc \notin {"after", "done"}, pos <= Len(plan.actions),
         UNCHANGED <<plan, graph>>, outcome'.status = outcome.status,
         DOMAIN evidence' \in {DOMAIN evidence, DOMAIN evidence \cup {action.writes}}
  PROVE  [Run!Next]_(Run!vars)
<1>1. Script' = Script
  BY DEF Script
<1>2. CASE DOMAIN evidence' = DOMAIN evidence
  BY <1>1, <1>2 DEF Run!vars
<1>3. CASE DOMAIN evidence' = DOMAIN evidence \cup {action.writes}
  <2>1. pos - 1 \in 0..(Len(Script) - 1) /\ pos = (pos - 1) + 1 /\ pos \in 0..Len(plan.actions)
    BY PlanFacts, ScriptOfPlan DEF Inv, TypeOK
  <2>2. graph = Made(pos - 1) /\ DOMAIN evidence = Made(pos - 1) /\ DOMAIN evidence' = Made(pos)
    BY <1>3, MadeNow DEF Progress
  <2>3. Run!Prefix(pos - 1) = Made(pos - 1) /\ Run!Prefix((pos - 1) + 1) = Made(pos)
    BY <2>1, ScriptOfPlan
  <2>4. outcome.status = "running"
    BY DEF Inv, InFlight
  <2>5. Run!Store
    BY <1>1, <2>1, <2>2, <2>3, <2>4 DEF Run!Store
  <2>q. QED
    BY <2>5 DEF Run!Next
<1>q. QED
  BY <1>2, <1>3

(* The run fails; a row that was being written may be there.               *)
LEMMA FailStep ==
  ASSUME Inv, Progress, pc # "done",
         UNCHANGED <<plan, graph>>, outcome'.status \in {"failed", "raised"},
         \/ DOMAIN evidence' = DOMAIN evidence
         \/ /\ pc = "persist"
            /\ DOMAIN evidence' = DOMAIN evidence \cup {action.writes}
  PROVE  Run!Next
<1>1. Script' = Script
  BY DEF Script
<1>2. outcome.status = "running"
  BY DEF Inv, InFlight
<1>3. CASE DOMAIN evidence' = DOMAIN evidence
  BY <1>1, <1>2, <1>3 DEF Run!Next, Run!Fail
<1>4. CASE pc = "persist" /\ DOMAIN evidence' = DOMAIN evidence \cup {action.writes}
  <2>1. pos - 1 \in 0..(Len(Script) - 1) /\ pos = (pos - 1) + 1 /\ pos \in 0..Len(plan.actions)
    BY <1>4, PlanFacts, ScriptOfPlan DEF Inv, TypeOK
  <2>2. graph = Made(pos - 1) /\ DOMAIN evidence = Made(pos - 1) /\ DOMAIN evidence' = Made(pos)
    BY <1>4, MadeNow DEF Progress
  <2>3. Run!Prefix(pos - 1) = Made(pos - 1) /\ Run!Prefix((pos - 1) + 1) = Made(pos)
    BY <2>1, ScriptOfPlan
  <2>5. Run!Fail
    BY <1>1, <1>2, <2>1, <2>2, <2>3 DEF Run!Fail
  <2>q. QED
    BY <2>5 DEF Run!Next
<1>q. QED
  BY <1>3, <1>4

(* The row of an action that succeeded is published.                       *)
LEMMA PublishStep ==
  ASSUME Inv, Progress, pc = "after", Error = NoErrorCode,
         UNCHANGED <<plan, evidence>>, Publish,
         outcome'.status \in {"running"} \cup (IF pos = 1 THEN {"no_anomaly"} ELSE {})
  PROVE  Run!Next
<1>1. Script' = Script
  BY DEF Script
<1>2. outcome.status = "running"
  BY DEF Inv, InFlight
<1>3. pos \in 1..Len(Script) /\ pos - 1 \in 0..Len(plan.actions) /\ pos \in 0..Len(plan.actions)
  BY PlanFacts, ScriptOfPlan DEF Inv, TypeOK
<1>4. graph = Made(pos - 1) /\ DOMAIN evidence = Made(pos) /\ graph' = Made(pos)
  BY ErrorOfResult, MadeNow DEF Progress, Publish
<1>5. Run!Prefix(pos - 1) = Made(pos - 1) /\ Run!Prefix(pos) = Made(pos)
  BY <1>3, ScriptOfPlan
<1>6. Run!Publish
  BY <1>1, <1>2, <1>3, <1>4, <1>5 DEF Run!Publish
<1>q. QED
  BY <1>6 DEF Run!Next

LEMMA StepRefines ==
  ASSUME Inv, Progress, [Next]_vars
  PROVE  [Run!Next]_(Run!vars)
<1> USE DEF tables, frame
<1>r. pc # "done" => outcome.status = "running"
  BY DEF Inv, InFlight
<1>t. pc \in ToolSteps \cup {"before"} => pos <= Len(plan.actions)
  BY DEF Inv, TypeOK, ToolSteps
<1>1. CASE Load
  <2>1. graph' = graph /\ evidence' = evidence /\ plan' = plan /\ outcome' = outcome
    BY <1>1, MadeFacts DEF Load, Progress
  <2>q. QED
    BY <2>1 DEF Run!vars, Script
<1>2. CASE Succeed
  <2>1. pos - 1 = Len(plan.actions) /\ Len(plan.actions) \in 0..Len(plan.actions)
    BY <1>2, PlanFacts DEF Succeed, Inv, TypeOK
  <2>2. graph = Run!Prefix(Len(Script))
    BY <1>2, <2>1, ScriptOfPlan DEF Succeed, Progress
  <2>3. Script' = Script /\ outcome'.status = "succeeded"
    BY <1>2 DEF Succeed, End, Script
  <2>4. Run!Succeed
    BY <1>2, <1>r, <2>2, <2>3 DEF Succeed, Run!Succeed
  <2>q. QED
    BY <2>4 DEF Run!Next
<1>3. CASE GateAllows \/ CountBefore \/ ToolBegins \/ QueryRuns \/ QueryFails \/ AuditWriteFails
           \/ JudgeAccepts \/ JudgeRejects
  <2>1. UNCHANGED <<plan, graph, evidence, outcome>>
    BY <1>3 DEF GateAllows, CountBefore, ToolBegins, QueryRuns, QueryFails, AuditWriteFails,
                JudgeAccepts, JudgeRejects, ToolFails
  <2>q. QED
    BY <2>1 DEF Run!vars, Script
<1>4. CASE RerankE4
  <2>1. UNCHANGED <<plan, graph, outcome>> /\ DOMAIN evidence' = DOMAIN evidence
    BY <1>4 DEF RerankE4
  <2>q. QED
    BY <2>1 DEF Run!vars, Script
<1>5. CASE Persist
  BY <1>5, <1>t, StoreStep DEF Persist, WithRow, ToolSteps
<1>6. CASE PersistFails
  <2>1. /\ pc = "persist" /\ UNCHANGED <<plan, graph>>
        /\ DOMAIN evidence' \in {DOMAIN evidence, DOMAIN evidence \cup {action.writes}}
    BY <1>6 DEF PersistFails, WithRow
  <2>2. CASE Raise
    BY <2>1, <2>2, FailStep DEF Raise, End
  <2>3. CASE outcome' = outcome
    BY <1>t, <2>1, <2>3, StoreStep DEF ToolSteps
  <2>q. QED
    BY <1>6, <2>2, <2>3 DEF PersistFails, ToolFails
<1>7. CASE RerankFails
  <2>1. DOMAIN evidence' = DOMAIN evidence
    BY <1>7 DEF RerankFails
  <2>q. QED
    BY <1>7, <2>1, FailStep DEF RerankFails, Raise, End
<1>8. CASE GateDenies \/ RenderRaises \/ ReadRaises
  BY <1>8, FailStep DEF GateDenies, RenderRaises, ReadRaises, Raise, End
<1>9. CASE AccountUntraced \/ AccountFailed \/ AccountExhausted
  BY <1>9, FailStep DEF AccountUntraced, AccountFailed, AccountExhausted, End
<1>10. CASE AccountNoAnomaly
  <2>1. pos = 1
    <3>1. plan \in Plans /\ pos \in DOMAIN plan.actions /\ action.kind = "detect_anomaly"
      BY <1>10, PlanFacts DEF AccountNoAnomaly, SaysNoAnomaly, Inv, TypeOK
    <3>q. QED
      BY <3>1, ShapeAssumption DEF action, HasShape
  <2>q. QED
    BY <1>10, <2>1, PublishStep DEF AccountNoAnomaly, End
<1>11. CASE AccountAction
  BY <1>11, <1>r, PublishStep DEF AccountAction
<1>12. CASE UNCHANGED vars
  BY <1>12 DEF vars, Run!vars, Script
<1>q. QED
  BY <1>1, <1>2, <1>3, <1>4, <1>5, <1>6, <1>7, <1>8, <1>9, <1>10, <1>11, <1>12 DEF Next

LEMMA InitRefines == Init => Run!Init
BY DEF Init, Run!Init, Script, Running

(* Executing a plan does what PlanRun promises: evidence is stored and     *)
(* published one action at a time and in order, nothing is stored after    *)
(* the end, and a success has published everything.                        *)
THEOREM RefinesPlanRun == Spec => ImplementsPlanRun
<1>1. Inv /\ Progress /\ [Next]_vars => [Run!Next]_(Run!vars)
  BY StepRefines
<1>q. QED
  BY <1>1, InitRefines, Invariant, ProgressHolds, PTL DEF Spec, ImplementsPlanRun, Run!Spec

-------------------------------------------------------------------------------
(* The two rows of a ranking.  E_rank is never there without a ranked E4,  *)
(* and a ranked E4 without E_rank only while the rank is being persisted,  *)
(* or when an exception interrupted it there.                              *)
Ranks    == action.kind = "rank_root_causes"
IsRanked == E4 \in DOMAIN evidence /\ evidence[E4].content = "ranked"
AtWork   == {"query", "judge", "rerank", "persist"}

(* Between its checks and its write, a tool makes a row that is not there, *)
(* and a rank finds the E4 it will rewrite.                                *)
Ranking ==
  /\ evidence = [a \in DOMAIN evidence |-> evidence[a]]
  /\ \A a \in DOMAIN evidence :
       evidence[a] = [inputs |-> evidence[a].inputs, dim |-> evidence[a].dim,
                      content |-> evidence[a].content]
  /\ ERank \in DOMAIN evidence => IsRanked
  /\ IsRanked => \/ ERank \in DOMAIN evidence
                 \/ pc = "persist" /\ Ranks
                 \/ outcome.status = "raised"
  /\ pc \in {"rerank", "persist"} => result.content # "ranked"
  /\ pc \in AtWork => action.writes \notin DOMAIN evidence
  /\ pc \in AtWork /\ Ranks => E4 \in DOMAIN evidence
  /\ pc = "rerank" => Ranks
  /\ pc = "persist" /\ Ranks => IsRanked

(* The aliases of the two rows differ, and only a rank writes E_rank.      *)
LEMMA RankAliases ==
  ASSUME Inv, pos <= Len(plan.actions)
  PROVE  /\ E4 # ERank
         /\ action.writes = ERank <=> Ranks
<1>1. E4 # ERank
  BY DEF E4, ERank
<1>2. plan \in Plans /\ pos \in DOMAIN plan.actions
  BY PlanFacts DEF Inv, TypeOK
<1>q. QED
  BY <1>1, <1>2, ShapeAssumption DEF HasShape, Ranks, action

LEMMA RankingInit == Init => Ranking
BY DEF Init, Ranking, IsRanked, AtWork

(* A step that leaves the evidence alone.                                  *)
LEMMA RankingStays ==
  ASSUME Inv, Ranking, UNCHANGED <<plan, evidence>>,
         pc = "persist" => outcome'.status = "raised",
         outcome.status # "raised" \/ outcome'.status = "raised",
         pc' \in AtWork =>
           /\ pos' = pos
           /\ action.writes \notin DOMAIN evidence
           /\ Ranks => E4 \in DOMAIN evidence
           /\ pc' \in {"rerank", "persist"} => result'.content # "ranked"
           /\ pc' = "rerank" => Ranks
           /\ pc' = "persist" => ~Ranks
  PROVE  Ranking'
<1>1. IsRanked' = IsRanked
  BY DEF IsRanked
<1>2. pos' = pos => action' = action /\ Ranks' = Ranks
  BY DEF action, Ranks
<1>3. pc' \in {"rerank", "persist"} => pc' \in AtWork
  BY DEF AtWork
<1>4. evidence' = [a \in DOMAIN evidence' |-> evidence'[a]]
  BY DEF Ranking
<1>5. \A a \in DOMAIN evidence' :
        evidence'[a] = [inputs |-> evidence'[a].inputs, dim |-> evidence'[a].dim,
                        content |-> evidence'[a].content]
  BY DEF Ranking
<1>q. QED
  BY <1>1, <1>2, <1>3, <1>4, <1>5 DEF Ranking

(* The row of E4 is rewritten: that much is a ranking, and all other rows  *)
(* are as they were.                                                       *)
LEMMA Reranked ==
  ASSUME Ranking, E4 \in DOMAIN evidence,
         evidence' = [evidence EXCEPT ![E4].content = "ranked"]
  PROVE  /\ DOMAIN evidence' = DOMAIN evidence
         /\ evidence' = [a \in DOMAIN evidence' |-> evidence'[a]]
         /\ \A a \in DOMAIN evidence' :
              evidence'[a] = [inputs |-> evidence'[a].inputs, dim |-> evidence'[a].dim,
                              content |-> evidence'[a].content]
         /\ IsRanked'
<1>1. /\ DOMAIN evidence' = DOMAIN evidence
      /\ evidence' = [a \in DOMAIN evidence |->
           IF a = E4 THEN [evidence[E4] EXCEPT !.content = "ranked"] ELSE evidence[a]]
  BY DEF Ranking
<1>2. [evidence[E4] EXCEPT !.content = "ranked"]
        = [inputs |-> evidence[E4].inputs, dim |-> evidence[E4].dim, content |-> "ranked"]
  <2>1. evidence[E4] = [inputs |-> evidence[E4].inputs, dim |-> evidence[E4].dim,
                        content |-> evidence[E4].content]
    BY DEF Ranking
  <2>q. QED
    BY <2>1
<1>3. evidence' = [a \in DOMAIN evidence' |-> evidence'[a]]
  BY <1>1
<1>4. ASSUME NEW a \in DOMAIN evidence'
      PROVE  evidence'[a] = [inputs |-> evidence'[a].inputs, dim |-> evidence'[a].dim,
                             content |-> evidence'[a].content]
  <2>1. CASE a = E4
    BY <1>1, <1>2, <2>1
  <2>2. CASE a # E4
    BY <1>1, <1>4, <2>2 DEF Ranking
  <2>q. QED
    BY <2>1, <2>2
<1>5. IsRanked'
  BY <1>1, <1>2 DEF IsRanked, E4
<1>q. QED
  BY <1>1, <1>3, <1>4, <1>5

(* A tool's own row is added: a new one, and no ranking by itself.         *)
LEMMA RowAdded ==
  ASSUME Inv, Ranking, pc = "persist", UNCHANGED <<plan, pos>>,
         evidence' = WithRow(NewRow)
  PROVE  /\ evidence' = [a \in DOMAIN evidence' |-> evidence'[a]]
         /\ \A a \in DOMAIN evidence' :
              evidence'[a] = [inputs |-> evidence'[a].inputs, dim |-> evidence'[a].dim,
                              content |-> evidence'[a].content]
         /\ ERank \in DOMAIN evidence' => IsRanked'
         /\ IsRanked' => ERank \in DOMAIN evidence'
<1>1. /\ DOMAIN evidence' = DOMAIN evidence \cup {action.writes}
      /\ evidence' = [a \in DOMAIN evidence' |-> IF a = action.writes THEN NewRow ELSE evidence[a]]
  BY DEF WithRow
<1>2. NewRow = [inputs |-> NewRow.inputs, dim |-> NewRow.dim, content |-> NewRow.content]
      /\ NewRow.content # "ranked"
  BY DEF NewRow, Ranking
<1>3. action.writes \notin DOMAIN evidence
  BY DEF Ranking, AtWork
<1>4. E4 # ERank /\ (action.writes = ERank <=> Ranks)
  BY RankAliases DEF Inv, TypeOK
<1>5. IsRanked' <=> IsRanked
  BY <1>1, <1>2, <1>3 DEF IsRanked
<1>6. Inv /\ outcome.status = "running"
  BY DEF Inv, InFlight
<1>7. ASSUME NEW a \in DOMAIN evidence'
      PROVE  evidence'[a] = [inputs |-> evidence'[a].inputs, dim |-> evidence'[a].dim,
                             content |-> evidence'[a].content]
  <2>1. CASE a = action.writes
    BY <1>1, <1>2, <1>7, <2>1
  <2>2. CASE a # action.writes
    BY <1>1, <1>7, <2>2 DEF Ranking
  <2>q. QED
    BY <2>1, <2>2
<1>8. evidence' = [a \in DOMAIN evidence' |-> evidence'[a]]
  BY <1>1
<1>q. QED
  BY <1>1, <1>4, <1>5, <1>6, <1>7, <1>8 DEF Ranking

LEMMA RankingNext ==
  ASSUME Inv, Ranking, [Next]_vars
  PROVE  Ranking'
<1> USE DEF tables, frame, AtWork
<1>r. pc # "done" => outcome.status = "running"
  BY DEF Inv, InFlight
<1>a. UNCHANGED frame => action' = action /\ Ranks' = Ranks
  BY DEF action, Ranks
<1>1. CASE Load \/ Succeed \/ GateAllows \/ GateDenies \/ CountBefore \/ RenderRaises \/ ReadRaises
  <2>1. /\ UNCHANGED <<plan, evidence>> /\ pc \notin {"persist", "done"}
        /\ pc' \in {"gate", "before", "tool", "done"}
    BY <1>1 DEF Load, Succeed, GateAllows, GateDenies, CountBefore, RenderRaises, ReadRaises, Raise, End
  <2>q. QED
    BY <1>r, <2>1, RankingStays
<1>2. CASE ToolBegins
  <2>1. /\ UNCHANGED <<plan, pos, evidence, issued>> /\ pc = "tool"
    BY <1>2 DEF ToolBegins
  <2>2. CASE pc' = "after"
    BY <1>r, <2>1, <2>2, RankingStays
  <2>3. CASE pc' \in {"query", "judge"} /\ ToolRefusal = NoErrorCode
    <3>1. action.writes \notin DOMAIN evidence /\ InputsComplete
      BY <2>3 DEF ToolRefusal, NoErrorCode
    <3>2. Ranks => E4 \in DOMAIN evidence
      BY <3>1 DEF InputsComplete, Inputs, Ranks
    <3>q. QED
      BY <1>r, <2>1, <2>3, <3>1, <3>2, RankingStays
  <2>q. QED
    BY <1>2, <2>2, <2>3 DEF ToolBegins, ToolFails
<1>3. CASE QueryRuns
  <2>1. UNCHANGED <<plan, pos, evidence>> /\ pc = "query" /\ pc' \in {"query", "judge"}
    BY <1>3 DEF QueryRuns
  <2>q. QED
    BY <1>r, <2>1, RankingStays DEF Ranking
<1>4. CASE QueryFails \/ AuditWriteFails \/ JudgeRejects
  <2>1. UNCHANGED <<plan, evidence>> /\ pc \in {"query", "judge"} /\ pc' = "after"
    BY <1>4 DEF QueryFails, AuditWriteFails, JudgeRejects, ToolFails
  <2>q. QED
    BY <1>r, <2>1, RankingStays
<1>5. CASE JudgeAccepts
  <2>1. UNCHANGED <<plan, pos, evidence>> /\ pc = "judge" /\ pc' \in {"query", "rerank", "persist"}
    BY <1>5 DEF JudgeAccepts
  <2>2. CASE pc' = "query"
    BY <1>r, <2>1, <2>2, RankingStays DEF Ranking
  <2>3. CASE pc' \in {"rerank", "persist"}
    <3>1. PICK content \in Contents :
            result' = [ok |-> TRUE, code |-> NoErrorCode, declared |-> issued, content |-> content]
      BY <1>5, <2>3 DEF JudgeAccepts
    <3>2. result'.content = content
      BY <3>1
    <3>3. content # "ranked"
      BY DEF Contents, Picked
    <3>4. (pc' = "rerank") <=> Ranks
      BY <1>5, <2>3 DEF JudgeAccepts, Ranks
    <3>q. QED
      BY <1>r, <2>1, <2>3, <3>2, <3>3, <3>4, RankingStays DEF Ranking
  <2>q. QED
    BY <2>1, <2>2, <2>3
<1>6. CASE RerankE4
  <2>1. /\ UNCHANGED <<plan, pos, result, outcome>> /\ pc = "rerank" /\ pc' = "persist"
        /\ evidence' = [evidence EXCEPT ![E4].content = "ranked"]
        /\ E4 \in DOMAIN evidence /\ Ranks
        /\ action.writes \notin DOMAIN evidence /\ result.content # "ranked"
    BY <1>6 DEF RerankE4, Ranking
  <2>q. QED
    BY <1>a, <2>1, Reranked DEF Ranking
<1>7. CASE RerankFails
  <2>1. UNCHANGED plan /\ pc = "rerank" /\ pc' = "done" /\ outcome'.status = "raised"
    BY <1>7 DEF RerankFails, Raise, End
  <2>2. CASE UNCHANGED evidence
    BY <2>1, <2>2, RankingStays
  <2>3. CASE evidence' = [evidence EXCEPT ![E4].content = "ranked"]
    <3>1. E4 \in DOMAIN evidence
      BY <2>1 DEF Ranking
    <3>q. QED
      BY <2>1, <2>3, <3>1, Reranked DEF Ranking
  <2>q. QED
    BY <1>7, <2>2, <2>3 DEF RerankFails
<1>8. CASE Persist
  <2>1. UNCHANGED <<plan, pos>> /\ pc = "persist" /\ pc' = "after" /\ evidence' = WithRow(NewRow)
    BY <1>8 DEF Persist
  <2>q. QED
    BY <2>1, RowAdded DEF Ranking
<1>9. CASE PersistFails
  <2>1. /\ UNCHANGED <<plan, pos>> /\ pc = "persist" /\ pc' \in {"after", "done"}
        /\ pc' = "done" => outcome'.status = "raised"
        /\ pc' = "after" => ~Ranks /\ outcome' = outcome
    BY <1>9 DEF PersistFails, Raise, End, ToolFails, Ranks
  <2>2. CASE evidence' = WithRow(NewRow)
    BY <2>1, <2>2, RowAdded DEF Ranking
  <2>3. CASE evidence' = evidence
    <3>1. IsRanked' = IsRanked
      BY <2>3 DEF IsRanked
    <3>q. QED
      BY <2>1, <2>3, <3>1 DEF Ranking
  <2>q. QED
    BY <1>9, <2>2, <2>3 DEF PersistFails
<1>10. CASE AccountUntraced \/ AccountFailed \/ AccountExhausted \/ AccountNoAnomaly \/ AccountAction
  <2>1. /\ UNCHANGED <<plan, evidence>> /\ pc = "after" /\ pc' \in {"gate", "done"}
    BY <1>10 DEF AccountUntraced, AccountFailed, AccountExhausted, AccountNoAnomaly, AccountAction, End
  <2>q. QED
    BY <1>r, <2>1, RankingStays
<1>11. CASE UNCHANGED vars
  <2>1. IsRanked' = IsRanked /\ Ranks' = Ranks /\ action' = action
    BY <1>11 DEF vars, IsRanked, Ranks, action
  <2>q. QED
    BY <1>11, <2>1 DEF vars, Ranking
<1>q. QED
  BY <1>1, <1>2, <1>3, <1>4, <1>5, <1>6, <1>7, <1>8, <1>9, <1>10, <1>11 DEF Next

LEMMA RankingHolds == Spec => []Ranking
<1>1. Inv /\ Ranking /\ [Next]_vars => Ranking'
  BY RankingNext
<1>q. QED
  BY <1>1, RankingInit, Invariant, PTL DEF Spec

-------------------------------------------------------------------------------
(* The trace against the evidence, while the run goes on and at its end.   *)
TraceIsTrue ==
  /\ \A i \in DOMAIN trace :
       /\ trace[i].pos = i
       /\ trace[i].error # NoErrorCode => i = Len(trace) /\ pc = "done"
       /\ trace[i].error = NoErrorCode => plan.actions[i].writes \in DOMAIN evidence
  /\ \A a \in graph : \E i \in DOMAIN trace :
       plan.actions[i].writes = a /\ trace[i].error = NoErrorCode

(* The evidence never lacks a row of an action that is done.               *)
LEMMA DoneIsThere ==
  ASSUME Inv, Progress, pc # "done"
  PROVE  Made(pos - 1) \subseteq DOMAIN evidence
BY MadeNow DEF Progress

LEMMA RowsAreTrue ==
  ASSUME NEW n \in Nat, trace = Rows(n), graph = Made(n), Made(n) \subseteq DOMAIN evidence
  PROVE  TraceIsTrue
BY DEF TraceIsTrue, Rows, Made

(* While the run goes on there are no errors in the trace.                 *)
LEMMA TraceIsTrueInFlight ==
  ASSUME Inv, Progress, pc # "done"
  PROVE  TraceIsTrue
BY DoneIsThere, MadeNow, RowsAreTrue DEF Progress

(* The run ends with at most one more row: an error, or the trace of an    *)
(* action whose evidence is there.                                         *)
LEMMA TraceIsTrueAtTheEnd ==
  ASSUME Inv, Progress, pc # "done", pc' = "done", UNCHANGED <<plan, pos, graph>>,
         DOMAIN evidence \subseteq DOMAIN evidence',
         NEW error, error = NoErrorCode => action.writes \in DOMAIN evidence',
         TraceLost(error)
  PROVE  TraceIsTrue'
<1>1. pos - 1 \in Nat /\ pos = (pos - 1) + 1
  BY PlanFacts DEF Inv, TypeOK
<1>2. /\ trace = Rows(pos - 1) /\ graph' = Made(pos - 1)
      /\ Made(pos - 1) \subseteq DOMAIN evidence'
  BY DoneIsThere DEF Progress
<1>3. \A i \in 1..(pos - 1) : plan'.actions[i].writes \in DOMAIN evidence'
  BY <1>2 DEF Made
<1>4. CASE UNCHANGED trace
  BY <1>1, <1>2, <1>3, <1>4 DEF TraceIsTrue, Rows, Made
<1>5. CASE Traced(error)
  <2>1. /\ trace \in Seq([pos : Int, error : {NoErrorCode}]) /\ Len(trace) = pos - 1
        /\ \A i \in 1..(pos - 1) : trace[i].pos = i /\ trace[i].error = NoErrorCode
    BY <1>1, <1>2, RowsFacts
  <2>2. /\ DOMAIN trace' = 1..pos /\ Len(trace') = pos
        /\ \A i \in 1..(pos - 1) : trace'[i].pos = i /\ trace'[i].error = NoErrorCode
        /\ trace'[pos].pos = pos /\ trace'[pos].error = error
    BY <1>1, <1>5, <2>1 DEF Traced
  <2>3. ASSUME NEW i \in DOMAIN trace'
        PROVE  /\ trace'[i].pos = i
               /\ trace'[i].error # NoErrorCode => i = Len(trace') /\ pc' = "done"
               /\ trace'[i].error = NoErrorCode => plan'.actions[i].writes \in DOMAIN evidence'
    <3>1. CASE i = pos
      BY <2>2, <3>1 DEF action
    <3>2. CASE i \in 1..(pos - 1)
      <4>1. trace'[i].pos = i /\ trace'[i].error = NoErrorCode
        BY <2>2, <3>2
      <4>q. QED
        BY <1>3, <3>2, <4>1
    <3>q. QED
      BY <1>1, <2>2, <2>3, <3>1, <3>2
  <2>4. ASSUME NEW a \in graph'
        PROVE  \E i \in DOMAIN trace' : plan'.actions[i].writes = a /\ trace'[i].error = NoErrorCode
    <3>1. PICK i \in 1..(pos - 1) : plan.actions[i].writes = a
      BY <1>2, <2>4 DEF Made
    <3>2. trace'[i].error = NoErrorCode /\ i \in DOMAIN trace' /\ plan'.actions[i].writes = a
      BY <1>1, <2>2, <3>1
    <3>q. QED
      BY <3>2
  <2>q. QED
    BY <2>3, <2>4 DEF TraceIsTrue
<1>q. QED
  BY <1>4, <1>5 DEF TraceLost

TraceEndsTrue == pc = "done" => TraceIsTrue

(* An end that publishes: what was found is traced and in the graph.       *)
LEMMA TraceIsTrueWithoutAnomaly ==
  ASSUME Inv, Progress, AccountNoAnomaly
  PROVE  TraceIsTrue'
<1>1. /\ pos \in Nat /\ pos - 1 \in Nat /\ pos = (pos - 1) + 1
  BY PlanFacts DEF Inv, TypeOK
<1>2. /\ UNCHANGED <<plan, pos, evidence>> /\ pc = "after" /\ Error = NoErrorCode
      /\ trace' = Append(trace, [pos |-> pos, error |-> NoErrorCode])
      /\ graph' = graph \cup {action.writes}
  BY DEF AccountNoAnomaly, Publish, Traced, frame, tables
<1>3. /\ trace = Rows(pos - 1) /\ graph' = Made(pos) /\ DOMAIN evidence' = Made(pos)
  BY <1>2, MadeNow, ErrorOfResult DEF Progress
<1>4. trace' = Rows(pos)
  BY <1>1, <1>2, <1>3, RowsGrow
<1>5. /\ DOMAIN trace' = 1..pos
      /\ \A i \in 1..pos : trace'[i].pos = i /\ trace'[i].error = NoErrorCode
  BY <1>1, <1>4, RowsFacts DEF Rows
<1>6. plan' = plan
  BY <1>2
<1>q. QED
  BY <1>3, <1>5, <1>6 DEF TraceIsTrue, Made

LEMMA TraceEndsNext ==
  ASSUME Inv, Progress, TraceEndsTrue, [Next]_vars
  PROVE  TraceEndsTrue'
<1> SUFFICES ASSUME pc' = "done"
             PROVE  TraceIsTrue'
  BY DEF TraceEndsTrue
<1> USE DEF tables, frame
<1>1. CASE Succeed \/ RenderRaises \/ ReadRaises
  <2>1. /\ pc # "done" /\ UNCHANGED <<plan, pos, graph, evidence, trace>>
    BY <1>1 DEF Succeed, RenderRaises, ReadRaises
  <2>2. TraceLost("lost") /\ "lost" # NoErrorCode
    BY <2>1 DEF TraceLost, NoErrorCode
  <2>q. QED
    BY <2>1, <2>2, TraceIsTrueAtTheEnd
<1>2. CASE GateDenies
  <2>1. /\ pc # "done" /\ UNCHANGED <<plan, pos, graph, evidence>> /\ TraceLost(Verdict)
    BY <1>2 DEF GateDenies, TraceLost
  <2>q. QED
    BY <2>1, VerdictIsNoNone, TraceIsTrueAtTheEnd
<1>3. CASE RerankFails \/ PersistFails
  <2>1. /\ pc # "done" /\ UNCHANGED <<plan, pos, graph, trace>>
        /\ DOMAIN evidence \subseteq DOMAIN evidence'
    BY <1>3 DEF RerankFails, PersistFails, WithRow
  <2>2. TraceLost("lost") /\ "lost" # NoErrorCode
    BY <2>1 DEF TraceLost, NoErrorCode
  <2>q. QED
    BY <2>1, <2>2, TraceIsTrueAtTheEnd
<1>4. CASE AccountUntraced \/ AccountFailed
  <2>1. /\ pc = "after" /\ UNCHANGED <<plan, pos, graph, evidence>> /\ TraceLost(Error)
    BY <1>4 DEF AccountUntraced, AccountFailed, TraceLost
  <2>2. Error = NoErrorCode => action.writes \in DOMAIN evidence'
    BY <2>1, MadeNow, ErrorOfResult
  <2>q. QED
    BY <2>1, <2>2, TraceIsTrueAtTheEnd
<1>5. CASE AccountExhausted
  <2>1. /\ pc = "after" /\ UNCHANGED <<plan, pos, graph, evidence>> /\ TraceLost(NoErrorCode)
        /\ Error = NoErrorCode
    BY <1>5 DEF AccountExhausted, TraceLost
  <2>2. action.writes \in DOMAIN evidence'
    BY <2>1, MadeNow, ErrorOfResult
  <2>q. QED
    BY <2>1, <2>2, TraceIsTrueAtTheEnd
<1>6. CASE AccountNoAnomaly
  BY <1>6, TraceIsTrueWithoutAnomaly
<1>7. CASE Load \/ GateAllows \/ CountBefore \/ ToolBegins \/ QueryRuns \/ QueryFails
           \/ AuditWriteFails \/ JudgeAccepts \/ JudgeRejects \/ RerankE4 \/ Persist \/ AccountAction
  <2>1. pc' # "done"
    BY <1>7 DEF Load, GateAllows, CountBefore, ToolBegins, QueryRuns, QueryFails, AuditWriteFails,
                JudgeAccepts, JudgeRejects, RerankE4, Persist, AccountAction, ToolFails
  <2>q. QED
    BY <2>1
<1>8. CASE UNCHANGED vars
  BY <1>8 DEF vars, TraceEndsTrue, TraceIsTrue
<1>q. QED
  BY <1>1, <1>2, <1>3, <1>4, <1>5, <1>6, <1>7, <1>8 DEF Next

(* A run succeeds in one place only: after its last action.                *)
LEMMA SuccessNext ==
  ASSUME Inv, Progress, Ranking, SuccessIsComplete, [Next]_vars
  PROVE  SuccessIsComplete'
<1> USE DEF tables, frame
<1>r. pc # "done" => outcome.status = "running"
  BY DEF Inv, InFlight
<1>1. CASE Succeed
  <2>1. /\ pc = "gate" /\ UNCHANGED <<plan, evidence, graph, trace>>
        /\ pos - 1 = Len(plan.actions)
    BY <1>1, PlanFacts DEF Succeed, Inv, TypeOK
  <2>2. DOMAIN plan.actions = 1..Len(plan.actions)
    BY PlanFacts DEF Inv
  <2>3. Made(pos - 1) = Written /\ Rows(pos - 1) = [i \in DOMAIN plan.actions |-> [pos |-> i, error |-> NoErrorCode]]
    BY <2>1, <2>2 DEF Made, Written, Rows
  <2>4. DOMAIN evidence = Written /\ graph = Written /\ trace = Rows(pos - 1)
    BY <2>1, <2>3 DEF Progress
  <2>5. ERank \in Written => evidence[E4].content = "ranked"
    BY <2>4 DEF Ranking, IsRanked
  <2>6. Written' = Written
    BY <2>1 DEF Written
  <2>q. QED
    BY <2>1, <2>3, <2>4, <2>5, <2>6 DEF SuccessIsComplete
<1>2. CASE UNCHANGED vars
  BY <1>2 DEF vars, SuccessIsComplete, Written
<1>3. CASE Next /\ ~Succeed
  <2>1. outcome'.status # "succeeded"
    BY <1>3, <1>r DEF Next, Load, GateAllows, GateDenies, CountBefore, ToolBegins, RenderRaises,
       QueryRuns, QueryFails, AuditWriteFails, JudgeAccepts, JudgeRejects, RerankE4, RerankFails,
       Persist, PersistFails, AccountUntraced, AccountFailed, AccountExhausted, AccountNoAnomaly,
       AccountAction, ReadRaises, ToolFails, Raise, End
  <2>q. QED
    BY <2>1 DEF SuccessIsComplete
<1>q. QED
  BY <1>1, <1>2, <1>3

(* A run that is reported as a success has stored, published and traced    *)
(* every row of its plan, and its E4 carries the ranking, whichever calls  *)
(* failed on the way.                                                      *)
THEOREM SuccessesAreComplete == Spec => []SuccessIsComplete
<1>1. Init => SuccessIsComplete
  BY DEF Init, SuccessIsComplete, Running
<1>2. Inv /\ Progress /\ Ranking /\ SuccessIsComplete /\ [Next]_vars => SuccessIsComplete'
  BY SuccessNext
<1>q. QED
  BY <1>1, <1>2, Invariant, ProgressHolds, RankingHolds, PTL DEF Spec

(* The trace accounts for the evidence at every moment, and so it does     *)
(* when the run has ended, however it ended.                               *)
THEOREM TracesAccountForEvidence == Spec => []EvidenceIsTraced
<1>1. Init => TraceEndsTrue
  BY DEF Init, TraceEndsTrue
<1>2. Inv /\ Progress /\ TraceEndsTrue /\ [Next]_vars => TraceEndsTrue'
  BY TraceEndsNext
<1>3. Inv /\ Progress /\ TraceEndsTrue => TraceIsTrue
  BY TraceIsTrueInFlight DEF TraceEndsTrue
<1>4. Ranking => RankedTogether
  BY DEF Ranking, RankedTogether, IsRanked
<1>5. TraceIsTrue /\ RankedTogether => EvidenceIsTraced
  BY DEF TraceIsTrue, EvidenceIsTraced
<1>q. QED
  BY <1>1, <1>2, <1>3, <1>4, <1>5, Invariant, ProgressHolds, RankingHolds, PTL DEF Spec

-------------------------------------------------------------------------------
(* The lanes of a compiled plan.                                           *)

(* What matches an alias that a current action requires, among the rows    *)
(* that are published when its tool runs, are its sources.                 *)
LEMMA MatchedAreSources ==
  ASSUME Inv, Progress, pos <= Len(plan.actions), pc \notin {"after", "done"}
  PROVE  {a \in graph : \E r \in ToSet(action.requires) : AliasMatches(a, r)} = Sources(action)
<1> DEFINE matched == {a \in graph : \E r \in ToSet(action.requires) : AliasMatches(a, r)}
<1>1. /\ plan \in Plans /\ pos \in DOMAIN plan.actions
      /\ DOMAIN plan.actions = 1..Len(plan.actions) /\ Len(plan.actions) \in Nat
      /\ pos \in Nat
  BY PlanFacts DEF Inv, TypeOK
<1>2. graph = {plan.actions[j].writes : j \in 1..(pos - 1)}
  BY DEF Progress, Made
<1>3. \A j \in DOMAIN plan.actions :
        LET b == plan.actions[j]
        IN  /\ IsPrefix(b.produces, b.writes)
            /\ b.produces \in ToSet(action.requires) => j < pos
            /\ j < pos /\ (\E r \in ToSet(action.requires) : IsPrefix(r, b.writes))
                 => b.produces \in ToSet(action.requires)
  BY <1>1, LanesAssumption DEF AreLanesApart, action
<1>4. ASSUME NEW a \in matched PROVE a \in Sources(action)
  <2>1. PICK j \in 1..(pos - 1) : a = plan.actions[j].writes
    BY <1>2
  <2>2. j \in DOMAIN plan.actions /\ j < pos
    BY <1>1
  <2>3. plan.actions[j].produces \in ToSet(action.requires)
    BY <1>3, <2>1, <2>2 DEF AliasMatches
  <2>q. QED
    BY <2>1, <2>2, <2>3 DEF Sources
<1>5. ASSUME NEW a \in Sources(action) PROVE a \in matched
  <2>1. PICK j \in DOMAIN plan.actions :
          a = plan.actions[j].writes /\ plan.actions[j].produces \in ToSet(action.requires)
    BY DEF Sources
  <2>2. j \in 1..(pos - 1) /\ IsPrefix(plan.actions[j].produces, a)
    BY <1>1, <1>3, <2>1
  <2>q. QED
    BY <1>2, <2>1, <2>2 DEF AliasMatches
<1>q. QED
  BY <1>4, <1>5

(* A merge names its sources in full; a detection has none.                *)
LEMMA NamedAreSources ==
  ASSUME Inv, pos <= Len(plan.actions)
  PROVE  /\ action.kind = "merge_contribution_sets" => ToSet(action.requires) = Sources(action)
         /\ action.kind = "detect_anomaly" => Sources(action) = {}
<1>1. plan \in Plans /\ pos \in DOMAIN plan.actions
  BY PlanFacts DEF Inv, TypeOK
<1>2. \A j \in DOMAIN plan.actions :
        LET b == plan.actions[j]
            isSource == b.produces \in ToSet(action.requires)
        IN  /\ action.kind = "detect_anomaly" => action.requires = <<>>
            /\ action.kind = "merge_contribution_sets" =>
                 /\ isSource => b.writes = b.produces
                 /\ ToSet(action.requires)
                      \subseteq {plan.actions[k].produces : k \in DOMAIN plan.actions}
  BY <1>1, LanesAssumption DEF AreLanesApart, action
<1>3. ToSet(<<>>) = {}
  BY DEF ToSet
<1>q. QED
  BY <1>1, <1>2, <1>3 DEF Sources

(* So the row that a tool adds records the sources of its action.          *)
LEMMA InputsAreSources ==
  ASSUME Inv, Progress, pc = "persist", action.kind # "rank_root_causes"
  PROVE  NewRow.inputs = Sources(action)
<1>1. pos <= Len(plan.actions)
  BY DEF Inv, TypeOK
<1>2. Inputs = Sources(action)
  BY <1>1, MatchedAreSources, NamedAreSources DEF Inputs
<1>q. QED
  BY <1>2 DEF NewRow

(* Only the row of the current action is new.                              *)
LEMMA LanesStayApart ==
  ASSUME Inv, Progress, Ranking, LanesAreIsolated, pc = "persist", UNCHANGED <<plan, pos>>,
         evidence' = WithRow(NewRow)
  PROVE  LanesAreIsolated'
<1>1. /\ DOMAIN evidence' = DOMAIN evidence \cup {action.writes}
      /\ \A a \in DOMAIN evidence' :
           evidence'[a] = IF a = action.writes THEN NewRow ELSE evidence[a]
  BY DEF WithRow
<1>2. plan \in Plans /\ pos \in DOMAIN plan.actions
  BY PlanFacts DEF Inv, TypeOK
<1>3. \A i \in DOMAIN plan.actions : plan.actions[i].writes = action.writes => i = pos
  BY <1>2, LanesAssumption DEF AreLanesApart, action
<1>4. \A a : Sources(a)' = Sources(a)
  BY DEF Sources
<1>5. SUFFICES ASSUME NEW i \in DOMAIN plan.actions,
                      plan.actions[i].writes \in DOMAIN evidence',
                      plan.actions[i].kind # "rank_root_causes"
               PROVE  evidence'[plan.actions[i].writes].inputs = Sources(plan.actions[i])
  BY <1>4 DEF LanesAreIsolated, Sources
<1>6. CASE i = pos
  BY <1>1, <1>5, <1>6, InputsAreSources DEF action
<1>7. CASE i # pos
  BY <1>1, <1>3, <1>5, <1>7 DEF LanesAreIsolated
<1>q. QED
  BY <1>6, <1>7

(* The ranking leaves what is recorded of the inputs alone, and every      *)
(* other step the evidence.                                                *)
LEMMA LanesApartNext ==
  ASSUME Inv, Progress, Ranking, LanesAreIsolated, [Next]_vars
  PROVE  LanesAreIsolated'
<1>1. CASE UNCHANGED <<plan, evidence>>
  BY <1>1 DEF LanesAreIsolated, Sources
<1>2. CASE /\ UNCHANGED plan /\ pc = "rerank"
           /\ evidence' = [evidence EXCEPT ![E4].content = "ranked"]
  <2>1. E4 \in DOMAIN evidence
    BY <1>2 DEF Ranking, AtWork
  <2>2. /\ DOMAIN evidence' = DOMAIN evidence
        /\ \A a \in DOMAIN evidence : evidence'[a].inputs = evidence[a].inputs
    <3>1. evidence' = [a \in DOMAIN evidence |->
            IF a = E4 THEN [evidence[E4] EXCEPT !.content = "ranked"] ELSE evidence[a]]
      BY <1>2 DEF Ranking
    <3>2. evidence[E4] = [inputs |-> evidence[E4].inputs, dim |-> evidence[E4].dim,
                          content |-> evidence[E4].content]
      BY <2>1 DEF Ranking
    <3>3. [evidence[E4] EXCEPT !.content = "ranked"].inputs = evidence[E4].inputs
      BY <3>2
    <3>q. QED
      BY <3>1, <3>3
  <2>q. QED
    BY <1>2, <2>2 DEF LanesAreIsolated, Sources
<1>3. CASE /\ UNCHANGED <<plan, pos>> /\ pc = "persist" /\ evidence' = WithRow(NewRow)
  BY <1>3, LanesStayApart
<1>4. \/ UNCHANGED <<plan, evidence>>
      \/ /\ UNCHANGED plan /\ pc = "rerank"
         /\ evidence' = [evidence EXCEPT ![E4].content = "ranked"]
      \/ /\ UNCHANGED <<plan, pos>> /\ pc = "persist" /\ evidence' = WithRow(NewRow)
  <2>1. CASE Load \/ Succeed \/ GateAllows \/ GateDenies \/ CountBefore \/ ToolBegins \/ RenderRaises
    BY <2>1 DEF Load, Succeed, GateAllows, GateDenies, CountBefore, ToolBegins, RenderRaises,
                tables, frame
  <2>2. CASE QueryRuns \/ QueryFails \/ AuditWriteFails \/ JudgeAccepts \/ JudgeRejects \/ ReadRaises
    BY <2>2 DEF QueryRuns, QueryFails, AuditWriteFails, JudgeAccepts, JudgeRejects, ReadRaises,
                tables, frame
  <2>3. CASE RerankE4 \/ RerankFails
    BY <2>3 DEF RerankE4, RerankFails, frame
  <2>4. CASE Persist \/ PersistFails
    BY <2>4 DEF Persist, PersistFails, frame
  <2>5. CASE AccountUntraced \/ AccountFailed \/ AccountExhausted \/ AccountNoAnomaly \/ AccountAction
    BY <2>5 DEF AccountUntraced, AccountFailed, AccountExhausted, AccountNoAnomaly, AccountAction,
                tables, frame
  <2>6. CASE UNCHANGED vars
    BY <2>6 DEF vars
  <2>q. QED
    BY <2>1, <2>2, <2>3, <2>4, <2>5, <2>6 DEF Next
<1>q. QED
  BY <1>1, <1>2, <1>3, <1>4

(* Whatever fails, no lane of a plan is fed by another: the inputs that    *)
(* are recorded with a row are exactly the rows that the plan declares as  *)
(* its sources.                                                            *)
THEOREM LanesAreKeptApart == Spec => []LanesAreIsolated
<1>1. Init => LanesAreIsolated
  BY DEF Init, LanesAreIsolated
<1>2. Inv /\ Progress /\ Ranking /\ LanesAreIsolated /\ [Next]_vars => LanesAreIsolated'
  BY LanesApartNext
<1>q. QED
  BY <1>1, <1>2, Invariant, ProgressHolds, RankingHolds, PTL DEF Spec

-------------------------------------------------------------------------------
(* From a question to its plan: what the metric service lets through.      *)

LEMMA NoErrorIsFound ==
  ASSUME NEW n \in Nat, NEW errors, DOMAIN errors = 1..n, FirstError(errors) = NoError
  PROVE  \A i \in 1..n : errors[i] = NoError
<1> DEFINE found == {i \in DOMAIN errors : errors[i] # NoError}
<1> SUFFICES ASSUME found # {} PROVE FALSE
  OBVIOUS
<1>1. found \in SUBSET Nat
  OBVIOUS
<1>2. FirstError(errors) = errors[Min(found)]
  BY DEF FirstError
<1>3. Min(found) \in found
  <2> HIDE DEF found
  <2> QED
    BY <1>1, MinIsMin
<1>4. errors[Min(found)] # NoError
  BY <1>3
<1> QED
  BY <1>2, <1>4

LEMMA AcceptedIntent ==
  ASSUME NEW i, IntentError(i) = NoError
  PROVE  i.date \in PastDays
<1> DEFINE error(code, found) == IF found THEN code ELSE NoError
           errors == <<
        error("METRIC_NOT_FOUND", i.metric \notin SupportedMetrics),
        error("PARSE_FAILED", MetricOfFamily[i.family] # i.metric),
        error("DATE_RANGE_INVALID", i.date \notin PastDays),
        error("DIMENSION_NOT_ALLOWED",
          \/ i.dim # NoValue /\ i.dim \notin SupportedDimensions
          \/ /\ i.dim # NoValue /\ i.element # NoValue
             /\ ~IsKnown(i.dim, i.element)
          \/ ~(DOMAIN i.filters \subseteq SupportedDimensions)
          \/ \E d \in DOMAIN i.filters : ~IsKnown(d, i.filters[d])),
        error("PARSE_FAILED", i.element # NoValue /\ i.dim = NoValue)>>
<1>1. FirstError(errors) = NoError
  BY DEF IntentError
<1>2. DOMAIN errors = 1..5 /\ errors[3] = error("DATE_RANGE_INVALID", i.date \notin PastDays)
  OBVIOUS
<1>3. errors[3] = NoError
  <2> HIDE DEF errors
  <2>1. 3 \in 1..5 /\ 5 \in Nat
    OBVIOUS
  <2> QED
    BY <1>1, <1>2, <2>1, NoErrorIsFound
<1> QED
  BY <1>2, <1>3 DEF NoError

LEMMA AcceptedMetric ==
  ASSUME NEW q, NEW i, MetricError(q, i) = NoError
  PROVE  q.metric \in {NoValue, i.metric}
BY DEF MetricError, NoError

LEMMA AcceptedScope ==
  ASSUME NEW q, NEW i, NEW d \in DOMAIN q.scope, d \in SupportedDimensions,
         \A k \in 1..5 : DimensionErrors(q, i)[k] = NoError
  PROVE  NamedIn(i, d, q.scope[d])
<1>1. PICK k \in 1..5 : SortedDimensions[k] = d
  BY DEF SupportedDimensions, SortedDimensions, ToSet
<1>2. DOMAIN SortedDimensions = 1..5
  BY DEF SortedDimensions
<1>3. DimensionErrors(q, i)[k] =
        CASE d \notin DOMAIN q.scope                -> NoError
          [] d \in DOMAIN q.scope /\ ~IsKnown(d, q.scope[d]) -> "DIMENSION_NOT_ALLOWED"
          [] OTHER -> IF NamedIn(i, d, q.scope[d]) THEN NoError ELSE "PARSE_FAILED"
  BY <1>1, <1>2 DEF DimensionErrors
<1>4. DimensionErrors(q, i)[k] = NoError
  OBVIOUS
<1> QED
  BY <1>3, <1>4 DEF NoError

(* Every check of parse_question has passed.                               *)
LEMMA AcceptedQuestion ==
  ASSUME NEW q, NEW i, ServiceError(q, i) = NoError, NEW s, s = ServedIntent(q, i),
         \A d \in DOMAIN q.scope : d \in SupportedDimensions
  PROVE  /\ s.date \in PastDays /\ RunDay \in PastDays
         /\ q.metric \in {NoValue, s.metric}
         /\ \A d \in DOMAIN q.scope : NamedIn(s, d, q.scope[d])
<1>1. PICK first, dims, last : /\ first = <<DayError(q)>> /\ dims = DimensionErrors(q, s)
                               /\ last = <<MetricError(q, s), IntentError(s)>>
  OBVIOUS
<1>2. Lists(first, 1) /\ Lists(last, 2)
  BY <1>1 DEF Lists
<1>3. Lists(dims, 5)
  BY <1>1 DEF Lists, DimensionErrors, SortedDimensions
<1>4. PICK front : front = Cat(first, dims)
  OBVIOUS
<1>5. /\ Lists(front, 6) /\ front[1] = first[1]
      /\ \A k \in 1..5 : front[1 + k] = dims[k]
  BY <1>2, <1>3, <1>4, Joined
<1>6. PICK errors : errors = Cat(front, last)
  OBVIOUS
<1>7. /\ Lists(errors, 8) /\ \A k \in 1..6 : errors[k] = front[k]
      /\ errors[7] = last[1] /\ errors[8] = last[2]
  <2>1. /\ Lists(errors, 6 + 2) /\ \A k \in 1..6 : errors[k] = front[k]
        /\ \A k \in 1..2 : errors[6 + k] = last[k]
    BY <1>2, <1>5, <1>6, Joined
  <2> QED
    BY <2>1
<1>8. FirstError(errors) = NoError
  BY <1>1, <1>4, <1>6 DEF ServiceError, Cat
<1>9. DOMAIN errors = 1..8
  BY <1>7 DEF Lists
<1>10. \A k \in 1..8 : errors[k] = NoError
  BY <1>8, <1>9, NoErrorIsFound
<1>11. DayError(q) = NoError /\ MetricError(q, s) = NoError /\ IntentError(s) = NoError
  BY <1>1, <1>5, <1>7, <1>10
<1>12. \A k \in 1..5 : dims[k] = NoError
  <2>1. \A k \in 1..5 : 1 + k \in 1..6 /\ 1 + k \in 1..8
    OBVIOUS
  <2> QED
    BY <1>5, <1>7, <1>10, <2>1
<1>13. RunDay \in PastDays
  BY <1>11 DEF DayError, NoError
<1> QED
  BY <1>1, <1>11, <1>12, <1>13, AcceptedIntent, AcceptedMetric, AcceptedScope

(* What the service serves fits the schema still.                          *)
IsIntent(i) ==
  i = [metric |-> i.metric, date |-> i.date, family |-> i.family, strategy |-> i.strategy,
       dim |-> i.dim, element |-> i.element,
       filters |-> [d \in DOMAIN i.filters |-> i.filters[d]]]

LEMMA ServedDay ==
  ASSUME NEW q, NEW a, IsIntent(a.intent), BindsRunDay(q)
  PROVE  ServedIntent(q, IntentOf(a)).date = RunDay
<1>1. PICK i : i = a.intent
  OBVIOUS
<1>2. PICK j : j = IntentOf(a)
  OBVIOUS
<1>3. "date" \in DOMAIN j
  BY <1>1, <1>2 DEF IsIntent, IntentOf
<1>4. PICK r : r = Reworded(q, j)
  OBVIOUS
<1>5. "date" \in DOMAIN r
  BY <1>3, <1>4 DEF Reworded
<1> QED
  BY <1>2, <1>4, <1>5 DEF ServedIntent, Dated

LEMMA ServedFilters ==
  ASSUME NEW q, NEW a, IsIntent(a.intent), NEW i, i = ServedIntent(q, IntentOf(a))
  PROVE  i.filters = [d \in DOMAIN i.filters |-> i.filters[d]]
<1>1. PICK f : f = a.intent.filters /\ f = [d \in DOMAIN f |-> f[d]]
  BY DEF IsIntent
<1>2. PICK j : j = IntentOf(a)
  OBVIOUS
<1>3. j.filters = f
  BY <1>1, <1>2 DEF IsIntent, IntentOf
<1>4. PICK r : r = Reworded(q, j)
  OBVIOUS
<1>5. r.filters = f
  BY <1>3, <1>4 DEF Reworded
<1>6. i.filters = f
  BY <1>2, <1>4, <1>5 DEF ServedIntent, Dated
<1> QED
  BY <1>1, <1>6

-------------------------------------------------------------------------------
(* What the compiler puts together are sequences of actions, of which      *)
(* those after the anomaly check detect nothing, and only a rank writes    *)
(* E_rank.                                                                 *)

LEMMA ShortLists ==
  /\ Lists(<<>>, 0)
  /\ \A x : Lists(<<x>>, 1)
  /\ \A x, y : Lists(<<x, y>>, 2)
  /\ \A x, y, z, t : Lists(<<x, y, z, t>>, 4)
BY DEF Lists

LEMMA SequencesAreLists ==
  ASSUME NEW s
  PROVE  /\ IsSequence(s) => Len(s) \in Nat /\ DOMAIN s = 1..Len(s) /\ Lists(s, Len(s))
         /\ \A n \in Nat : Lists(s, n) => IsSequence(s)
<1>1. IsSequence(s) => Len(s) \in Nat /\ DOMAIN s = 1..Len(s) /\ Lists(s, Len(s))
  BY DEF IsSequence, Lists
<1>2. ASSUME NEW n \in Nat, Lists(s, n) PROVE IsSequence(s)
  <2>1. DOMAIN s = 1..n
    BY <1>2 DEF Lists
  <2>2. \A i \in 1..n : s[i] \in ToSet(s)
    BY <2>1 DEF ToSet
  <2> QED
    BY <1>2, <2>2 DEF Lists, IsSequence
<1> QED
  BY <1>1, <1>2

LEMMA FlattenedIsSequence ==
  ASSUME NEW n \in Nat, NEW seqs, Lists(seqs, n), \A k \in 1..n : IsSequence(seqs[k])
  PROVE  /\ IsSequence(FlattenSeq(seqs))
         /\ \A x \in ToSet(FlattenSeq(seqs)) : \E k \in 1..n : x \in ToSet(seqs[k])
<1> DEFINE S == UNION {ToSet(seqs[k]) : k \in 1..n}
<1>1. ASSUME NEW k \in 1..n PROVE seqs[k] \in Seq(S)
  <2>1. ToSet(seqs[k]) \subseteq S
    OBVIOUS
  <2>2. seqs[k] \in Seq(ToSet(seqs[k]))
    BY DEF IsSequence
  <2> HIDE DEF S
  <2> QED
    BY <2>1, <2>2
<1>2. \A x \in S : \E k \in 1..n : x \in ToSet(seqs[k])
  OBVIOUS
<1> HIDE DEF S
<1>3. seqs \in [1..n -> Seq(S)]
  BY <1>1 DEF Lists
<1>4. PICK s : s = FlattenSeq(seqs)
  OBVIOUS
<1>5. s \in Seq(S)
  BY <1>3, <1>4, FlattenedFrom
<1>6. Lists(s, Len(s)) /\ Len(s) \in Nat
  BY <1>5 DEF Lists
<1>7. ToSet(s) \subseteq S
  BY <1>5 DEF ToSet
<1> QED
  BY <1>2, <1>4, <1>6, <1>7, SequencesAreLists

IsStep(a) ==
  /\ a.kind # "detect_anomaly"
  /\ a.kind = "rank_root_causes" <=> a.writes = ERank

AreSteps(s) == IsSequence(s) /\ \A x \in ToSet(s) : IsStep(x)

LEMMA ShortSteps ==
  /\ AreSteps(<<>>)
  /\ \A x : IsStep(x) => AreSteps(<<x>>)
  /\ \A x, y : IsStep(x) /\ IsStep(y) => AreSteps(<<x, y>>)
  /\ \A x, y, z, t : IsStep(x) /\ IsStep(y) /\ IsStep(z) /\ IsStep(t) =>
       AreSteps(<<x, y, z, t>>)
<1>1. /\ ToSet(<<>>) = {}
      /\ \A x : ToSet(<<x>>) = {x}
      /\ \A x, y : ToSet(<<x, y>>) = {x, y}
      /\ \A x, y, z, t : ToSet(<<x, y, z, t>>) = {x, y, z, t}
  BY DEF ToSet
<1>2. /\ IsSequence(<<>>)
      /\ \A x : IsSequence(<<x>>)
      /\ \A x, y : IsSequence(<<x, y>>)
      /\ \A x, y, z, t : IsSequence(<<x, y, z, t>>)
  BY ShortLists, SequencesAreLists
<1> QED
  BY <1>1, <1>2 DEF AreSteps

LEMMA StepsJoined ==
  ASSUME NEW s, NEW t, AreSteps(s), AreSteps(t)
  PROVE  AreSteps(Cat(s, t))
BY SequencesJoined DEF AreSteps

(* No alias but that of a rank is E_rank.                                  *)
LEMMA ContinuedAlias ==
  ASSUME NEW s, Lists(s, 2), s[1] # "E" \/ s[2] # "rank",
         NEW n \in Nat, NEW t, Lists(t, n)
  PROVE  Cat(s, t) # ERank
<1>1. Cat(s, t)[1] = s[1] /\ Cat(s, t)[2] = s[2]
  BY Joined
<1>2. ERank[1] = "E" /\ ERank[2] = "rank"
  BY DEF ERank
<1> QED
  BY <1>1, <1>2

LEMMA PlainAliases ==
  /\ \A d : E2Alias(d) # ERank
  /\ \A d : <<"E", "select", d>> # ERank
  /\ \A d : E3AliasForDimension(d) # ERank
  /\ \A d : <<"E4", d>> # ERank
  /\ E4 # ERank /\ <<"E3">> # ERank /\ E1 # ERank
BY DEF E2Alias, E3AliasForDimension, ERank, E4, E1

LEMMA SuffixesAreLists ==
  ASSUME NEW x
  PROVE  /\ \E n \in Nat : Lists(SignalTokens(x), n)
         /\ \E n \in Nat : Lists(LaneSuffix(x), n)
         /\ \E n \in Nat : Lists(SelectionSuffix(x), n)
<1>1. Lists(SignalTokens(x), 1) \/ Lists(SignalTokens(x), 2)
  BY DEF SignalTokens, Lists
<1>2. LaneSuffix(x) = <<"int">> \/ LaneSuffix(x) = SignalTokens(x)
  BY DEF LaneSuffix
<1>3. \/ SelectionSuffix(x) = <<"conv">> \/ SelectionSuffix(x) = <<"int">>
      \/ SelectionSuffix(x) = SignalTokens(x)
  BY DEF SelectionSuffix
<1>4. \A y : Lists(<<y>>, 1)
  BY ShortLists
<1> QED
  BY <1>1, <1>2, <1>3, <1>4

LEMMA LaneAliasesAreNoRank ==
  ASSUME NEW lane, NEW known, NEW a, a = LaneAliases(lane, known)
  PROVE  a.selection # ERank /\ a.signal # ERank /\ a.contribution # ERank
<1>1. PICK d, x : d = lane.dim /\ x = lane.disc
  OBVIOUS
<1>2. PICK e : e = LaneEvidenceAliases(d, x)
  OBVIOUS
<1>3. /\ a.selection = e.selection /\ a.contribution = e.contribution
      /\ a.signal \in {e.signal, E3AliasForSignalLane(d, lane.signal, known)}
  BY <1>1, <1>2 DEF LaneAliases, LaneEvidenceAliases
<1>4. PICK select, e3, e4 : select = <<"E", "select">> /\ e3 = E3AliasForDimension(d)
                            /\ e4 = <<"E4", d>>
  OBVIOUS
<1>5. /\ Lists(select, 2) /\ select[2] = "select"
      /\ Lists(e3, 2) /\ e3[1] = "E3"
      /\ Lists(e4, 2) /\ e4[1] = "E4"
  BY <1>4 DEF Lists, E3AliasForDimension
<1>6. ASSUME NEW n \in Nat, NEW t, Lists(t, n)
      PROVE  Cat(select, t) # ERank /\ Cat(e3, t) # ERank /\ Cat(e4, t) # ERank
  BY <1>5, <1>6, ContinuedAlias
<1>7. E3AliasForSignalLane(d, lane.signal, known) # ERank
  <2>1. PICK t : t = IF known THEN SignalTokens(lane.signal) ELSE <<>>
    OBVIOUS
  <2>2. \E n \in Nat : Lists(t, n)
    BY <2>1, SuffixesAreLists, ShortLists
  <2>3. E3AliasForSignalLane(d, lane.signal, known) = Cat(e3, t)
    BY <1>4, <2>1 DEF E3AliasForSignalLane, Cat
  <2> QED
    BY <1>6, <2>2, <2>3
<1>8. CASE x = NoDiscriminator
  <2>1. /\ e.selection = <<"E", "select", d>> /\ e.signal = e3 /\ e.contribution = e4
    BY <1>2, <1>4, <1>8 DEF LaneEvidenceAliases
  <2> QED
    BY <1>3, <1>4, <1>7, <2>1, PlainAliases
<1>9. CASE x # NoDiscriminator
  <2>1. PICK t : t = IF d = "channel" /\ x = "campaign" THEN <<"ch", "campaign">>
                     ELSE <<d>> \o SelectionSuffix(x)
    OBVIOUS
  <2>2. \E n \in Nat : Lists(t, n)
    <3>1. PICK n \in Nat : Lists(SelectionSuffix(x), n)
      BY SuffixesAreLists
    <3>2. PICK u : u = <<d>> /\ Lists(u, 1)
      BY ShortLists
    <3>3. Lists(Cat(u, SelectionSuffix(x)), 1 + n)
      BY <3>1, <3>2, Joined
    <3>4. t = Cat(u, SelectionSuffix(x)) \/ t = <<"ch", "campaign">>
      BY <2>1, <3>2 DEF Cat
    <3>5. 1 + n \in Nat
      OBVIOUS
    <3> QED
      BY <3>3, <3>4, <3>5, ShortLists
  <2>3. /\ e.selection = Cat(select, t)
        /\ e.signal = Cat(e3, LaneSuffix(x)) /\ e.contribution = Cat(e4, LaneSuffix(x))
    BY <1>2, <1>4, <1>9, <2>1 DEF LaneEvidenceAliases, Cat
  <2> QED
    BY <1>3, <1>6, <1>7, <2>2, <2>3, SuffixesAreLists
<1> QED
  BY <1>8, <1>9

(* The actions of a chain.                                                 *)
LEMMA ChainActionsAreSteps ==
  ASSUME NEW i, NEW lane, NEW element, NEW requires, NEW filters, NEW alias, alias # ERank
  PROVE  /\ IsStep(SelectAction(i, lane, alias, filters))
         /\ IsStep(FetchAction(i, lane, element, requires, alias, filters))
         /\ IsStep(ContributionAction(i, lane, element, requires, alias, filters))
         /\ \A d : IsStep(DrilldownAction(i, d, filters))
BY PlainAliases DEF SelectAction, FetchAction, ContributionAction, DrilldownAction, Action, IsStep

LEMMA EndActionsAreSteps ==
  ASSUME NEW i, NEW requires
  PROVE  /\ IsStep(RankAction(i, requires))
         /\ IsStep(Action("merge_contribution_sets", i.metric, i.date, requires, E4))
BY PlainAliases DEF RankAction, Action, IsStep

LEMMA LaneIsSteps ==
  ASSUME NEW i, NEW lane, NEW element, NEW filters, NEW scope
  PROVE  AreSteps(LaneActions(i, lane, element, filters, scope))
<1>1. PICK l : l = LaneActions(i, lane, element, filters, scope)
  OBVIOUS
<1> DEFINE aliases == LaneAliases(lane, element # NoValue)
           signalFilters == IF lane.filterMode = "none" THEN NoFilters ELSE filters
           selection == IF element = NoValue THEN <<aliases.selection>> ELSE <<>>
           base == <<E1, E2Alias(lane.dim)>> \o selection
           policy == IF scope = NoFilters THEN "strict" ELSE lane.policy
           select == SelectAction(i, lane, aliases.selection, signalFilters)
           fetch == FetchAction(i, lane, element, base, aliases.signal, signalFilters)
           contribute == ContributionAction(i, lane, element, Append(base, aliases.signal),
                                            aliases.contribution, filters)
<1>2. PICK s : s = IF element = NoValue THEN <<select>> ELSE <<>>
  OBVIOUS
<1>3. PICK t : t = <<fetch, contribute>>
  OBVIOUS
<1>4. l = [k \in DOMAIN Cat(s, t) |-> [Cat(s, t)[k] EXCEPT !.policy = policy]]
  BY <1>1, <1>2, <1>3 DEF LaneActions, Cat
<1>5. IsStep(select) /\ IsStep(fetch) /\ IsStep(contribute)
  <2>1. /\ aliases.selection # ERank /\ aliases.signal # ERank
        /\ aliases.contribution # ERank
    BY LaneAliasesAreNoRank
  <2> HIDE DEF aliases, signalFilters, base
  <2> QED
    BY <2>1, ChainActionsAreSteps
<1>6. /\ DOMAIN select = DOMAIN fetch /\ DOMAIN contribute = DOMAIN fetch
      /\ {"kind", "writes", "policy"} \subseteq DOMAIN fetch
  BY DEF SelectAction, FetchAction, ContributionAction, Action
<1> HIDE DEF select, fetch, contribute, policy
<1>7. AreSteps(s) /\ AreSteps(t)
  BY <1>2, <1>3, <1>5, ShortSteps
<1>8. AreSteps(Cat(s, t)) /\ ToSet(Cat(s, t)) = ToSet(s) \cup ToSet(t)
  BY <1>7, StepsJoined, SequencesJoined DEF AreSteps
<1>9. ToSet(s) \cup ToSet(t) \subseteq {select, fetch, contribute}
  BY <1>2, <1>3 DEF ToSet
<1>10. PICK n \in Nat : DOMAIN Cat(s, t) = 1..n
  BY <1>8, SequencesAreLists DEF AreSteps
<1>11. IsSequence(l)
  <2>1. Lists(l, n)
    BY <1>4, <1>10 DEF Lists
  <2> QED
    BY <2>1, SequencesAreLists
<1>12. ASSUME NEW k \in DOMAIN l PROVE IsStep(l[k])
  <2>1. PICK a : a = Cat(s, t)[k] /\ k \in DOMAIN Cat(s, t)
    BY <1>4
  <2>2. a \in ToSet(Cat(s, t))
    BY <2>1 DEF ToSet
  <2>3. IsStep(a) /\ {"kind", "writes", "policy"} \subseteq DOMAIN a
    BY <1>6, <1>8, <1>9, <2>2 DEF AreSteps
  <2>4. l[k] = [a EXCEPT !.policy = policy]
    BY <1>4, <2>1
  <2>5. l[k].kind = a.kind /\ l[k].writes = a.writes
    BY <2>3, <2>4
  <2> QED
    BY <2>3, <2>5 DEF IsStep
<1> QED
  BY <1>1, <1>11, <1>12 DEF AreSteps, ToSet

LEMMA FlattenedSteps ==
  ASSUME NEW n \in Nat, NEW seqs, Lists(seqs, n), \A k \in 1..n : AreSteps(seqs[k])
  PROVE  AreSteps(FlattenSeq(seqs))
BY FlattenedIsSequence DEF AreSteps

LEMMA ChainsAreSteps ==
  ASSUME NEW i, NEW lanes, IsSequence(lanes), NEW elements, NEW filters, NEW scope
  PROVE  AreSteps(LaneChains(i, lanes, elements, filters, scope))
<1>1. PICK n \in Nat : DOMAIN lanes = 1..n
  BY SequencesAreLists
<1>2. PICK seqs : seqs = [k \in 1..n |->
        LaneActions(i, lanes[k], LaneElement(lanes[k], elements, scope), filters[lanes[k].dim], scope)]
  OBVIOUS
<1>3. Lists(seqs, n) /\ \A k \in 1..n : AreSteps(seqs[k])
  BY <1>2, LaneIsSteps DEF Lists
<1>4. AreSteps(FlattenSeq(seqs))
  BY <1>3, FlattenedSteps
<1> QED
  BY <1>1, <1>2, <1>4 DEF LaneChains

LEMMA LanesAreSequence ==
  ASSUME NEW metric, NEW policy, IsSequence(policy.lanes), IsSequence(policy.drilldowns)
  PROVE  IsSequence(LanesOf(metric, policy))
<1> DEFINE signal(d) == IF policy.firstSignal = "interaction" THEN "interaction"
                        ELSE DefaultSignal(metric, d)
           other(d) == IF d = policy.firstDim THEN <<>> ELSE <<Lane(d, signal(d))>>
<1>1. PICK n \in Nat : DOMAIN policy.drilldowns = 1..n
  BY SequencesAreLists
<1>2. PICK seqs : seqs = [k \in DOMAIN policy.drilldowns |-> other(policy.drilldowns[k])]
  OBVIOUS
<1>3. \A d : IsSequence(other(d))
  BY ShortLists, SequencesAreLists
<1>4. PICK one : one = <<Lane(policy.firstDim, policy.firstSignal)>>
  OBVIOUS
<1>5. policy.lanes = <<>> => LanesOf(metric, policy) = Cat(one, FlattenSeq(seqs))
  BY <1>2, <1>4 DEF LanesOf, Cat
<1> HIDE DEF other
<1>6. Lists(seqs, n) /\ \A k \in 1..n : IsSequence(seqs[k])
  BY <1>1, <1>2, <1>3 DEF Lists
<1>7. IsSequence(FlattenSeq(seqs))
  BY <1>6, FlattenedIsSequence
<1>8. IsSequence(one)
  BY <1>4, ShortLists, SequencesAreLists
<1>9. IsSequence(Cat(one, FlattenSeq(seqs)))
  BY <1>7, <1>8, SequencesJoined
<1> QED
  BY <1>5, <1>9 DEF LanesOf

LEMMA DrilldownsAreSteps ==
  ASSUME NEW i, NEW policy, IsSequence(policy.drilldowns), NEW filters
  PROVE  AreSteps(Drilldowns(i, policy, filters))
<1>1. PICK n \in Nat : DOMAIN policy.drilldowns = 1..n
  BY SequencesAreLists
<1>2. PICK s : s = Drilldowns(i, policy, filters)
  OBVIOUS
<1>3. Lists(s, n)
  BY <1>1, <1>2 DEF Drilldowns, Lists
<1>4. \A k \in DOMAIN s : \E d, f : s[k] = DrilldownAction(i, d, f)
  BY <1>2 DEF Drilldowns
<1>5. \A d, f : IsStep(DrilldownAction(i, d, f))
  BY PlainAliases DEF DrilldownAction, Action, IsStep
<1>6. \A x \in ToSet(s) : IsStep(x)
  BY <1>4, <1>5 DEF ToSet
<1> QED
  BY <1>2, <1>3, <1>6, SequencesAreLists DEF AreSteps

LEMMA MergedSteps ==
  ASSUME NEW i, NEW policy, IsSequence(policy.drilldowns), NEW filters,
         NEW chains, AreSteps(chains)
  PROVE  AreSteps(Drilldowns(i, policy, filters) \o WithMergeAndRank(i, policy, chains))
<1>1. PICK drilled : drilled = Drilldowns(i, policy, filters)
  OBVIOUS
<1>2. PICK end : end = MergeAndRank(i, policy, chains)
  OBVIOUS
<1>3. \E r, q : end = <<Action("merge_contribution_sets", i.metric, i.date, r, E4),
                        RankAction(i, q)>>
  BY <1>2 DEF MergeAndRank
<1>4. AreSteps(drilled) /\ AreSteps(end)
  BY <1>1, <1>3, DrilldownsAreSteps, EndActionsAreSteps, ShortSteps
<1>5. AreSteps(Cat(drilled, Cat(chains, end)))
  BY <1>4, StepsJoined
<1> QED
  BY <1>1, <1>2, <1>5 DEF Cat, WithMergeAndRank

-------------------------------------------------------------------------------
(* The plan is about what the intent names.                                *)

IsAbout(a, d, v) ==
  \/ a.dim = d /\ a.element = v
  \/ d \in DOMAIN a.filters /\ a.filters[d] = v

AgreesWithItself(i) ==
  i.dim \in DOMAIN i.filters /\ i.element # NoValue => i.filters[i.dim] = i.element

(* Only one policy is made for an explicit scope, and it is that of a      *)
(* channel.                                                                *)
LEMMA ExplicitPolicy ==
  ASSUME NEW m, NEW f, NEW s, NEW p, p = DiscoveryPolicy(m, f, s),
         p.scopeMode = "explicit_multi_driver"
  PROVE  /\ p.scopeDims = {"channel"} /\ p.drilldowns = <<"channel", "category">>
         /\ p.lanes = NetGmvLanes
<1>1. \A drilldowns, dim, signal, lanes : Policy(drilldowns, dim, signal, lanes).scopeMode = "unscoped"
  BY DEF Policy
<1>2. PICK n : n = [Policy(<<"channel", "category">>, "channel", "campaign", NetGmvLanes)
                      EXCEPT !.scopeMode = "explicit_multi_driver", !.scopeDims = {"channel"}]
  OBVIOUS
<1>3. p = n \/ p.scopeMode = "unscoped"
  BY <1>1, <1>2 DEF DiscoveryPolicy, NoPolicy
<1>4. /\ n.scopeDims = {"channel"} /\ n.drilldowns = <<"channel", "category">>
      /\ n.lanes = NetGmvLanes
  BY <1>2 DEF Policy
<1> QED
  BY <1>3, <1>4

LEMMA PolicyOfScope ==
  ASSUME NEW i, NEW p, p = PolicyForIntent(i), ScopeDims(i) # {}
  PROVE  \/ p = NoPolicy
         \/ /\ ScopeDims(i) = {"channel"} /\ p.scopeMode = "explicit_multi_driver"
            /\ p.drilldowns = <<"channel", "category">> /\ p.lanes = NetGmvLanes
<1>1. PICK q : q = DiscoveryPolicy(i.metric, i.family, i.strategy)
  OBVIOUS
<1>2. CASE p # NoPolicy
  <2>1. p = q /\ q.scopeMode = "explicit_multi_driver" /\ ScopeDims(i) \subseteq q.scopeDims
    BY <1>1, <1>2 DEF PolicyForIntent
  <2>2. /\ q.scopeDims = {"channel"} /\ q.drilldowns = <<"channel", "category">>
        /\ q.lanes = NetGmvLanes
    BY <1>1, <2>1, ExplicitPolicy
  <2> QED
    BY <2>1, <2>2
<1> QED
  BY <1>2

(* The scope of the anomaly check has what is named, unless the pair names *)
(* another dimension than the filters.                                     *)
LEMMA NamedScope ==
  ASSUME NEW i, NEW d, NEW v, NamedIn(i, d, v), d # NoValue, v # NoValue,
         i.filters = [e \in DOMAIN i.filters |-> i.filters[e]], AgreesWithItself(i)
  PROVE  \/ d \in DOMAIN ExplicitScope(i) /\ ExplicitScope(i)[d] = v
         \/ /\ i.dim = d /\ i.element = v /\ d \notin DOMAIN i.filters
            /\ i.filters # NoFilters
<1>1. DOMAIN NoFilters = {}
  BY DEF NoFilters
<1>2. CASE d \in DOMAIN i.filters
  <2>1. i.filters # NoFilters
    BY <1>1, <1>2
  <2>2. i.filters[d] = v
    BY <1>2 DEF NamedIn, AgreesWithItself
  <2> QED
    BY <1>2, <2>1, <2>2 DEF ExplicitScope
<1>3. CASE d \notin DOMAIN i.filters
  <2>1. i.dim = d /\ i.element = v
    BY <1>3 DEF NamedIn
  <2>2. i.filters = NoFilters => ExplicitScope(i) = [e \in {d} |-> v]
    BY <2>1 DEF ExplicitScope
  <2> QED
    BY <1>3, <2>1, <2>2
<1> QED
  BY <1>2, <1>3

(* A plan that was made of an intent with a scope was not made broadly.    *)
LEMMA ScopedIsNotBroad ==
  ASSUME NEW i, NEW h, PolicyError(i, h) = NoError, ScopeDims(i) # {}
  PROVE  ScopeMode(i) # "unscoped"
<1> SUFFICES ASSUME ScopeMode(i) = "unscoped" PROVE FALSE
  OBVIOUS
<1>1. ScopedDim(i) = NoValue
  BY DEF ScopeMode
<1>2. ~(i.dim # NoValue /\ i.element # NoValue)
  BY <1>1 DEF ScopedDim
<1>3. ScopeDims(i) = DOMAIN i.filters
  BY <1>2 DEF ScopeDims
<1>4. DOMAIN i.filters # {"channel"}
  <2> SUFFICES ASSUME DOMAIN i.filters = {"channel"} PROVE FALSE
    OBVIOUS
  <2>1. ScopedDim(i) = CHOOSE d \in DOMAIN i.filters : TRUE
    BY <1>2 DEF ScopedDim
  <2>2. ScopedDim(i) = "channel"
    BY <2>1
  <2> QED
    BY <1>1, <2>2 DEF NoValue
<1>5. PolicyForIntent(i) = NoPolicy
  BY <1>3, <1>4, PolicyOfScope
<1>6. BroadPolicy(i, h).drilldowns = <<>>
  BY <1>5 DEF BroadPolicy, PolicyWithMemoryHints, NoPolicy, Policy
<1>7. BroadPolicyError(i, h) = "DISCOVERY_POLICY_MISSING"
  BY <1>6 DEF BroadPolicyError
<1> QED
  BY <1>7 DEF PolicyError, NoError

(* Every policy has a sequence of drilldowns, and one of lanes.            *)
HasSequences(p) == IsSequence(p.drilldowns) /\ IsSequence(p.lanes)

LEMMA PoliciesHaveSequences ==
  ASSUME NEW m, NEW f, NEW s
  PROVE  HasSequences(DiscoveryPolicy(m, f, s))
<1>1. /\ \A drilldowns, d, x, lanes : LET p == Policy(drilldowns, d, x, lanes)
                                      IN  p.drilldowns = drilldowns /\ p.lanes = lanes
      /\ \A drilldowns, d, x, lanes :
           LET p == [Policy(drilldowns, d, x, lanes)
                      EXCEPT !.scopeMode = "explicit_multi_driver", !.scopeDims = {"channel"}]
           IN  p.drilldowns = drilldowns /\ p.lanes = lanes
  BY DEF Policy
<1> HIDE DEF Policy
<1>2. /\ Lists(<<"channel">>, 1) /\ Lists(<<"product">>, 1)
      /\ Lists(<<"channel", "category">>, 2) /\ Lists(<<"channel", "device">>, 2)
      /\ Lists(GmvDrilldowns, 3) /\ Lists(<<>>, 0)
  BY DEF Lists, GmvDrilldowns
<1>3. /\ Lists(UvInteractionLanes, 3) /\ Lists(PayCvrLanes, 2)
      /\ Lists(NetGmvLanes, 3) /\ Lists(GmvStandardLanes, 6)
  BY DEF Lists, UvInteractionLanes, PayCvrLanes, NetGmvLanes, GmvStandardLanes
<1>4. /\ IsSequence(<<"channel">>) /\ IsSequence(<<"product">>)
      /\ IsSequence(<<"channel", "category">>) /\ IsSequence(<<"channel", "device">>)
      /\ IsSequence(GmvDrilldowns) /\ IsSequence(<<>>)
      /\ IsSequence(UvInteractionLanes) /\ IsSequence(PayCvrLanes)
      /\ IsSequence(NetGmvLanes) /\ IsSequence(GmvStandardLanes)
  BY <1>2, <1>3, SequencesAreLists
<1> QED
  BY <1>1, <1>4 DEF DiscoveryPolicy, NoPolicy, HasSequences

LEMMA CompilingPolicies ==
  ASSUME NEW i, NEW h
  PROVE  HasSequences(PolicyForIntent(i)) /\ HasSequences(BroadPolicy(i, h))
<1>1. IsSequence(<<>>)
  BY ShortLists, SequencesAreLists
<1>2. \A drilldowns, d, x, lanes : LET p == Policy(drilldowns, d, x, lanes)
                                   IN  p.drilldowns = drilldowns /\ p.lanes = lanes
  BY DEF Policy
<1>3. PICK p : p = PolicyForIntent(i)
  OBVIOUS
<1>4. HasSequences(p)
  <2>1. HasSequences(NoPolicy)
    BY <1>1, <1>2 DEF NoPolicy, HasSequences
  <2>2. p = NoPolicy \/ p = DiscoveryPolicy(i.metric, i.family, i.strategy)
    BY <1>3 DEF PolicyForIntent
  <2> QED
    BY <2>1, <2>2, PoliciesHaveSequences
<1>5. \/ BroadPolicy(i, h) = p
      \/ \E d, x : BroadPolicy(i, h) = Policy(p.drilldowns, d, x, <<>>)
  BY <1>3 DEF BroadPolicy, PolicyWithMemoryHints
<1>6. HasSequences(BroadPolicy(i, h))
  BY <1>1, <1>2, <1>4, <1>5 DEF HasSequences
<1> QED
  BY <1>3, <1>4, <1>6

(* The actions after the anomaly check.                                    *)
Rest(i, h) ==
  CASE ScopeMode(i) = "explicit_single"       -> ExplicitActions(i)
    [] ScopeMode(i) = "explicit_multi_driver" -> DiscoveryActions(i, PolicyForIntent(i))
    [] ScopeMode(i) = "scoped_interaction"    -> ScopedInteractionActions(i)
    [] OTHER                                  -> BroadActions(i, BroadPolicy(i, h))

(* A signal alias that the tool completes with the element.                *)
LEMMA CompletedFetchIsStep ==
  ASSUME NEW i, NEW lane, NEW element, NEW requires, NEW filters, NEW d, NEW x
  PROVE  IsStep([FetchAction(i, lane, element, requires, <<"E3">>, filters)
                   EXCEPT !.writes = E3AliasForDimension(d) \o <<x>>])
<1>1. PICK s, t : s = E3AliasForDimension(d) /\ t = <<x>>
  OBVIOUS
<1>2. Lists(s, 2) /\ s[1] = "E3" /\ Lists(t, 1)
  BY <1>1 DEF E3AliasForDimension, Lists
<1>3. Cat(s, t) # ERank
  BY <1>2, ContinuedAlias
<1> QED
  BY <1>1, <1>3 DEF Cat, FetchAction, Action, IsStep

LEMMA ExplicitIsSteps ==
  ASSUME NEW i
  PROVE  AreSteps(ExplicitActions(i))
<1>1. \E d, f, lane, e, r, s, t, x :
        ExplicitActions(i) =
          <<DrilldownAction(i, d, f),
            [FetchAction(i, lane, e, r, <<"E3">>, f)
               EXCEPT !.writes = E3AliasForDimension(d) \o <<x>>],
            ContributionAction(i, lane, e, s, E4, f),
            RankAction(i, t)>>
  BY DEF ExplicitActions
<1> QED
  BY <1>1, PlainAliases, ChainActionsAreSteps, EndActionsAreSteps, CompletedFetchIsStep,
     ShortSteps

LEMMA SingleChainIsSteps ==
  ASSUME NEW i, NEW p, HasSequences(p), Len(p.drilldowns) <= 1
  PROVE  AreSteps(BroadActions(i, p))
<1>1. PICK unfiltered : unfiltered = [d \in ToSet(p.drilldowns) |-> NoFilters]
  OBVIOUS
<1>2. PICK lane : lane = Lane(p.firstDim, p.firstSignal)
  OBVIOUS
<1>3. PICK selection : selection = <<"E", "select", lane.dim>>
  OBVIOUS
<1>4. PICK base : base = <<E1, E2Alias(lane.dim), selection>>
  OBVIOUS
<1>5. PICK chain :
        chain = <<SelectAction(i, lane, selection, NoFilters),
                  [FetchAction(i, lane, NoValue, base, <<"E3">>, NoFilters)
                     EXCEPT !.writes = E3AliasForDimension(lane.dim) \o <<Picked>>],
                  ContributionAction(i, lane, NoValue, Append(base, <<"E3">>), E4, NoFilters),
                  RankAction(i, base \o <<<<"E3">>, E4>>)>>
  OBVIOUS
<1>6. ~(Len(p.drilldowns) > 1)
  BY SequencesAreLists DEF HasSequences
<1>7. BroadActions(i, p) = Cat(Drilldowns(i, p, unfiltered), chain)
  BY <1>1, <1>2, <1>3, <1>4, <1>5, <1>6 DEF BroadActions, Cat
<1>8. selection # ERank
  BY <1>3, PlainAliases
<1>9. AreSteps(chain)
  BY <1>5, <1>8, PlainAliases, ChainActionsAreSteps, EndActionsAreSteps,
     CompletedFetchIsStep, ShortSteps
<1>10. AreSteps(Drilldowns(i, p, unfiltered))
  BY DrilldownsAreSteps DEF HasSequences
<1> QED
  BY <1>7, <1>9, <1>10, StepsJoined

LEMMA LanesAreSteps ==
  ASSUME NEW i, NEW p, HasSequences(p), NEW elements, NEW filters, NEW scope
  PROVE  AreSteps(Drilldowns(i, p, filters) \o
           WithMergeAndRank(i, p, LaneChains(i, LanesOf(i.metric, p), elements, filters, scope)))
<1>1. IsSequence(LanesOf(i.metric, p))
  BY LanesAreSequence DEF HasSequences
<1>2. AreSteps(LaneChains(i, LanesOf(i.metric, p), elements, filters, scope))
  BY <1>1, ChainsAreSteps
<1> QED
  BY <1>2, MergedSteps DEF HasSequences

LEMMA RestIsSteps ==
  ASSUME NEW i, NEW h
  PROVE  AreSteps(Rest(i, h))
<1>1. CASE ScopeMode(i) = "explicit_single"
  BY <1>1, ExplicitIsSteps DEF Rest
<1>2. CASE ScopeMode(i) = "explicit_multi_driver"
  <2>1. PICK p : p = PolicyForIntent(i)
    OBVIOUS
  <2>2. \E filters, scope :
          DiscoveryActions(i, p) =
            Drilldowns(i, p, filters) \o
              WithMergeAndRank(i, p, LaneChains(i, LanesOf(i.metric, p), NoFilters, filters, scope))
    BY DEF DiscoveryActions
  <2>3. AreSteps(DiscoveryActions(i, p))
    BY <2>1, <2>2, CompilingPolicies, LanesAreSteps
  <2> QED
    BY <1>2, <2>1, <2>3 DEF Rest
<1>3. CASE ScopeMode(i) = "scoped_interaction"
  <2>1. PICK p : p = Policy(<<"channel", "category">>, "channel", "interaction", <<>>)
    OBVIOUS
  <2>2. HasSequences(p)
    BY <2>1, ShortLists, SequencesAreLists DEF Policy, HasSequences
  <2>3. \E filters, elements :
          ScopedInteractionActions(i) =
            Drilldowns(i, p, filters) \o
              WithMergeAndRank(i, p, LaneChains(i, LanesOf(i.metric, p), elements, filters, NoFilters))
    BY <2>1 DEF ScopedInteractionActions
  <2>4. AreSteps(ScopedInteractionActions(i))
    BY <2>2, <2>3, LanesAreSteps
  <2> QED
    BY <1>3, <2>4 DEF Rest
<1>4. CASE ScopeMode(i) \notin {"explicit_single", "explicit_multi_driver", "scoped_interaction"}
  <2>1. PICK p : p = BroadPolicy(i, h)
    OBVIOUS
  <2>2. HasSequences(p)
    BY <2>1, CompilingPolicies
  <2>3. CASE Len(p.drilldowns) > 1
    <3>1. \E filters :
            BroadActions(i, p) =
              Drilldowns(i, p, filters) \o
                WithMergeAndRank(i, p, LaneChains(i, LanesOf(i.metric, p), NoFilters, filters, NoFilters))
      BY <2>3 DEF BroadActions
    <3> QED
      BY <1>4, <2>1, <2>2, <3>1, LanesAreSteps DEF Rest
  <2>4. CASE ~(Len(p.drilldowns) > 1)
    <3>1. Len(p.drilldowns) <= 1
      BY <2>2, <2>4, SequencesAreLists DEF HasSequences
    <3> QED
      BY <1>4, <2>1, <2>2, <3>1, SingleChainIsSteps DEF Rest
  <2> QED
    BY <2>3, <2>4
<1> QED
  BY <1>1, <1>2, <1>3, <1>4

(* A compiled plan begins with the anomaly check.                          *)
LEMMA ActionsOfPlan ==
  ASSUME NEW i, NEW h
  PROVE  \E detect, rest :
           /\ detect = [Action("detect_anomaly", i.metric, i.date, <<>>, E1)
                          EXCEPT !.filters = ExplicitScope(i)]
           /\ rest = Rest(i, h) /\ AreSteps(rest)
           /\ CompiledActions(i, h) = Cat(<<detect>>, rest)
           /\ IsSequence(<<detect>>)
<1>1. PICK detect : detect = [Action("detect_anomaly", i.metric, i.date, <<>>, E1)
                                EXCEPT !.filters = ExplicitScope(i)]
  OBVIOUS
<1>2. PICK rest : rest = Rest(i, h)
  OBVIOUS
<1>3. CompiledActions(i, h) = Cat(<<detect>>, rest)
  BY <1>1, <1>2 DEF CompiledActions, Rest, Cat
<1>4. IsSequence(<<detect>>)
  BY ShortLists, SequencesAreLists
<1> QED
  BY <1>1, <1>2, <1>3, <1>4, RestIsSteps

LEMMA PlanIsAboutScope ==
  ASSUME NEW i, NEW h, PolicyError(i, h) = NoError, NEW d, NEW v, NamedIn(i, d, v),
         d # NoValue, v # NoValue,
         i.filters = [e \in DOMAIN i.filters |-> i.filters[e]], AgreesWithItself(i)
  PROVE  \E a \in ToSet(CompiledActions(i, h)) : IsAbout(a, d, v)
<1>1. PICK detect, rest :
        /\ detect = [Action("detect_anomaly", i.metric, i.date, <<>>, E1)
                       EXCEPT !.filters = ExplicitScope(i)]
        /\ rest = Rest(i, h) /\ AreSteps(rest)
        /\ CompiledActions(i, h) = Cat(<<detect>>, rest)
        /\ IsSequence(<<detect>>)
  BY ActionsOfPlan
<1>2. PICK one : one = <<detect>>
  OBVIOUS
<1>3. rest = Rest(i, h)
  BY <1>1
<1>4. CompiledActions(i, h) = Cat(one, rest)
  BY <1>1, <1>2
<1>5. d \in ScopeDims(i)
  BY DEF NamedIn, ScopeDims
<1>6. IsSequence(one) /\ IsSequence(rest)
  BY <1>1, <1>2 DEF AreSteps
<1>7. ToSet(Cat(one, rest)) = ToSet(one) \cup ToSet(rest)
  BY <1>6, SequencesJoined
<1>8. CASE d \in DOMAIN ExplicitScope(i) /\ ExplicitScope(i)[d] = v
  <2>1. detect.filters = ExplicitScope(i)
    BY <1>1 DEF Action
  <2>2. detect \in ToSet(one)
    BY <1>2 DEF ToSet
  <2> QED
    BY <1>4, <1>7, <1>8, <2>1, <2>2 DEF IsAbout
<1>9. CASE /\ i.dim = d /\ i.element = v /\ d \notin DOMAIN i.filters
           /\ i.filters # NoFilters
  <2>1. ScopedDim(i) = d /\ ScopedElement(i) = v
    BY <1>9 DEF ScopedDim, ScopedElement
  <2>2. DOMAIN i.filters # {}
    <3> SUFFICES ASSUME DOMAIN i.filters = {} PROVE i.filters = NoFilters
      BY <1>9
    <3> QED
      BY DEF NoFilters
  <2>3. ~(ScopeDims(i) = {"channel"})
    BY <1>5, <1>9, <2>2 DEF ScopeDims
  <2>4. PolicyForIntent(i).scopeMode # "explicit_multi_driver"
    BY <1>5, <2>3, PolicyOfScope DEF NoPolicy, Policy
  <2>5. rest = ExplicitActions(i)
    BY <1>3, <2>1, <2>4 DEF Rest, ScopeMode
  <2>6. PICK fetch : fetch = [FetchAction(i, Lane(d, DefaultSignal(i.metric, d)), v,
                                          <<E1, E2Alias(d)>>, <<"E3">>, ExplicitScope(i))
                                EXCEPT !.writes = E3AliasForDimension(d) \o <<v>>]
    OBVIOUS
  <2>7. fetch.dim = d /\ fetch.element = v
    BY <2>6 DEF FetchAction, Action, Lane
  <2>8. \E x, y, z : rest = <<x, fetch, y, z>>
    BY <2>1, <2>5, <2>6 DEF ExplicitActions
  <2>9. fetch \in ToSet(rest)
    BY <2>8 DEF ToSet
  <2> QED
    BY <1>4, <1>7, <2>7, <2>9 DEF IsAbout
<1> QED
  BY <1>8, <1>9, NamedScope

(* A plan is that of its intent.                                           *)
LEMMA PlanOfIntent ==
  ASSUME NEW i, NEW h, NEW b, NEW c, c = Compile(i, h, b), c.error = NoError
  PROVE  /\ PolicyError(i, h) = NoError
         /\ c.plan.metric = i.metric /\ c.plan.date = i.date
         /\ c.plan.actions = CompiledActions(i, h)
         /\ c.plan.budget = PlanBudget(c.plan.actions, b)
<1>1. \A error : NotPlanned(error).error = error
  BY DEF NotPlanned
<1>2. PolicyError(i, h) = NoError
  BY <1>1 DEF Compile
<1>3. PICK actions : actions = CompiledActions(i, h)
  OBVIOUS
<1>4. c = Planned(i, actions, b)
  BY <1>2, <1>3 DEF Compile
<1>5. PlanIsValid(actions)
  BY <1>1, <1>4 DEF Planned, NoError
<1>6. c.plan = [metric |-> i.metric, date |-> i.date, scope |-> ExplicitScope(i),
                mode |-> ScopeMode(i), actions |-> actions, budget |-> PlanBudget(actions, b)]
  BY <1>4, <1>5 DEF Planned
<1> QED
  BY <1>2, <1>3, <1>6

-------------------------------------------------------------------------------
(* Every plan of the compiler is one that the executor is proved about.    *)

(* The estimates of the queries of the first k actions, for every k.      *)
Estimates(actions) ==
  LET sum[k \in 0..Len(actions)] ==
        IF k = 0 THEN 0 ELSE sum[k - 1] + EstimatedQueryCost(actions[k])
  IN  sum

(* They are the sums of the costs, and the whole plan costs the last one.  *)
LEMMA EstimatesAreSums ==
  ASSUME NEW actions, IsSequence(actions)
  PROVE  LET n == Len(actions)
             estimates == Estimates(actions)
         IN  /\ estimates[0] = 0
             /\ \A k \in 0..n : estimates[k] \in Nat
             /\ \A k \in 1..n : estimates[k] = estimates[k - 1] + EstimatedQueryCost(actions[k])
             /\ EstimatedQueryBudget(actions) = estimates[n] + 2
<1> DEFINE n == Len(actions)
           Step(sum, k) == IF k = 0 THEN 0 ELSE sum[k - 1] + EstimatedQueryCost(actions[k])
<1>1. n \in Nat
  BY SequencesAreLists
<1>2. \A a : EstimatedQueryCost(a) \in Nat
  BY DEF EstimatedQueryCost
<1>3. \A m \in Nat : \E sum : sum = [k \in 0..m |-> Step(sum, k)] /\ sum \in [0..m -> Nat]
  <2> DEFINE X == {m \in Nat : \E sum : /\ sum = [k \in 0..m |-> Step(sum, k)]
                                        /\ sum \in [0..m -> Nat]}
  <2>1. 0 \in X
    <3>1. PICK sum : sum = [k \in 0..0 |-> 0]
      OBVIOUS
    <3>2. sum = [k \in 0..0 |-> Step(sum, k)] /\ sum \in [0..0 -> Nat]
      BY <3>1
    <3> QED
      BY <3>2
  <2>2. ASSUME NEW m \in Nat, m \in X PROVE m + 1 \in X
    <3>1. PICK sum : sum = [k \in 0..m |-> Step(sum, k)] /\ sum \in [0..m -> Nat]
      BY <2>2
    <3>2. PICK c : c = EstimatedQueryCost(actions[m + 1]) /\ c \in Nat
      BY <1>2
    <3>3. PICK g : g = [k \in 0..(m + 1) |-> IF k <= m THEN sum[k] ELSE sum[m] + c]
      OBVIOUS
    <3>4. g \in [0..(m + 1) -> Nat]
      BY <3>1, <3>2, <3>3
    <3>5. ASSUME NEW k \in 0..(m + 1) PROVE g[k] = Step(g, k)
      <4>1. CASE k = 0
        BY <3>1, <3>3, <4>1
      <4>2. CASE k # 0 /\ k <= m
        <5>1. k - 1 \in 0..m /\ k \in 0..m
          BY <4>2
        <5>2. g[k] = sum[k] /\ g[k - 1] = sum[k - 1]
          BY <3>3, <4>2, <5>1
        <5>3. sum[k] = Step(sum, k)
          BY <3>1, <5>1
        <5> QED
          BY <4>2, <5>2, <5>3
      <4>3. CASE k = m + 1
        <5>1. g[k] = sum[m] + c /\ g[m] = sum[m] /\ k # 0 /\ k - 1 = m
          BY <3>3, <4>3
        <5> QED
          BY <3>2, <4>3, <5>1
      <4> QED
        BY <4>1, <4>2, <4>3
    <3>6. g = [k \in 0..(m + 1) |-> Step(g, k)]
      BY <3>3, <3>5
    <3> HIDE DEF Step
    <3> QED
      BY <3>4, <3>6
  <2> HIDE DEF X
  <2>3. Nat \subseteq X
    BY <2>1, <2>2, InductionOverNat
  <2> QED
    BY <2>3 DEF X
<1>4. PICK sum : sum = [k \in 0..n |-> Step(sum, k)] /\ sum \in [0..n -> Nat]
  BY <1>1, <1>3
<1>5. PICK chosen : chosen = CHOOSE s : s = [k \in 0..n |-> Step(s, k)]
  OBVIOUS
<1>6. chosen = [k \in 0..n |-> Step(chosen, k)]
  BY <1>4, <1>5
<1>7. \A k \in Nat : k <= n => chosen[k] \in Nat
  <2> DEFINE X == {k \in Nat : k <= n => chosen[k] \in Nat}
  <2>1. 0 \in X
    BY <1>1, <1>6
  <2>2. ASSUME NEW k \in Nat, k \in X PROVE k + 1 \in X
    <3>1. CASE k + 1 <= n
      <4>1. k + 1 \in 0..n /\ k + 1 # 0 /\ (k + 1) - 1 = k /\ chosen[k] \in Nat
        BY <1>1, <2>2, <3>1
      <4>2. chosen[k + 1] = chosen[k] + EstimatedQueryCost(actions[k + 1])
        BY <1>6, <4>1
      <4> QED
        BY <1>2, <4>1, <4>2
    <3>2. CASE ~(k + 1 <= n)
      BY <3>2
    <3> QED
      BY <3>1, <3>2
  <2> HIDE DEF X
  <2>3. Nat \subseteq X
    BY <2>1, <2>2, InductionOverNat
  <2> QED
    BY <2>3 DEF X
<1>8. chosen = Estimates(actions) /\ EstimatedQueryBudget(actions) = chosen[n] + 2
  BY <1>5 DEF EstimatedQueryBudget, Estimates
<1>9. chosen[0] = 0 /\ \A k \in 0..n : chosen[k] \in Nat
  BY <1>1, <1>6, <1>7
<1>10. \A k \in 1..n : chosen[k] = chosen[k - 1] + EstimatedQueryCost(actions[k])
  BY <1>1, <1>6
<1> HIDE DEF Step
<1> QED
  BY <1>8, <1>9, <1>10

(* No part of a plan is estimated to cost more than the whole.             *)
LEMMA EstimatesGrow ==
  ASSUME NEW actions, IsSequence(actions)
  PROVE  \A k \in 0..Len(actions) : Estimates(actions)[k] <= Estimates(actions)[Len(actions)]
<1>1. PICK n, estimates : n = Len(actions) /\ estimates = Estimates(actions)
  OBVIOUS
<1>2. n \in Nat
  BY <1>1, SequencesAreLists
<1>3. \A k \in 0..n : estimates[k] \in Nat
  BY <1>1, EstimatesAreSums
<1>4. \A k \in 1..n : estimates[k - 1] <= estimates[k]
  <2> SUFFICES ASSUME NEW k \in 1..n PROVE estimates[k - 1] <= estimates[k]
    OBVIOUS
  <2>1. estimates[k] = estimates[k - 1] + EstimatedQueryCost(actions[k])
    BY <1>1, EstimatesAreSums
  <2>2. EstimatedQueryCost(actions[k]) \in Nat
    BY DEF EstimatedQueryCost
  <2>3. k - 1 \in 0..n
    BY <1>2
  <2> QED
    BY <1>3, <2>1, <2>2, <2>3
<1> DEFINE X == {d \in Nat : d <= n => estimates[n - d] <= estimates[n]}
<1>5. 0 \in X
  BY <1>2, <1>3
<1>6. ASSUME NEW d \in Nat, d \in X PROVE d + 1 \in X
  <2>1. CASE d + 1 <= n
    <3>1. n - d \in 1..n /\ (n - d) - 1 = n - (d + 1) /\ n - (d + 1) \in 0..n /\ n - d \in 0..n /\ n \in 0..n
      BY <1>2, <2>1
    <3>2. estimates[n - (d + 1)] <= estimates[n - d]
      BY <1>4, <3>1
    <3>3. estimates[n - d] <= estimates[n]
      BY <1>2, <1>6, <2>1
    <3>4. estimates[n - (d + 1)] <= estimates[n]
      BY <1>3, <3>1, <3>2, <3>3
    <3> QED
      BY <3>4
  <2>2. CASE ~(d + 1 <= n)
    BY <2>2
  <2> QED
    BY <2>1, <2>2
<1> HIDE DEF X
<1>7. Nat \subseteq X
  BY <1>5, <1>6, InductionOverNat
<1>8. ASSUME NEW k \in 0..n PROVE estimates[k] <= estimates[n]
  <2>1. n - k \in Nat /\ n - k <= n /\ n - (n - k) = k
    BY <1>2
  <2>2. n - k \in X
    BY <1>7, <2>1
  <2> QED
    BY <2>1, <2>2 DEF X
<1> QED
  BY <1>1, <1>8

(* The budget of a plan is made of numbers, and a plan that merges lanes   *)
(* has raised it to what its actions may need.                             *)
LEMMA BudgetIsEnough ==
  ASSUME NEW p, IsSequence(p.actions),
         NEW budget \in [steps : Nat, queries : Nat, depth : Nat],
         p.budget = PlanBudget(p.actions, budget)
  PROVE  p.budget \in [steps : Nat, queries : Nat, depth : Nat] /\ AffordsItsActions(p)
<1>1. PICK actions : actions = p.actions
  OBVIOUS
<1>2. Len(actions) \in Nat /\ DOMAIN actions = 1..Len(actions)
  BY <1>1, SequencesAreLists
<1>3. PICK drilled : drilled = {i \in DOMAIN actions : actions[i].kind = "drilldown_dimension"}
  OBVIOUS
<1>4. Cardinality(drilled) \in Nat
  <2>1. IsFiniteSet(1..Len(actions))
    BY <1>2, FS_Interval
  <2>2. IsFiniteSet(drilled)
    BY <1>2, <1>3, <2>1, FS_Subset
  <2> QED
    BY <2>2, FS_CardinalityType
<1>5. \A a, b \in Nat : Larger(a, b) \in Nat /\ b <= Larger(a, b)
  BY DEF Larger
<1>6. EstimatedQueryBudget(actions) \in Nat
  <2>1. Estimates(actions)[Len(actions)] \in Nat
    BY <1>1, <1>2, EstimatesAreSums
  <2> QED
    BY <1>1, <2>1, EstimatesAreSums
<1>7. CASE \E i \in DOMAIN actions : actions[i].kind = "merge_contribution_sets"
  <2>1. p.budget = [steps   |-> Larger(budget.steps, Len(actions)),
                    queries |-> Larger(budget.queries, EstimatedQueryBudget(actions)),
                    depth   |-> Larger(budget.depth, Cardinality(drilled))]
    BY <1>1, <1>3, <1>7 DEF PlanBudget
  <2>2. budget.steps \in Nat /\ budget.queries \in Nat /\ budget.depth \in Nat
    OBVIOUS
  <2>3. /\ p.budget.steps \in Nat /\ Len(actions) <= p.budget.steps
        /\ p.budget.queries \in Nat /\ EstimatedQueryBudget(actions) <= p.budget.queries
        /\ p.budget.depth \in Nat /\ Cardinality(drilled) <= p.budget.depth
    BY <1>2, <1>4, <1>5, <1>6, <2>1, <2>2
  <2>4. AffordsItsActions(p)
    BY <1>1, <1>3, <2>3 DEF AffordsItsActions
  <2> QED
    BY <2>1, <2>3, <2>4
<1>8. CASE ~\E i \in DOMAIN actions : actions[i].kind = "merge_contribution_sets"
  BY <1>1, <1>8 DEF PlanBudget, AffordsItsActions
<1> QED
  BY <1>7, <1>8

(* The executor is proved correct for plans that are typed, have a shape   *)
(* and afford what they do (PlansAssumption, ShapeAssumption,              *)
(* BudgetAssumption): whatever is asked, whatever memory holds and         *)
(* whatever the settings allow, the compiler makes no other plans.         *)
THEOREM CompiledPlansFit ==
  ASSUME NEW cases,
         \A c \in cases : c.budget \in [steps : Nat, queries : Nat, depth : Nat]
  PROVE  \A p \in PlansOf(cases) : IsTyped(p) /\ HasShape(p) /\ AffordsItsActions(p)
<1> SUFFICES ASSUME NEW p \in PlansOf(cases)
             PROVE  IsTyped(p) /\ HasShape(p) /\ AffordsItsActions(p)
  OBVIOUS
<1>1. PICK c \in cases : /\ Compile(c.intent, c.hints, c.budget).error = NoError
                        /\ p = Compile(c.intent, c.hints, c.budget).plan
  BY DEF PlansOf
<1>2. PICK i, h, b : i = c.intent /\ h = c.hints /\ b = c.budget
  OBVIOUS
<1>3. p.actions = CompiledActions(i, h) /\ p.budget = PlanBudget(p.actions, b)
  BY <1>1, <1>2, PlanOfIntent
<1>4. PICK detect, rest :
        /\ detect = [Action("detect_anomaly", i.metric, i.date, <<>>, E1)
                       EXCEPT !.filters = ExplicitScope(i)]
        /\ rest = Rest(i, h) /\ AreSteps(rest)
        /\ CompiledActions(i, h) = Cat(<<detect>>, rest)
        /\ IsSequence(<<detect>>)
  BY ActionsOfPlan
<1>5. IsSequence(p.actions)
  BY <1>3, <1>4, SequencesJoined DEF AreSteps
<1>6. IsTyped(p) /\ AffordsItsActions(p)
  <2>1. p.budget \in [steps : Nat, queries : Nat, depth : Nat] /\ AffordsItsActions(p)
    BY <1>2, <1>3, <1>5, BudgetIsEnough
  <2> QED
    BY <1>5, <2>1 DEF IsTyped, IsSequence
<1>7. ASSUME NEW k \in DOMAIN p.actions
      PROVE  /\ p.actions[k].kind = "detect_anomaly" => k = 1
             /\ p.actions[k].kind = "rank_root_causes" <=> p.actions[k].writes = ERank
  <2> DEFINE one == <<detect>>
  <2>1. Lists(one, 1) /\ one[1] = detect
    BY ShortLists
  <2> HIDE DEF one
  <2>2. PICK n \in Nat : DOMAIN rest = 1..n /\ Lists(rest, n)
    BY <1>4, SequencesAreLists DEF AreSteps
  <2>3. /\ Lists(p.actions, 1 + n) /\ \A j \in 1..1 : p.actions[j] = one[j]
        /\ \A j \in 1..n : p.actions[1 + j] = rest[j]
    <3>1. p.actions = Cat(one, rest)
      BY <1>3, <1>4 DEF one
    <3> QED
      BY <2>1, <2>2, <3>1, Joined
  <2>4. k \in 1..(1 + n)
    BY <2>3 DEF Lists
  <2>5. CASE k = 1
    <3>1. p.actions[k] = detect
      BY <2>1, <2>3, <2>5
    <3>2. detect.kind = "detect_anomaly" /\ detect.writes = E1
      BY <1>4 DEF Action
    <3> QED
      BY <2>5, <3>1, <3>2, PlainAliases
  <2>6. CASE k # 1
    <3>1. k - 1 \in 1..n /\ 1 + (k - 1) = k
      BY <2>4, <2>6
    <3>2. p.actions[k] = rest[k - 1] /\ rest[k - 1] \in ToSet(rest)
      BY <2>2, <2>3, <3>1 DEF ToSet
    <3> QED
      BY <1>4, <3>2 DEF AreSteps, IsStep
  <2> QED
    BY <2>5, <2>6
<1> QED
  BY <1>6, <1>7 DEF HasShape

-------------------------------------------------------------------------------
(* The intent is one that the service let through, once; and a plan is     *)
(* that of the intent.                                                     *)
IsServed(i, q) ==
  \E a \in Answers(q) :
    /\ a.code = NoError /\ i = ServedIntent(q, IntentOf(a))
    /\ ServiceError(q, IntentOf(a)) = NoError

AskingInv ==
  /\ question \in Questions
  /\ intent # NoIntent => attempt = 0 /\ IsServed(intent, question)
  /\ compiled.error = NoError =>
       /\ attempt = 0 /\ IsServed(intent, question)
       /\ \E h : compiled = Compile(intent, h, Budget)

LEMMA AskingInvInit == CompilationInit => AskingInv
BY DEF CompilationInit, AskingInv, Pending, NoError

LEMMA AskingInvNext == AskingInv /\ [CompilationNext]_cvars => AskingInv'
<1> SUFFICES ASSUME AskingInv, [CompilationNext]_cvars PROVE AskingInv'
  OBVIOUS
<1>1. \A error : NotPlanned(error).error = error
  BY DEF NotPlanned
<1>2. ASSUME NEW code, code # NoError, attempt > 0 \/ attempt = 1, Refuse(code) PROVE AskingInv'
  <2>1. compiled'.error # NoError
    BY <1>1, <1>2 DEF Refuse
  <2> QED
    BY <1>2, <2>1 DEF Refuse, AskingInv, IsServed
<1>3. CASE RefuseBlank
  BY <1>2, <1>3 DEF RefuseBlank, NoError
<1>4. ASSUME NEW a \in Answers(question), AskAgain(a) PROVE AskingInv'
  <2>1. attempt > 0
    BY <1>4 DEF AskAgain, IsAnswered
  <2>2. attempt # 0
    BY <2>1
  <2> QED
    BY <1>4, <2>2 DEF AskAgain, AskingInv, IsServed
<1>5. ASSUME NEW a \in Answers(question), AnswerIsFinal(a) PROVE AskingInv'
  <2>1. FinalCode(a.code) # NoError
    BY <1>5 DEF AnswerIsFinal, FinalCode, NoError
  <2> QED
    BY <1>2, <1>5, <2>1 DEF AnswerIsFinal, IsAnswered
<1>6. ASSUME NEW a \in Answers(question), ServiceRefuses(a) PROVE AskingInv'
  BY <1>2, <1>6 DEF ServiceRefuses, IsAnswered
<1>7. ASSUME NEW a \in Answers(question), Parse(a) PROVE AskingInv'
  <2>1. attempt > 0
    BY <1>7 DEF Parse, IsAnswered
  <2>2. compiled.error # NoError
    BY <2>1 DEF AskingInv
  <2>3. IsServed(intent', question)
    BY <1>7 DEF Parse, IsServed
  <2> QED
    BY <1>7, <2>2, <2>3 DEF Parse, AskingInv, IsServed
<1>8. CASE ReadPriors
  BY <1>8 DEF ReadPriors, IsParsed, AskingInv, IsServed
<1>9. CASE CompilePlan
  BY <1>9 DEF CompilePlan, IsParsed, AskingInv, IsServed
<1>10. CASE UNCHANGED cvars
  BY <1>10 DEF cvars, AskingInv, IsServed
<1> QED
  BY <1>3, <1>4, <1>5, <1>6, <1>7, <1>8, <1>9, <1>10 DEF CompilationNext

LEMMA AskedIsPlanned == AskingInv => NothingAskedIsIgnored
<1> SUFFICES ASSUME AskingInv, Compiled, ~ContradictsItself
             PROVE  /\ question.metric \in {NoValue, compiled.plan.metric}
                    /\ compiled.plan.date \in PastDays
                    /\ BindsRunDay(question) => compiled.plan.date = RunDay
                    /\ \A d \in DOMAIN question.scope :
                         \E a \in ToSet(compiled.plan.actions) : IsAbout(a, d, question.scope[d])
  BY DEF NothingAskedIsIgnored, IsAbout
<1>1. PICK i, h : i = intent /\ compiled = Compile(i, h, Budget)
  BY DEF AskingInv, Compiled
<1>2. /\ PolicyError(i, h) = NoError
      /\ compiled.plan.metric = i.metric /\ compiled.plan.date = i.date
      /\ compiled.plan.actions = CompiledActions(i, h)
  BY <1>1, PlanOfIntent DEF Compiled
<1>3. PICK a \in Answers(question) :
        /\ a.code = NoError /\ i = ServedIntent(question, IntentOf(a))
        /\ ServiceError(question, IntentOf(a)) = NoError
  BY <1>1 DEF AskingInv, Compiled, IsServed
<1>4. question \in Questions
  BY DEF AskingInv
<1>5. \A d \in DOMAIN question.scope : d \in SupportedDimensions /\ question.scope[d] # NoValue
  BY <1>4, NamedAssumption
<1>6. /\ i.date \in PastDays /\ question.metric \in {NoValue, i.metric}
      /\ \A d \in DOMAIN question.scope : NamedIn(i, d, question.scope[d])
  BY <1>3, <1>5, AcceptedQuestion
<1>7. IsIntent(a.intent)
  BY <1>3, <1>4, AnswersAssumption DEF IsIntent
<1>8. BindsRunDay(question) => i.date = RunDay
  BY <1>3, <1>7, ServedDay
<1>9. i.filters = [e \in DOMAIN i.filters |-> i.filters[e]]
  BY <1>3, <1>7, ServedFilters
<1>10. AgreesWithItself(i)
  BY <1>1 DEF ContradictsItself, AgreesWithItself
<1>11. \A d \in SupportedDimensions : d # NoValue
  BY DEF SupportedDimensions, SortedDimensions, ToSet, NoValue
<1>12. ASSUME NEW d \in DOMAIN question.scope
       PROVE  \E b \in ToSet(CompiledActions(i, h)) : IsAbout(b, d, question.scope[d])
  BY <1>2, <1>5, <1>6, <1>9, <1>10, <1>11, PlanIsAboutScope
<1> QED
  BY <1>2, <1>6, <1>8, <1>12

(* Whatever is asked, whatever the model answers on whichever attempt and  *)
(* whatever memory holds: a plan is for the metric and the day that were   *)
(* named, and some action is about each value that was named.              *)
THEOREM WhatIsAskedIsPlanned == CompilationSpec => []NothingAskedIsIgnored
<1>1. AskingInv => NothingAskedIsIgnored
  BY AskedIsPlanned
<1>2. CompilationSpec => []AskingInv
  BY AskingInvInit, AskingInvNext, PTL DEF CompilationSpec
<1> QED
  BY <1>1, <1>2, PTL

-------------------------------------------------------------------------------
(* Why a plan of a coherent intent never misfires.                         *)

DrilledUpTo(n) == {i \in 1..n : plan.actions[i].kind = "drilldown_dimension"}

(* A tool that goes on to write its row has run what it declares and found *)
(* what such a tool can find; one that fails says which problem of the     *)
(* data or the database it met.                                            *)
Counted ==
  /\ pc \in {"rerank", "persist"} => result.declared = issued /\ result.content \in Contents
  /\ pc = "after" /\ result.ok => result.declared = audit - before /\ result.content \in Contents
  /\ pc = "after" /\ ~result.ok => result.code \in DataErrors \/ plan \notin CoherentPlans

(* Every row is about the dimension of the action that wrote it and says   *)
(* something; that there is no anomaly, only at the end of a run.          *)
Described ==
  \A j \in DOMAIN plan.actions :
    LET row == evidence[plan.actions[j].writes]
    IN  plan.actions[j].writes \in DOMAIN evidence =>
          /\ row.dim = plan.actions[j].dim
          /\ row.content # NoValue
          /\ row.content = "no_anomaly" =>
               pc = "done" \/ (pc = "after" /\ (result.ok => SaysNoAnomaly))

(* A plan that merges lanes has used no more than its actions so far were  *)
(* estimated to need.                                                      *)
Affordable ==
  MergesLanes /\ pc # "done" =>
    /\ ctx.query <= Estimates(plan.actions)[pos - 1]
    /\ ctx.depth <= Cardinality(DrilledUpTo(pos - 1))

Unfailing ==
  /\ pc # "done" => outcome.error = NoErrorCode
  /\ CompiledPlansNeverMisfire

Soundness == Counted /\ Described /\ Affordable /\ Unfailing

(* What the assumption on coherent plans says of the current action.       *)
Earlier == {plan.actions[j] : j \in 1..(pos - 1)}

LEMMA EarlierRows ==
  ASSUME Inv, Progress, Ranking, Described, pos <= Len(plan.actions), pc \notin {"after", "done"}
  PROVE  /\ DOMAIN evidence = {b.writes : b \in Earlier} /\ graph \subseteq DOMAIN evidence
         /\ pc # "load" => graph = DOMAIN evidence
         /\ action.writes \notin DOMAIN evidence
         /\ \A b \in Earlier : evidence[b.writes].dim = b.dim
         /\ \A a \in DOMAIN evidence :
              evidence[a].content # NoValue /\ evidence[a].content # "no_anomaly"
<1>1. /\ plan \in Plans /\ pos \in DOMAIN plan.actions
      /\ DOMAIN plan.actions = 1..Len(plan.actions) /\ Len(plan.actions) \in Nat /\ pos \in Nat
  BY PlanFacts DEF Inv, TypeOK
<1>2. /\ DOMAIN evidence = {b.writes : b \in Earlier} /\ graph \subseteq DOMAIN evidence
      /\ pc # "load" => graph = DOMAIN evidence
  BY DEF Progress, Made, Earlier
<1>3. \A j \in 1..(pos - 1) : j \in DOMAIN plan.actions /\ j # pos
  BY <1>1
<1>4. action.writes \notin DOMAIN evidence
  <2>1. \A j \in DOMAIN plan.actions : plan.actions[j].writes = action.writes => j = pos
    BY <1>1, LanesAssumption DEF AreLanesApart, action
  <2> QED
    BY <1>2, <1>3, <2>1 DEF Earlier
<1>5. ASSUME NEW b \in Earlier
      PROVE  /\ evidence[b.writes].dim = b.dim
             /\ evidence[b.writes].content # NoValue
             /\ evidence[b.writes].content # "no_anomaly"
  <2>1. PICK j \in DOMAIN plan.actions : b = plan.actions[j]
    BY <1>3 DEF Earlier
  <2>2. b.writes \in DOMAIN evidence
    BY <1>2
  <2> QED
    BY <2>1, <2>2 DEF Described
<1> QED
  BY <1>2, <1>4, <1>5

LEMMA RunnableAction ==
  ASSUME Inv, plan \in CoherentPlans, pos <= Len(plan.actions)
  PROVE  LET handed == {b \in Earlier : \E r \in ToSet(action.requires) : IsPrefix(r, b.writes)}
         IN  /\ action.metric = plan.metric /\ action.date = plan.date
             /\ \A r \in ToSet(action.requires) : \E b \in Earlier : IsPrefix(r, b.writes)
             /\ \A r \in Insists(action) : \E b \in handed : IsPrefix(r, b.writes)
             /\ action.kind = "merge_contribution_sets" =>
                  ToSet(action.requires) \subseteq {b.writes : b \in Earlier}
             /\ action.kind = "rank_root_causes" => \E b \in Earlier : b.writes = E4
             /\ action.dynamic => \E b \in Earlier :
                  /\ b.writes \in ToSet(action.requires) /\ IsPrefix(<<"E", "select">>, b.writes)
                  /\ b.dim = action.dim
             /\ action.kind = "fetch_related_signal" =>
                  SignalAccepted(action.metric, action.dim, action.signal)
             /\ action.kind \in {"fetch_related_signal", "calculate_contribution"} =>
                  FilterOf(action, action.dim)
                    \in {NoValue} \cup (IF action.dynamic THEN {} ELSE {action.element})
             /\ InExplicitScope(plan, action) /\ DimensionsAllowed(action) /\ Renderable(action)
<1>1. pos \in DOMAIN plan.actions
  BY PlanFacts DEF Inv, TypeOK
<1> QED
  BY <1>1, RunnableAssumption DEF IsRunnable, Earlier, action

(* The element that an action leaves open has been selected.               *)
LEMMA ElementIsKnown ==
  ASSUME Inv, Progress, Ranking, Described, plan \in CoherentPlans, pc = "tool", action.dynamic
  PROVE  Element # NoValue
<1>1. pos <= Len(plan.actions)
  BY DEF Inv, TypeOK
<1>2. PICK b \in Earlier :
        /\ b.writes \in ToSet(action.requires) /\ IsPrefix(<<"E", "select">>, b.writes)
        /\ b.dim = action.dim
  BY <1>1, RunnableAction
<1>3. b.writes \in SelectionRows
  BY <1>1, <1>2, EarlierRows DEF SelectionRows
<1>4. PICK a : a = CHOOSE x \in SelectionRows : TRUE
  OBVIOUS
<1>5. a \in DOMAIN evidence
  BY <1>3, <1>4 DEF SelectionRows
<1>6. Element = evidence[a].content
  BY <1>3, <1>4 DEF Element
<1> QED
  BY <1>1, <1>5, <1>6, EarlierRows

LEMMA InputsAreComplete ==
  ASSUME Inv, Progress, Ranking, Described, plan \in CoherentPlans, pc = "tool"
  PROVE  InputsComplete
<1>1. pos <= Len(plan.actions)
  BY DEF Inv, TypeOK
<1>2. DOMAIN evidence = {b.writes : b \in Earlier} /\ graph = DOMAIN evidence
  BY <1>1, EarlierRows
<1>3. Inputs \subseteq DOMAIN evidence
  <2>1. CASE action.kind = "merge_contribution_sets"
    BY <1>1, <1>2, <2>1, RunnableAction DEF Inputs
  <2>2. CASE action.kind = "rank_root_causes"
    BY <1>1, <1>2, <2>2, RunnableAction DEF Inputs
  <2>3. CASE action.kind \notin {"merge_contribution_sets", "rank_root_causes"}
    BY <1>2, <2>3 DEF Inputs
  <2> QED
    BY <2>1, <2>2, <2>3
<1>4. ASSUME NEW r \in Insists(action) PROVE \E a \in Inputs : AliasMatches(a, r)
  <2>1. PICK b \in Earlier : /\ \E q \in ToSet(action.requires) : IsPrefix(q, b.writes)
                             /\ IsPrefix(r, b.writes)
    BY <1>1, <1>4, RunnableAction
  <2>2. action.kind \notin {"detect_anomaly", "merge_contribution_sets", "rank_root_causes"}
    BY <1>4 DEF Insists
  <2>3. b.writes \in Inputs
    BY <1>2, <2>1, <2>2 DEF Inputs, AliasMatches
  <2> QED
    BY <2>1, <2>3 DEF AliasMatches
<1> QED
  BY <1>3, <1>4 DEF InputsComplete

(* So the tool of an action of such a plan refuses nothing ...             *)
LEMMA NothingIsRefused ==
  ASSUME Inv, Progress, Ranking, Described, plan \in CoherentPlans, pc = "tool"
  PROVE  ToolRefusal = NoErrorCode /\ Renderable(action)
<1>1. pos <= Len(plan.actions)
  BY DEF Inv, TypeOK
<1>2. ~(action.dynamic /\ Element = NoValue)
  BY ElementIsKnown
<1>3. InputsComplete
  BY InputsAreComplete
<1>4. action.kind = "fetch_related_signal" =>
        SignalAccepted(action.metric, action.dim, action.signal)
  BY <1>1, RunnableAction
<1>5. action.kind \in {"fetch_related_signal", "calculate_contribution"} =>
        FilterOf(action, action.dim) \in {NoValue, Element}
  BY <1>1, RunnableAction DEF Element
<1>6. DimensionsAllowed(action) /\ Renderable(action)
  BY <1>1, RunnableAction
<1>7. action.writes \notin DOMAIN evidence
  BY <1>1, EarlierRows
<1> QED
  BY <1>2, <1>3, <1>4, <1>5, <1>6, <1>7 DEF ToolRefusal

(* ... and the gate has nothing against it but the budget.                 *)
LEMMA OnlyTheBudgetDenies ==
  ASSUME Inv, Progress, Ranking, Described, plan \in CoherentPlans,
         pc = "gate", pos <= Len(plan.actions)
  PROVE  Verdict = IF WithinBudget(plan.budget, ctx, action) THEN Allowed ELSE "BUDGET_EXCEEDED"
<1>1. /\ action.metric = plan.metric /\ action.date = plan.date
      /\ InExplicitScope(plan, action)
      /\ \A r \in ToSet(action.requires) : \E b \in Earlier : IsPrefix(r, b.writes)
  BY RunnableAction
<1>2. DOMAIN evidence = {b.writes : b \in Earlier} /\ graph = DOMAIN evidence
  BY EarlierRows
<1>3. HasAliases(graph, action.requires)
  BY <1>1, <1>2 DEF HasAliases, AliasMatches
<1>4. Finding # "no_anomaly"
  BY EarlierRows DEF Finding, NoValue
<1> QED
  BY <1>1, <1>3, <1>4 DEF Verdict, GateVerdict

(* A plan that merges lanes has what every action of it may need.          *)
LEMMA BudgetLasts ==
  ASSUME Inv, Affordable, MergesLanes, pc # "done", pos <= Len(plan.actions)
  PROVE  /\ WithinBudget(plan.budget, ctx, action)
         /\ ctx.query + SqlCost(action) <= Estimates(plan.actions)[pos]
         /\ Estimates(plan.actions)[pos] < plan.budget.queries
         /\ Cardinality(DrilledUpTo(pos)) =
              IF action.kind = "drilldown_dimension"
              THEN Cardinality(DrilledUpTo(pos - 1)) + 1 ELSE Cardinality(DrilledUpTo(pos - 1))
<1>1. /\ plan \in Plans /\ pos \in 1..Len(plan.actions) /\ Len(plan.actions) \in Nat
      /\ DOMAIN plan.actions = 1..Len(plan.actions)
      /\ plan.budget.steps \in Nat /\ plan.budget.queries \in Nat /\ plan.budget.depth \in Nat
      /\ ctx.step = pos - 1 /\ ctx.query \in Nat /\ ctx.depth \in Nat
  BY PlanFacts DEF Inv, TypeOK, InFlight
<1>2. IsSequence(plan.actions)
  BY <1>1, PlansAssumption DEF IsTyped, IsSequence
<1>3. PICK n, e : n = Len(plan.actions) /\ e = Estimates(plan.actions)
  OBVIOUS
<1>4. /\ n <= plan.budget.steps
      /\ EstimatedQueryBudget(plan.actions) <= plan.budget.queries
      /\ Cardinality(DrilledUpTo(n)) <= plan.budget.depth
  BY <1>1, <1>3, BudgetAssumption DEF AffordsItsActions, MergesLanes, DrilledUpTo
<1>5. EstimatedQueryCost(action) = SqlCost(action) /\ SqlCost(action) \in Nat
  BY DEF EstimatedQueryCost, SqlCost, DataKinds
<1>6. /\ pos \in 1..n /\ pos \in 0..n /\ pos - 1 \in 0..n /\ n \in 0..n
      /\ \A k \in 0..n : e[k] \in Nat
  <2>1. \A k \in 0..n : e[k] \in Nat
    BY <1>2, <1>3, EstimatesAreSums
  <2>2. n \in Nat /\ pos \in 1..n
    BY <1>1, <1>3
  <2> QED
    BY <2>1, <2>2
<1>7. e[pos] = e[pos - 1] + SqlCost(action)
  BY <1>1, <1>2, <1>3, <1>5, EstimatesAreSums DEF action
<1>8. e[pos] <= e[n] /\ e[n] + 2 <= plan.budget.queries
  BY <1>2, <1>3, <1>4, <1>6, EstimatesAreSums, EstimatesGrow
<1>9. ctx.query <= e[pos - 1] /\ ctx.depth <= Cardinality(DrilledUpTo(pos - 1))
  BY <1>3 DEF Affordable
<1>10. /\ ctx.query + SqlCost(action) <= e[pos] /\ e[pos] < plan.budget.queries
       /\ SqlCost(action) > 0 => ctx.query < plan.budget.queries
  <2>1. PICK c, w, x, y, z, q : c = SqlCost(action) /\ w = ctx.query /\ x = e[pos - 1] /\ y = e[pos]
                               /\ z = e[n] /\ q = plan.budget.queries
    OBVIOUS
  <2>2. c \in Nat /\ w \in Nat /\ x \in Nat /\ y \in Nat /\ z \in Nat /\ q \in Nat
    BY <1>1, <1>5, <1>6, <2>1
  <2>3. w <= x /\ y = x + c /\ y <= z /\ z + 2 <= q
    BY <1>7, <1>8, <1>9, <2>1
  <2>4. w + c <= y /\ y < q /\ (c > 0 => w < q)
    BY <2>2, <2>3
  <2> QED
    BY <2>1, <2>4
<1>11. action.kind \in DataKinds => SqlCost(action) > 0
  BY DEF SqlCost
<1>12. \A k \in 0..n : IsFiniteSet(DrilledUpTo(k)) /\ Cardinality(DrilledUpTo(k)) \in Nat
  <2> SUFFICES ASSUME NEW k \in 0..n
               PROVE  IsFiniteSet(DrilledUpTo(k)) /\ Cardinality(DrilledUpTo(k)) \in Nat
    OBVIOUS
  <2>1. k \in Int /\ IsFiniteSet(1..k)
    BY <1>1, <1>3, FS_Interval
  <2>2. DrilledUpTo(k) \subseteq 1..k
    BY DEF DrilledUpTo
  <2>3. IsFiniteSet(DrilledUpTo(k))
    BY <2>1, <2>2, FS_Subset
  <2> QED
    BY <2>3, FS_CardinalityType
<1>13. Cardinality(DrilledUpTo(pos)) =
         IF action.kind = "drilldown_dimension"
         THEN Cardinality(DrilledUpTo(pos - 1)) + 1 ELSE Cardinality(DrilledUpTo(pos - 1))
  <2>1. /\ pos \notin DrilledUpTo(pos - 1)
        /\ DrilledUpTo(pos) = IF action.kind = "drilldown_dimension"
                             THEN DrilledUpTo(pos - 1) \cup {pos} ELSE DrilledUpTo(pos - 1)
    BY <1>1 DEF DrilledUpTo, action
  <2>2. IsFiniteSet(DrilledUpTo(pos - 1))
    BY <1>6, <1>12
  <2>3. Cardinality(DrilledUpTo(pos - 1) \cup {pos}) = Cardinality(DrilledUpTo(pos - 1)) + 1
    BY <2>1, <2>2, FS_AddElement
  <2> QED
    BY <2>1, <2>3
<1>14. Cardinality(DrilledUpTo(pos)) <= Cardinality(DrilledUpTo(n))
  <2>1. DrilledUpTo(pos) \subseteq DrilledUpTo(n)
    BY <1>1, <1>3 DEF DrilledUpTo
  <2>2. IsFiniteSet(DrilledUpTo(n))
    BY <1>6, <1>12
  <2> QED
    BY <2>1, <2>2, FS_Subset
<1>15. action.kind = "drilldown_dimension" => ctx.depth < plan.budget.depth
  <2>1. /\ Cardinality(DrilledUpTo(pos)) \in Nat /\ Cardinality(DrilledUpTo(pos - 1)) \in Nat
        /\ Cardinality(DrilledUpTo(n)) \in Nat
    BY <1>6, <1>12
  <2> QED
    BY <1>1, <1>4, <1>9, <1>13, <1>14, <2>1
<1>16. ctx.step < plan.budget.steps
  BY <1>1, <1>3, <1>4
<1> QED
  BY <1>3, <1>10, <1>11, <1>13, <1>15, <1>16 DEF WithinBudget

(* What a step of the executor does to the plan, the rows and the result.  *)
LEMMA CountedNext ==
  ASSUME Inv, Progress, Ranking, Counted, Described, [Next]_vars
  PROVE  Counted'
<1> USE DEF tables, frame
<1>1. ASSUME pc' \notin {"rerank", "persist", "after"} PROVE Counted'
  BY <1>1 DEF Counted
<1>2. ASSUME NEW code, NEW declared, ToolFails(code, declared), plan' = plan,
             code \in DataErrors \/ plan \notin CoherentPlans
      PROVE  Counted'
  BY <1>2 DEF ToolFails, Counted
<1>3. plan' = plan /\ pos' = pos => Contents' = Contents
  BY DEF Contents, action
<1>4. CASE \/ Load \/ Succeed \/ GateAllows \/ GateDenies \/ CountBefore \/ RenderRaises \/ QueryRuns
           \/ RerankFails \/ AccountUntraced \/ AccountFailed \/ AccountExhausted \/ AccountNoAnomaly
           \/ AccountAction \/ ReadRaises
  <2>1. pc' \notin {"rerank", "persist", "after"}
    BY <1>4 DEF Load, Succeed, GateAllows, GateDenies, CountBefore, RenderRaises, QueryRuns,
                RerankFails, AccountUntraced, AccountFailed, AccountExhausted, AccountNoAnomaly,
                AccountAction, ReadRaises, Raise, End
  <2> QED
    BY <1>1, <2>1
<1>5. CASE ToolBegins
  <2>1. pc = "tool" /\ plan' = plan
    BY <1>5 DEF ToolBegins
  <2>2. CASE ToolFails(ToolRefusal, 0) /\ ToolRefusal # NoErrorCode
    <3>1. plan \notin CoherentPlans
      BY <2>1, <2>2, NothingIsRefused
    <3> QED
      BY <1>2, <2>1, <2>2, <3>1
  <2>3. CASE ToolFails("SIGNAL_SELECTION_UNRESOLVED", 0)
    BY <1>2, <2>1, <2>3 DEF DataErrors
  <2>4. CASE pc' \in {"query", "judge"}
    BY <1>1, <2>4
  <2> QED
    BY <1>5, <2>2, <2>3, <2>4 DEF ToolBegins
<1>6. CASE QueryFails \/ AuditWriteFails \/ JudgeRejects
  <2>1. PICK code \in {"SQL_EXECUTION_FAILED", "SYSTEM_TABLE_WRITE_FAILED", "DATA_REJECTED"},
             declared \in {0, 2} : ToolFails(code, declared) /\ plan' = plan
    BY <1>6 DEF QueryFails, AuditWriteFails, JudgeRejects
  <2> QED
    BY <1>2, <2>1 DEF DataErrors
<1>7. CASE JudgeAccepts
  <2>1. CASE issued < SqlCost(action) /\ pc' = "query"
    BY <1>1, <2>1
  <2>2. CASE /\ \E content \in Contents :
                  result' = [ok |-> TRUE, code |-> NoErrorCode, declared |-> issued, content |-> content]
             /\ pc' \in {"rerank", "persist"}
    <3>1. plan' = plan /\ pos' = pos /\ issued' = issued
      BY <1>7 DEF JudgeAccepts
    <3>2. result'.declared = issued /\ result'.content \in Contents
      BY <2>2
    <3> QED
      BY <1>3, <2>2, <3>1, <3>2 DEF Counted
  <2> QED
    BY <1>7, <2>1, <2>2 DEF JudgeAccepts
<1>8. CASE RerankE4
  <2>1. pc = "rerank" /\ pc' = "persist" /\ UNCHANGED <<plan, pos, issued, result>>
    BY <1>8 DEF RerankE4
  <2> QED
    BY <1>3, <2>1 DEF Counted
<1>9. CASE Persist
  <2>1. pc = "persist" /\ pc' = "after" /\ UNCHANGED <<plan, pos, audit, before, result>>
    BY <1>9 DEF Persist
  <2>2. result.declared = issued /\ result.content \in Contents /\ result.ok = TRUE
    BY <2>1 DEF Counted, Progress
  <2>3. audit - before = issued
    BY <2>1 DEF Inv, TypeOK, LedgerIsAudit
  <2> QED
    BY <1>3, <2>1, <2>2, <2>3 DEF Counted
<1>10. CASE PersistFails
  <2>1. CASE Raise
    BY <1>1, <2>1 DEF Raise, End
  <2>2. CASE \E declared \in {0, 2} : ToolFails("SYSTEM_TABLE_WRITE_FAILED", declared)
    <3>1. plan' = plan
      BY <1>10 DEF PersistFails
    <3> QED
      BY <1>2, <2>2, <3>1 DEF DataErrors
  <2> QED
    BY <1>10, <2>1, <2>2 DEF PersistFails
<1>11. CASE UNCHANGED vars
  <2>1. UNCHANGED <<plan, pos, pc, issued, result, audit, before>>
    BY <1>11 DEF vars
  <2> QED
    BY <1>3, <2>1 DEF Counted
<1> QED
  BY <1>4, <1>5, <1>6, <1>7, <1>8, <1>9, <1>10, <1>11 DEF Next

(* The three ways in which a step treats the evidence.                     *)
LEMMA EvidenceSteps ==
  ASSUME [Next]_vars
  PROVE  /\ plan' = plan
         /\ \/ evidence' = evidence
            \/ /\ pc = "rerank" /\ pc' \in {"persist", "done"} /\ pos' = pos
               /\ evidence' = [evidence EXCEPT ![E4].content = "ranked"]
            \/ /\ pc = "persist" /\ pos' = pos /\ evidence' = WithRow(NewRow)
               /\ \/ pc' = "done"
                  \/ pc' = "after" /\ (result' = result \/ result'.ok = FALSE)
<1> USE DEF tables, frame
<1>1. CASE Load \/ Succeed \/ GateAllows \/ GateDenies \/ CountBefore \/ ToolBegins \/ RenderRaises
  BY <1>1 DEF Load, Succeed, GateAllows, GateDenies, CountBefore, ToolBegins, RenderRaises
<1>2. CASE QueryRuns \/ QueryFails \/ AuditWriteFails \/ JudgeAccepts \/ JudgeRejects \/ ReadRaises
  BY <1>2 DEF QueryRuns, QueryFails, AuditWriteFails, JudgeAccepts, JudgeRejects, ReadRaises
<1>3. CASE RerankE4 \/ RerankFails
  BY <1>3 DEF RerankE4, RerankFails, Raise, End
<1>4. CASE Persist
  BY <1>4 DEF Persist
<1>5. CASE PersistFails
  BY <1>5 DEF PersistFails, Raise, End, ToolFails
<1>6. CASE AccountUntraced \/ AccountFailed \/ AccountExhausted \/ AccountNoAnomaly \/ AccountAction
  BY <1>6 DEF AccountUntraced, AccountFailed, AccountExhausted, AccountNoAnomaly, AccountAction
<1>7. CASE UNCHANGED vars
  BY <1>7 DEF vars
<1> QED
  BY <1>1, <1>2, <1>3, <1>4, <1>5, <1>6, <1>7 DEF Next

(* When the evidence stays, a row that says that there is no anomaly does  *)
(* not outlive the accounting of the action that found it.                 *)
LEMMA NoAnomalyEnds ==
  ASSUME Inv, Progress, [Next]_vars, evidence' = evidence, plan' = plan,
         pc = "done" \/ (pc = "after" /\ (result.ok => SaysNoAnomaly))
  PROVE  pc' = "done" \/ (pc' = "after" /\ (result'.ok => SaysNoAnomaly'))
<1>1. CASE UNCHANGED vars
  <2>1. UNCHANGED <<plan, pos, pc, result>>
    BY <1>1 DEF vars
  <2> QED
    BY <2>1 DEF SaysNoAnomaly, action
<1>2. CASE Next
  <2>1. ~AccountAction
    <3>1. SUFFICES ASSUME AccountAction PROVE FALSE
      OBVIOUS
    <3>2. pc = "after" /\ Error = NoErrorCode /\ ~SaysNoAnomaly
      BY <3>1 DEF AccountAction
    <3>3. result.ok
      BY <3>2, ErrorOfResult
    <3> QED
      BY <3>2, <3>3
  <2>2. \/ AccountUntraced \/ AccountFailed \/ AccountExhausted \/ AccountNoAnomaly \/ ReadRaises
    <3>1. ~(Load \/ Succeed \/ GateAllows \/ GateDenies \/ CountBefore \/ ToolBegins \/ RenderRaises)
      BY DEF Load, Succeed, GateAllows, GateDenies, CountBefore, ToolBegins, RenderRaises
    <3>2. ~(QueryRuns \/ QueryFails \/ AuditWriteFails \/ JudgeAccepts \/ JudgeRejects)
      BY DEF QueryRuns, QueryFails, AuditWriteFails, JudgeAccepts, JudgeRejects
    <3>3. ~(RerankE4 \/ RerankFails \/ Persist \/ PersistFails)
      BY DEF RerankE4, RerankFails, Persist, PersistFails
    <3> QED
      BY <1>2, <2>1, <3>1, <3>2, <3>3 DEF Next
  <2> QED
    BY <2>2 DEF AccountUntraced, AccountFailed, AccountExhausted, AccountNoAnomaly, ReadRaises,
                Raise, End
<1> QED
  BY <1>1, <1>2

LEMMA DescribedNext ==
  ASSUME Inv, Progress, Ranking, Counted, Described, [Next]_vars
  PROVE  Described'
<1>1. plan' = plan
  BY EvidenceSteps
<1>2. CASE evidence' = evidence
  <2> SUFFICES ASSUME NEW j \in DOMAIN plan.actions, plan.actions[j].writes \in DOMAIN evidence
               PROVE  LET row == evidence[plan.actions[j].writes]
                      IN  /\ row.dim = plan.actions[j].dim
                          /\ row.content # NoValue
                          /\ row.content = "no_anomaly" =>
                               pc' = "done" \/ (pc' = "after" /\ (result'.ok => SaysNoAnomaly'))
    BY <1>1, <1>2 DEF Described
  <2> QED
    BY <1>1, <1>2, NoAnomalyEnds DEF Described
<1>3. CASE /\ pc = "rerank" /\ pc' \in {"persist", "done"} /\ pos' = pos
           /\ evidence' = [evidence EXCEPT ![E4].content = "ranked"]
  <2>1. E4 \in DOMAIN evidence
    BY <1>3 DEF Ranking, AtWork
  <2>2. /\ DOMAIN evidence' = DOMAIN evidence
        /\ \A a \in DOMAIN evidence :
             /\ evidence'[a].dim = evidence[a].dim
             /\ evidence'[a].content = IF a = E4 THEN "ranked" ELSE evidence[a].content
    <3>1. evidence' = [a \in DOMAIN evidence |->
            IF a = E4 THEN [evidence[E4] EXCEPT !.content = "ranked"] ELSE evidence[a]]
      BY <1>3 DEF Ranking
    <3>2. evidence[E4] = [inputs |-> evidence[E4].inputs, dim |-> evidence[E4].dim,
                          content |-> evidence[E4].content]
      BY <2>1 DEF Ranking
    <3>3. /\ [evidence[E4] EXCEPT !.content = "ranked"].dim = evidence[E4].dim
          /\ [evidence[E4] EXCEPT !.content = "ranked"].content = "ranked"
      BY <3>2
    <3> QED
      BY <3>1, <3>3
  <2> SUFFICES ASSUME NEW j \in DOMAIN plan.actions, plan.actions[j].writes \in DOMAIN evidence'
               PROVE  LET row == evidence'[plan.actions[j].writes]
                      IN  /\ row.dim = plan.actions[j].dim
                          /\ row.content # NoValue /\ row.content # "no_anomaly"
    BY <1>1 DEF Described
  <2> QED
    BY <1>3, <2>2 DEF Described, NoValue
<1>4. CASE /\ pc = "persist" /\ pos' = pos /\ evidence' = WithRow(NewRow)
           /\ \/ pc' = "done"
              \/ pc' = "after" /\ (result' = result \/ result'.ok = FALSE)
  <2>1. /\ DOMAIN evidence' = DOMAIN evidence \cup {action.writes}
        /\ \A a \in DOMAIN evidence' :
             evidence'[a] = IF a = action.writes THEN NewRow ELSE evidence[a]
    BY <1>4 DEF WithRow
  <2>2. plan \in Plans /\ pos \in DOMAIN plan.actions
    BY <1>4, PlanFacts DEF Inv, TypeOK
  <2>3. \A i \in DOMAIN plan.actions : plan.actions[i].writes = action.writes => i = pos
    BY <2>2, LanesAssumption DEF AreLanesApart, action
  <2>4. /\ NewRow.dim = action.dim /\ NewRow.content = result.content
        /\ result.content \in Contents
    BY <1>4 DEF NewRow, Counted
  <2>5. result.content # NoValue /\ (result.content = "no_anomaly" => SaysNoAnomaly)
    BY <2>4 DEF Contents, Picked, NoValue, SaysNoAnomaly
  <2>6. action' = action
    BY <1>1, <1>4 DEF action
  <2>7. result' = result => (SaysNoAnomaly' <=> SaysNoAnomaly)
    BY <2>6 DEF SaysNoAnomaly
  <2> SUFFICES ASSUME NEW j \in DOMAIN plan.actions, plan.actions[j].writes \in DOMAIN evidence'
               PROVE  LET row == evidence'[plan.actions[j].writes]
                      IN  /\ row.dim = plan.actions[j].dim
                          /\ row.content # NoValue
                          /\ row.content = "no_anomaly" =>
                               pc' = "done" \/ (pc' = "after" /\ (result'.ok => SaysNoAnomaly'))
    BY <1>1 DEF Described
  <2>8. CASE j = pos
    BY <1>4, <2>1, <2>4, <2>5, <2>7, <2>8 DEF action
  <2>9. CASE j # pos
    BY <1>4, <2>1, <2>3, <2>9 DEF Described
  <2> QED
    BY <2>8, <2>9
<1> QED
  BY <1>2, <1>3, <1>4, EvidenceSteps

LEMMA AffordableNext ==
  ASSUME Inv, Affordable, [Next]_vars
  PROVE  Affordable'
<1>1. SUFFICES ASSUME MergesLanes', pc' # "done"
               PROVE  /\ ctx'.query <= Estimates(plan'.actions)[pos' - 1]
                      /\ ctx'.depth <= Cardinality(DrilledUpTo(pos - 1)')
  BY DEF Affordable
<1>2. plan' = plan /\ MergesLanes
  BY <1>1, EvidenceSteps DEF MergesLanes
<1>3. PICK k, drilled : k = pos' - 1 /\ drilled = DrilledUpTo(pos - 1)'
  OBVIOUS
<1>4. drilled = DrilledUpTo(k)
  BY <1>2, <1>3 DEF DrilledUpTo
<1>5. SUFFICES ctx'.query <= Estimates(plan.actions)[k] /\ ctx'.depth <= Cardinality(DrilledUpTo(k))
  BY <1>2, <1>3, <1>4
<1>6. CASE UNCHANGED <<pos, ctx>> /\ pc # "done"
  BY <1>2, <1>3, <1>6 DEF Affordable
<1>7. CASE AccountAction
  <2>1. pc = "after" /\ Charge /\ pos' = pos + 1
    BY <1>7 DEF AccountAction
  <2>2. pos <= Len(plan.actions) /\ pos \in 1..Len(plan.actions) /\ Len(plan.actions) \in Nat
    BY <2>1, PlanFacts DEF Inv, TypeOK
  <2>3. k = pos
    BY <1>3, <2>1, <2>2
  <2>4. /\ ctx.query + SqlCost(action) <= Estimates(plan.actions)[pos]
        /\ Cardinality(DrilledUpTo(pos)) =
             IF action.kind = "drilldown_dimension"
             THEN Cardinality(DrilledUpTo(pos - 1)) + 1 ELSE Cardinality(DrilledUpTo(pos - 1))
    BY <1>2, <2>1, <2>2, BudgetLasts
  <2>5. ctx'.query <= Estimates(plan.actions)[pos]
    <3>1. ctx'.query = audit
      BY <2>1, Charged
    <3>2. /\ audit <= before + issued /\ ctx.query = before /\ issued <= SqlCost(action)
          /\ audit \in Nat /\ before \in Nat /\ issued \in Nat
      BY <2>1 DEF Inv, TypeOK, LedgerIsAudit, InFlight, ToolSteps
    <3>3. SqlCost(action) \in Nat
      BY Costs
    <3>4. PICK e : e = Estimates(plan.actions)[pos]
      OBVIOUS
    <3>5. e \in Nat
      <4>1. IsSequence(plan.actions)
        BY PlansAssumption DEF IsTyped, IsSequence, Inv
      <4>2. pos \in 0..Len(plan.actions)
        BY <2>2
      <4> QED
        BY <3>4, <4>1, <4>2, EstimatesAreSums
    <3>6. audit <= e
      BY <2>4, <3>2, <3>3, <3>4, <3>5
    <3> QED
      BY <3>1, <3>4, <3>6
  <2>6. ctx'.depth <= Cardinality(DrilledUpTo(pos))
    <3>1. ctx'.depth = IF action.kind = "drilldown_dimension" THEN ctx.depth + 1 ELSE ctx.depth
      BY <2>1 DEF Charge
    <3>2. ctx.depth <= Cardinality(DrilledUpTo(pos - 1)) /\ ctx.depth \in Nat
      BY <1>2, <2>1 DEF Affordable, Inv, TypeOK
    <3>3. Cardinality(DrilledUpTo(pos - 1)) \in Nat
      <4>1. IsFiniteSet(1..(pos - 1))
        BY <2>2, FS_Interval
      <4>2. IsFiniteSet(DrilledUpTo(pos - 1))
        BY <4>1, FS_Subset DEF DrilledUpTo
      <4> QED
        BY <4>2, FS_CardinalityType
    <3> QED
      BY <2>4, <3>1, <3>2, <3>3
  <2> QED
    BY <2>3, <2>5, <2>6
<1>8. \/ UNCHANGED <<pos, ctx>> /\ pc # "done"
      \/ AccountAction
  <2> USE DEF tables, frame
  <2>1. CASE \/ Load \/ Succeed \/ GateAllows \/ GateDenies \/ CountBefore \/ ToolBegins
             \/ RenderRaises
    BY <2>1 DEF Load, Succeed, GateAllows, GateDenies, CountBefore, ToolBegins, RenderRaises
  <2>2. CASE QueryRuns \/ QueryFails \/ AuditWriteFails \/ JudgeAccepts \/ JudgeRejects \/ ReadRaises
    BY <2>2 DEF QueryRuns, QueryFails, AuditWriteFails, JudgeAccepts, JudgeRejects, ReadRaises
  <2>3. CASE RerankE4 \/ RerankFails \/ Persist \/ PersistFails
    BY <2>3 DEF RerankE4, RerankFails, Persist, PersistFails
  <2>4. CASE AccountUntraced \/ AccountFailed \/ AccountExhausted \/ AccountNoAnomaly
    BY <1>1, <2>4 DEF AccountUntraced, AccountFailed, AccountExhausted, AccountNoAnomaly, End
  <2>5. CASE UNCHANGED vars
    BY <1>1, <2>5 DEF vars
  <2> QED
    BY <2>1, <2>2, <2>3, <2>4, <2>5 DEF Next
<1> QED
  BY <1>6, <1>7, <1>8

(* An error of the accounting is that of the tool: what it declares is     *)
(* what the audit counts.                                                  *)
LEMMA ErrorIsOfTheData ==
  ASSUME Inv, Progress, Counted, plan \in CoherentPlans, pc = "after"
  PROVE  Error \in DataErrors
<1>1. /\ result.declared \in 0..6 /\ before \in Nat /\ audit \in Nat /\ before <= audit
      /\ result.ok \in BOOLEAN
  BY DEF Inv, TypeOK, LedgerIsAudit, Progress
<1>2. CASE result.ok
  <2>1. audit - before = result.declared
    BY <1>1, <1>2 DEF Counted
  <2>2. Error = NoErrorCode
    BY <1>1, <1>2, <2>1 DEF Error, PrimaryError
  <2> QED
    BY <2>2 DEF DataErrors
<1>3. CASE ~result.ok
  <2>1. Error = result.code
    BY <1>1, <1>3 DEF Error, PrimaryError
  <2> QED
    BY <1>3, <2>1 DEF Counted
<1> QED
  BY <1>1, <1>2, <1>3

LEMMA UnfailingNext ==
  ASSUME Inv, Progress, Ranking, Soundness, [Next]_vars
  PROVE  Unfailing'
<1> USE DEF tables, frame
<1>1. plan' = plan /\ (MergesLanes' <=> MergesLanes)
  BY EvidenceSteps DEF MergesLanes
<1>2. ASSUME pc' = "done",
             \/ outcome'.error \in DataErrors
             \/ outcome'.error = "BUDGET_EXCEEDED" /\ ~MergesLanes
             \/ plan \notin CoherentPlans
      PROVE  Unfailing'
  BY <1>1, <1>2 DEF Unfailing, CompiledPlansNeverMisfire
<1>3. ASSUME pc # "done", outcome' = outcome
      PROVE  Unfailing'
  BY <1>3 DEF Soundness, Unfailing, CompiledPlansNeverMisfire, DataErrors
<1>4. CASE \/ Load \/ GateAllows \/ CountBefore \/ ToolBegins \/ QueryRuns \/ QueryFails
           \/ AuditWriteFails \/ JudgeAccepts \/ JudgeRejects \/ RerankE4 \/ Persist
           \/ AccountAction
  BY <1>3, <1>4 DEF Load, GateAllows, CountBefore, ToolBegins, QueryRuns, QueryFails,
     AuditWriteFails, JudgeAccepts, JudgeRejects, RerankE4, Persist, AccountAction, ToolFails
<1>5. CASE Succeed \/ RerankFails \/ AccountUntraced \/ AccountNoAnomaly \/ ReadRaises
  BY <1>2, <1>5 DEF Succeed, RerankFails, AccountUntraced, AccountNoAnomaly, ReadRaises, Raise, End,
     DataErrors
<1>6. CASE PersistFails
  BY <1>2, <1>3, <1>6 DEF PersistFails, Raise, End, ToolFails, DataErrors
<1>7. CASE GateDenies
  <2>1. /\ pc = "gate" /\ pos <= Len(plan.actions) /\ Verdict # Allowed /\ pc' = "done"
        /\ outcome'.error \in {Verdict, "SYSTEM_TABLE_WRITE_FAILED"}
    BY <1>7 DEF GateDenies, End
  <2>2. CASE plan \in CoherentPlans
    <3>1. Verdict = "BUDGET_EXCEEDED" /\ ~WithinBudget(plan.budget, ctx, action)
      BY <2>1, <2>2, OnlyTheBudgetDenies DEF Soundness
    <3>2. ~MergesLanes
      BY <2>1, <3>1, BudgetLasts DEF Soundness
    <3> QED
      BY <1>2, <2>1, <3>1, <3>2 DEF DataErrors
  <2> QED
    BY <1>2, <2>1, <2>2
<1>8. CASE RenderRaises
  <2>1. plan \notin CoherentPlans
    BY <1>8, NothingIsRefused DEF RenderRaises, Soundness
  <2> QED
    BY <1>2, <1>8, <2>1 DEF RenderRaises, End
<1>9. CASE AccountFailed
  <2>1. pc = "after" /\ pc' = "done" /\ outcome'.error = Error
    BY <1>9 DEF AccountFailed, End
  <2> QED
    BY <1>2, <2>1, ErrorIsOfTheData DEF Soundness
<1>10. CASE AccountExhausted
  <2>1. /\ pc = "after" /\ pc' = "done" /\ outcome'.error = "BUDGET_EXCEEDED" /\ Charge
        /\ ctx'.query >= plan.budget.queries
    <3>1. /\ pc = "after" /\ pc' = "done" /\ outcome'.error = "BUDGET_EXCEEDED" /\ Charge
          /\ (ctx'.query > plan.budget.queries \/ ctx'.query >= plan.budget.queries)
      BY <1>10 DEF AccountExhausted, Exhausted, End
    <3>2. ctx'.query \in Nat /\ plan.budget.queries \in Nat
      BY <3>1, Charged, PlanFacts DEF Inv
    <3> QED
      BY <3>1, <3>2
  <2>2. ~MergesLanes
    <3> SUFFICES ASSUME MergesLanes PROVE FALSE
      OBVIOUS
    <3>1. pos <= Len(plan.actions) /\ pos \in 0..Len(plan.actions)
      BY <2>1, PlanFacts DEF Inv, TypeOK
    <3>2. PICK e : e = Estimates(plan.actions)[pos]
      OBVIOUS
    <3>3. ctx.query + SqlCost(action) <= e /\ e < plan.budget.queries
      BY <2>1, <3>1, <3>2, BudgetLasts DEF Soundness
    <3>4. ctx'.query = audit
      BY <2>1, Charged
    <3>5. /\ audit <= before + issued /\ ctx.query = before /\ issued <= SqlCost(action)
          /\ audit \in Nat /\ before \in Nat /\ issued \in Nat
      BY <2>1 DEF Inv, TypeOK, LedgerIsAudit, InFlight, ToolSteps
    <3>6. SqlCost(action) \in Nat
      BY Costs
    <3>7. e \in Nat
      <4>1. IsSequence(plan.actions)
        BY PlansAssumption DEF IsTyped, IsSequence, Inv
      <4> QED
        BY <3>1, <3>2, <4>1, EstimatesAreSums
    <3>8. plan.budget.queries \in Nat
      BY PlanFacts DEF Inv
    <3>9. audit < plan.budget.queries
      BY <3>3, <3>5, <3>6, <3>7, <3>8
    <3> QED
      BY <2>1, <3>4, <3>5, <3>8, <3>9
  <2> QED
    BY <1>2, <2>1, <2>2
<1>11. CASE UNCHANGED vars
  BY <1>1, <1>11 DEF vars, Soundness, Unfailing, CompiledPlansNeverMisfire
<1> QED
  BY <1>4, <1>5, <1>6, <1>7, <1>8, <1>9, <1>10, <1>11 DEF Next

LEMMA SoundnessInit == Init => Soundness
<1> SUFFICES ASSUME Init PROVE Soundness
  OBVIOUS
<1>1. /\ pc = "load" /\ pos = 1 /\ DOMAIN evidence = {} /\ outcome.error = NoErrorCode
      /\ ctx.query = 0 /\ ctx.depth = 0 /\ plan \in Plans
  BY DEF Init, Running
<1>2. IsSequence(plan.actions) /\ pos - 1 = 0
  BY <1>1, PlansAssumption DEF IsTyped, IsSequence
<1>3. Estimates(plan.actions)[pos - 1] = 0
  BY <1>2, EstimatesAreSums
<1>4. DrilledUpTo(pos - 1) = {}
  BY <1>2 DEF DrilledUpTo
<1>5. Cardinality(DrilledUpTo(pos - 1)) = 0
  BY <1>4, FS_EmptySet
<1>6. Affordable
  BY <1>1, <1>3, <1>5 DEF Affordable
<1>7. Counted /\ Described
  BY <1>1 DEF Counted, Described
<1>8. Unfailing
  BY <1>1 DEF Unfailing, CompiledPlansNeverMisfire, DataErrors
<1> QED
  BY <1>6, <1>7, <1>8 DEF Soundness

(* A plan that can be carried out if nothing fails (RunnableAssumption)    *)
(* is never the reason for a failure: whatever the data say and whichever  *)
(* database call fails, the gate and the tools find what they insist on,   *)
(* and what is charged is what was declared.  A plan that merges lanes     *)
(* does not run out of its budget either.                                  *)
THEOREM PlansNeverMisfire == Spec => []CompiledPlansNeverMisfire
<1>1. Inv /\ Progress /\ Ranking /\ Soundness /\ [Next]_vars => Soundness'
  BY CountedNext, DescribedNext, AffordableNext, UnfailingNext DEF Soundness
<1>2. Soundness => CompiledPlansNeverMisfire
  BY DEF Soundness, Unfailing
<1> QED
  BY <1>1, <1>2, SoundnessInit, Invariant, ProgressHolds, RankingHolds, PTL DEF Spec

-------------------------------------------------------------------------------
(* Memory keeps the question.                                              *)

Produced(s) == {s[k].produces : k \in DOMAIN s}

(* After actions that produce C, those of s are valid: each requires what  *)
(* was produced before it, and produces something new.                     *)
FitsAfter(C, s) ==
  /\ IsSequence(s)
  /\ \A k \in DOMAIN s :
       /\ IsSequence(s[k].produces) /\ s[k].produces \notin C
       /\ ToSet(s[k].requires) \subseteq C \cup {s[j].produces : j \in 1..(k - 1)}
       /\ s[k].kind = "merge_contribution_sets" => s[k].produces = E4
       /\ s[k].kind = "rank_root_causes" => s[k].produces = ERank
  /\ \A k, l \in DOMAIN s : s[k].produces = s[l].produces => k = l

LEMMA FittingIsValid ==
  ASSUME NEW s, FitsAfter({}, s)
  PROVE  PlanIsValid(s)
<1>1. DOMAIN s = 1..Len(s) /\ Len(s) \in Nat
  BY SequencesAreLists DEF FitsAfter
<1>2. ASSUME NEW k \in DOMAIN s, NEW r \in ToSet(s[k].requires)
      PROVE  \E j \in 1..(k - 1) : AliasMatches(s[j].produces, r)
  <2>1. PICK j \in 1..(k - 1) : r = s[j].produces
    BY <1>2 DEF FitsAfter
  <2>2. j \in DOMAIN s
    BY <1>1, <2>1
  <2>3. IsSequence(r)
    BY <2>1, <2>2 DEF FitsAfter
  <2>4. Len(r) \in Nat
    BY <2>3, SequencesAreLists
  <2>5. AliasMatches(r, r)
    BY <2>4 DEF AliasMatches, IsPrefix
  <2> QED
    BY <2>1, <2>5
<1> QED
  BY <1>2 DEF PlanIsValid, FitsAfter

LEMMA FittingOne ==
  ASSUME NEW C, NEW a, IsSequence(a.produces), a.produces \notin C,
         ToSet(a.requires) \subseteq C,
         a.kind = "merge_contribution_sets" => a.produces = E4,
         a.kind = "rank_root_causes" => a.produces = ERank
  PROVE  FitsAfter(C, <<a>>) /\ Produced(<<a>>) = {a.produces}
<1>1. PICK s : s = <<a>>
  OBVIOUS
<1>2. IsSequence(s) /\ DOMAIN s = {1} /\ s[1] = a
  BY <1>1, ShortLists, SequencesAreLists
<1> QED
  BY <1>1, <1>2 DEF FitsAfter, Produced

LEMMA FittingJoined ==
  ASSUME NEW C, NEW s, FitsAfter(C, s),
         NEW D, D = C \cup Produced(s), NEW t, FitsAfter(D, t)
  PROVE  /\ FitsAfter(C, Cat(s, t))
         /\ Produced(Cat(s, t)) = Produced(s) \cup Produced(t)
<1>1. PICK m \in Nat, n \in Nat : Lists(s, m) /\ Lists(t, n) /\ DOMAIN s = 1..m /\ DOMAIN t = 1..n
  BY SequencesAreLists DEF FitsAfter
<1>2. PICK u : u = Cat(s, t)
  OBVIOUS
<1>3. /\ Lists(u, m + n) /\ DOMAIN u = 1..(m + n)
      /\ \A k \in 1..m : u[k] = s[k]
      /\ \A k \in 1..n : u[m + k] = t[k]
  <2>1. /\ Lists(u, m + n)
        /\ \A k \in 1..m : u[k] = s[k]
        /\ \A k \in 1..n : u[m + k] = t[k]
    BY <1>1, <1>2, Joined
  <2>2. m + n \in Nat
    BY <1>1
  <2> QED
    BY <2>1, <2>2, ListsLength
<1>4. IsSequence(u)
  <2>1. m + n \in Nat
    BY <1>1
  <2> QED
    BY <1>3, <2>1, SequencesAreLists
<1>5. ASSUME NEW k \in 1..(m + n)
      PROVE  k \in 1..m \/ \E l \in 1..n : k = m + l
  <2>1. k \notin 1..m => k - m \in 1..n /\ k = m + (k - m)
    BY <1>1
  <2> QED
    BY <2>1
<1>6. /\ 1..m \subseteq 1..(m + n)
      /\ \A l \in 1..n : m + l \in 1..(m + n)
  BY <1>1
<1>7. ASSUME NEW k \in 1..m
      PROVE  {u[j].produces : j \in 1..(k - 1)} = {s[j].produces : j \in 1..(k - 1)}
  <2>1. \A j \in 1..(k - 1) : u[j] = s[j]
    BY <1>1, <1>3
  <2> QED
    BY <2>1
<1>8. ASSUME NEW l \in 1..n
      PROVE  Produced(s) \cup {t[j].produces : j \in 1..(l - 1)}
               \subseteq {u[j].produces : j \in 1..((m + l) - 1)}
  <2>1. ASSUME NEW j \in 1..m PROVE s[j].produces \in {u[i].produces : i \in 1..((m + l) - 1)}
    <3>1. j \in 1..((m + l) - 1)
      BY <1>1
    <3> QED
      BY <1>3, <3>1
  <2>2. ASSUME NEW j \in 1..(l - 1) PROVE t[j].produces \in {u[i].produces : i \in 1..((m + l) - 1)}
    <3>1. m + j \in 1..((m + l) - 1) /\ j \in 1..n
      BY <1>1
    <3> QED
      BY <1>3, <3>1
  <2> QED
    BY <1>1, <2>1, <2>2 DEF Produced
<1>9. Produced(u) = Produced(s) \cup Produced(t)
  <2>1. ASSUME NEW k \in 1..(m + n) PROVE u[k].produces \in Produced(s) \cup Produced(t)
    <3>1. CASE k \in 1..m
      BY <1>1, <1>3, <3>1 DEF Produced
    <3>2. ASSUME NEW l \in 1..n, k = m + l PROVE u[k].produces \in Produced(t)
      BY <1>1, <1>3, <3>2 DEF Produced
    <3> QED
      BY <1>5, <3>1, <3>2
  <2>2. Produced(s) \cup Produced(t) \subseteq Produced(u)
    BY <1>1, <1>3, <1>6 DEF Produced
  <2>3. Produced(u) = {u[k].produces : k \in 1..(m + n)}
    BY <1>3 DEF Produced
  <2> QED
    BY <2>1, <2>2, <2>3
<1>10. ASSUME NEW k \in DOMAIN u
       PROVE  /\ IsSequence(u[k].produces) /\ u[k].produces \notin C
              /\ ToSet(u[k].requires) \subseteq C \cup {u[j].produces : j \in 1..(k - 1)}
              /\ u[k].kind = "merge_contribution_sets" => u[k].produces = E4
              /\ u[k].kind = "rank_root_causes" => u[k].produces = ERank
  <2>1. CASE k \in 1..m
    BY <1>1, <1>3, <1>7, <2>1 DEF FitsAfter
  <2>2. ASSUME NEW l \in 1..n, k = m + l
        PROVE  /\ IsSequence(u[k].produces) /\ u[k].produces \notin C
               /\ ToSet(u[k].requires) \subseteq C \cup {u[j].produces : j \in 1..(k - 1)}
               /\ u[k].kind = "merge_contribution_sets" => u[k].produces = E4
               /\ u[k].kind = "rank_root_causes" => u[k].produces = ERank
    <3>1. u[k] = t[l]
      BY <1>3, <2>2
    <3>2. ToSet(t[l].requires) \subseteq (C \cup Produced(s)) \cup {t[j].produces : j \in 1..(l - 1)}
      BY <1>1 DEF FitsAfter
    <3>3. ToSet(u[k].requires) \subseteq C \cup {u[j].produces : j \in 1..(k - 1)}
      BY <1>8, <2>2, <3>1, <3>2
    <3> QED
      BY <1>1, <3>1, <3>3 DEF FitsAfter
  <2> QED
    BY <1>3, <1>5, <2>1, <2>2
<1>11. ASSUME NEW k \in DOMAIN u, NEW l \in DOMAIN u, u[k].produces = u[l].produces
       PROVE  k = l
  <2>1. ASSUME NEW i \in 1..m, NEW j \in 1..n PROVE u[i].produces # u[m + j].produces
    <3>1. u[i] = s[i] /\ u[m + j] = t[j] /\ i \in DOMAIN s /\ j \in DOMAIN t
      BY <1>1, <1>3, <2>1
    <3>2. s[i].produces \in Produced(s)
      BY <3>1 DEF Produced
    <3>3. t[j].produces \notin C \cup Produced(s)
      BY <3>1 DEF FitsAfter
    <3> QED
      BY <3>1, <3>2, <3>3
  <2>2. ASSUME NEW i \in 1..m, NEW j \in 1..m, u[i].produces = u[j].produces PROVE i = j
    BY <1>1, <1>3, <2>2 DEF FitsAfter
  <2>3. ASSUME NEW i \in 1..n, NEW j \in 1..n, u[m + i].produces = u[m + j].produces PROVE i = j
    <3>1. u[m + i] = t[i] /\ u[m + j] = t[j] /\ i \in DOMAIN t /\ j \in DOMAIN t
      BY <1>1, <1>3, <2>3
    <3> QED
      BY <2>3, <3>1 DEF FitsAfter
  <2>4. k \in 1..(m + n) /\ l \in 1..(m + n)
    BY <1>3
  <2>5. CASE k \in 1..m
    <3>1. CASE l \in 1..m
      BY <1>11, <2>2, <2>5, <3>1
    <3>2. CASE l \notin 1..m
      <4>1. PICK j \in 1..n : l = m + j
        BY <1>5, <2>4, <3>2
      <4> QED
        BY <1>11, <2>1, <2>5, <4>1
    <3> QED
      BY <3>1, <3>2
  <2>6. CASE k \notin 1..m
    <3>1. PICK i \in 1..n : k = m + i
      BY <1>5, <2>4, <2>6
    <3>2. CASE l \in 1..m
      BY <1>11, <2>1, <3>1, <3>2
    <3>3. CASE l \notin 1..m
      <4>1. PICK j \in 1..n : l = m + j
        BY <1>5, <2>4, <3>3
      <4>2. i = j
        BY <1>11, <2>3, <3>1, <4>1
      <4> QED
        BY <3>1, <4>1, <4>2
    <3> QED
      BY <3>2, <3>3
  <2> QED
    BY <2>5, <2>6
<1>12. FitsAfter(C, u)
  BY <1>4, <1>10, <1>11 DEF FitsAfter
<1> QED
  BY <1>2, <1>9, <1>12

(* The dimensions of the policies that have several, and the aliases of    *)
(* their lanes.                                                            *)
DrilledDims == {"channel", "category", "product", "device"}
LaneProduces(d) == {<<"E", "select", d>>, E3AliasForDimension(d), <<"E4", d>>}

LEMMA AliasesOfDims ==
  /\ \A d \in DrilledDims : /\ \A a \in LaneProduces(d) : IsSequence(a)
                            /\ IsSequence(E2Alias(d))
  /\ IsSequence(E1) /\ IsSequence(E4) /\ IsSequence(ERank)
<1>1. \A x, y, z : Lists(<<x, y, z>>, 3)
  BY DEF Lists
<1>2. /\ \A x : IsSequence(<<x>>)
      /\ \A x, y : IsSequence(<<x, y>>)
      /\ \A x, y, z : IsSequence(<<x, y, z>>)
  BY <1>1, ShortLists, SequencesAreLists
<1> QED
  BY <1>2 DEF LaneProduces, E3AliasForDimension, E2Alias, E1, E4, ERank

LEMMA AliasesApart ==
  /\ \A d \in DrilledDims : /\ {E1, E4, ERank} \cap LaneProduces(d) = {}
                            /\ E2Alias(d) \notin {E1, E4, ERank}
                            /\ E3AliasForDimension(d) # <<"E", "select", d>>
                            /\ <<"E4", d>> # <<"E", "select", d>>
                            /\ E3AliasForDimension(d) # <<"E4", d>>
  /\ \A d, e \in DrilledDims : E2Alias(d) \notin LaneProduces(e)
  /\ \A d, e \in DrilledDims : d # e =>
       E2Alias(d) # E2Alias(e) /\ LaneProduces(d) \cap LaneProduces(e) = {}
  /\ E1 # E4 /\ E1 # ERank /\ E4 # ERank
<1>1. \A d, e \in DrilledDims : d # e => E3AliasForDimension(d) # E3AliasForDimension(e)
  <2>1. /\ E3Token("channel") = "ch" /\ E3Token("category") = "cat"
        /\ E3Token("product") = "prod" /\ E3Token("device") = "dev"
    BY DEF E3Token
  <2>2. \A d, e \in DrilledDims : d # e => E3Token(d) # E3Token(e)
    BY <2>1 DEF DrilledDims
  <2> QED
    BY <2>2 DEF E3AliasForDimension
<1>2. \A d, e : /\ E3AliasForDimension(d) # <<"E", "select", e>>
                /\ <<"E4", d>> # <<"E", "select", e>>
                /\ E3AliasForDimension(d) # <<"E4", e>>
  BY DEF E3AliasForDimension
<1>3. \A d, e : E2Alias(d) \notin LaneProduces(e)
  BY DEF E2Alias, LaneProduces, E3AliasForDimension
<1>4. \A d : {E1, E4, ERank} \cap LaneProduces(d) = {} /\ E2Alias(d) \notin {E1, E4, ERank}
  BY DEF E2Alias, LaneProduces, E3AliasForDimension, E1, E4, ERank
<1>5. E1 # E4 /\ E1 # ERank /\ E4 # ERank
  BY DEF E1, E4, ERank
<1>6. \A d, e : d # e => /\ E2Alias(d) # E2Alias(e) /\ <<"E4", d>> # <<"E4", e>>
                         /\ <<"E", "select", d>> # <<"E", "select", e>>
  BY DEF E2Alias
<1>7. ASSUME NEW d \in DrilledDims, NEW e \in DrilledDims, d # e
      PROVE  LaneProduces(d) \cap LaneProduces(e) = {}
  BY <1>1, <1>2, <1>6, <1>7 DEF LaneProduces
<1> QED
  BY <1>2, <1>3, <1>4, <1>5, <1>6, <1>7

(* The actions of a lane drill nothing.                                    *)
LEMMA LanesDrillNothing ==
  ASSUME NEW i, NEW lane, NEW element, NEW filters, NEW scope,
         NEW a \in ToSet(LaneActions(i, lane, element, filters, scope))
  PROVE  a.kind # "drilldown_dimension"
<1>1. PICK l : l = LaneActions(i, lane, element, filters, scope)
  OBVIOUS
<1> DEFINE aliases == LaneAliases(lane, element # NoValue)
           signalFilters == IF lane.filterMode = "none" THEN NoFilters ELSE filters
           selection == IF element = NoValue THEN <<aliases.selection>> ELSE <<>>
           base == <<E1, E2Alias(lane.dim)>> \o selection
           policy == IF scope = NoFilters THEN "strict" ELSE lane.policy
           select == SelectAction(i, lane, aliases.selection, signalFilters)
           fetch == FetchAction(i, lane, element, base, aliases.signal, signalFilters)
           contribute == ContributionAction(i, lane, element, Append(base, aliases.signal),
                                            aliases.contribution, filters)
<1>2. PICK s : s = IF element = NoValue THEN <<select>> ELSE <<>>
  OBVIOUS
<1>3. PICK t : t = <<fetch, contribute>>
  OBVIOUS
<1>4. l = [k \in DOMAIN Cat(s, t) |-> [Cat(s, t)[k] EXCEPT !.policy = policy]]
  BY <1>1, <1>2, <1>3 DEF LaneActions, Cat
<1>5. \A x \in {select, fetch, contribute} : "kind" \in DOMAIN x /\ x.kind # "drilldown_dimension"
  <2> HIDE DEF aliases, signalFilters, base
  <2>1. "kind" \in DOMAIN select /\ select.kind = "select_signal_element"
    BY DEF SelectAction, Action
  <2>2. "kind" \in DOMAIN fetch /\ fetch.kind = "fetch_related_signal"
    BY DEF FetchAction, Action
  <2>3. "kind" \in DOMAIN contribute /\ contribute.kind = "calculate_contribution"
    BY DEF ContributionAction, Action
  <2> HIDE DEF select, fetch, contribute
  <2> QED
    BY <2>1, <2>2, <2>3
<1> HIDE DEF select, fetch, contribute, policy
<1>6. IsSequence(s) /\ IsSequence(t)
  BY <1>2, <1>3, ShortLists, SequencesAreLists
<1>7. ToSet(Cat(s, t)) = ToSet(s) \cup ToSet(t)
  BY <1>6, SequencesJoined
<1>8. ToSet(s) \cup ToSet(t) \subseteq {select, fetch, contribute}
  BY <1>2, <1>3 DEF ToSet
<1>9. PICK k \in DOMAIN l : a = l[k]
  BY <1>1 DEF ToSet
<1>10. PICK x : x = Cat(s, t)[k] /\ k \in DOMAIN Cat(s, t)
  BY <1>4, <1>9
<1>11. x \in ToSet(Cat(s, t))
  BY <1>10 DEF ToSet
<1>12. "kind" \in DOMAIN x /\ x.kind # "drilldown_dimension"
  BY <1>5, <1>7, <1>8, <1>11
<1>13. a = [x EXCEPT !.policy = policy]
  BY <1>4, <1>9, <1>10
<1> QED
  BY <1>12, <1>13

LEMMA ChainsDrillNothing ==
  ASSUME NEW i, NEW lanes, IsSequence(lanes), NEW elements, NEW filters, NEW scope,
         NEW chains, chains = LaneChains(i, lanes, elements, filters, scope)
  PROVE  IsSequence(chains) /\ \A a \in ToSet(chains) : a.kind # "drilldown_dimension"
<1>1. PICK n \in Nat : DOMAIN lanes = 1..n
  BY SequencesAreLists
<1>2. PICK seqs : seqs = [k \in 1..n |->
        LaneActions(i, lanes[k], LaneElement(lanes[k], elements, scope), filters[lanes[k].dim], scope)]
  OBVIOUS
<1>3. Lists(seqs, n) /\ \A k \in 1..n : IsSequence(seqs[k])
  BY <1>2, LaneIsSteps DEF Lists, AreSteps
<1>4. chains = FlattenSeq(seqs)
  BY <1>1, <1>2 DEF LaneChains
<1>5. ASSUME NEW a \in ToSet(chains) PROVE a.kind # "drilldown_dimension"
  <2>1. PICK k \in 1..n : a \in ToSet(seqs[k])
    BY <1>3, <1>4, FlattenedIsSequence
  <2>2. seqs[k] = LaneActions(i, lanes[k], LaneElement(lanes[k], elements, scope),
                              filters[lanes[k].dim], scope)
    BY <1>2
  <2> QED
    BY <2>1, <2>2, LanesDrillNothing
<1> QED
  BY <1>3, <1>4, <1>5, FlattenedIsSequence

LEMMA ShortCats ==
  ASSUME NEW x, NEW y, NEW z
  PROVE  /\ Cat(<<>>, <<x>>) = <<x>> /\ Cat(<<x>>, <<>>) = <<x>>
         /\ Cat(<<x>>, <<y>>) = <<x, y>> /\ Cat(<<x>>, <<y, z>>) = <<x, y, z>>
<1>1. PICK o, s, t, p : o = <<>> /\ s = <<x>> /\ t = <<y>> /\ p = <<y, z>>
  OBVIOUS
<1>2. Lists(o, 0) /\ Lists(s, 1) /\ Lists(t, 1) /\ Lists(p, 2)
  BY <1>1, ShortLists
<1>3. /\ 1 \in 1..1 /\ 1 \in 1..2 /\ 2 \in 1..2
      /\ 0 + 1 = 1 /\ 1 + 0 = 1 /\ 1 + 1 = 2 /\ 1 + 2 = 3
  OBVIOUS
<1>4. Cat(o, s) = <<x>>
  <2>1. PICK u : u = Cat(o, s)
    OBVIOUS
  <2>2. Lists(u, 0 + 1) /\ \A k \in 1..1 : u[0 + k] = s[k]
    BY <1>2, <2>1, Joined
  <2>3. Lists(u, 1) /\ u[1] = x
    BY <1>1, <1>3, <2>2
  <2> QED
    BY <2>1, <2>3 DEF Lists
<1>5. Cat(s, o) = <<x>>
  <2>1. PICK u : u = Cat(s, o)
    OBVIOUS
  <2>2. Lists(u, 1 + 0) /\ \A k \in 1..1 : u[k] = s[k]
    BY <1>2, <2>1, Joined
  <2>3. Lists(u, 1) /\ u[1] = x
    BY <1>1, <1>3, <2>2
  <2> QED
    BY <2>1, <2>3 DEF Lists
<1>6. Cat(s, t) = <<x, y>>
  <2>1. PICK u : u = Cat(s, t)
    OBVIOUS
  <2>2. /\ Lists(u, 1 + 1) /\ \A k \in 1..1 : u[k] = s[k]
        /\ \A k \in 1..1 : u[1 + k] = t[k]
    BY <1>2, <2>1, Joined
  <2>3. Lists(u, 2) /\ u[1] = x /\ u[2] = y
    BY <1>1, <1>3, <2>2
  <2> QED
    BY <2>1, <2>3 DEF Lists
<1>7. Cat(s, p) = <<x, y, z>>
  <2>1. PICK u : u = Cat(s, p)
    OBVIOUS
  <2>2. /\ Lists(u, 1 + 2) /\ \A k \in 1..1 : u[k] = s[k]
        /\ \A k \in 1..2 : u[1 + k] = p[k]
    BY <1>2, <2>1, Joined
  <2>3. Lists(u, 3) /\ u[1] = x /\ u[2] = y /\ u[3] = z
    BY <1>1, <1>3, <2>2
  <2> QED
    BY <2>1, <2>3 DEF Lists
<1> QED
  BY <1>1, <1>4, <1>5, <1>6, <1>7

(* What is made of a lane whose element is open: a selection, a signal and *)
(* a contribution, each of which requires those before it.                 *)
LEMMA OpenLaneFits ==
  ASSUME NEW i, NEW d \in DrilledDims, NEW x, NEW filters,
         NEW C, E1 \in C, E2Alias(d) \in C, C \cap LaneProduces(d) = {},
         NEW l, l = LaneActions(i, Lane(d, x), NoValue, filters, NoFilters)
  PROVE  FitsAfter(C, l) /\ Produced(l) = LaneProduces(d)
<1>1. PICK lane : lane = Lane(d, x) /\ lane.dim = d /\ lane.signal = x /\ lane.filterMode = "inherit"
                  /\ lane.disc = NoDiscriminator
  BY DEF Lane
<1>2. PICK sel, e3, e4 : sel = <<"E", "select", d>> /\ e3 = E3AliasForDimension(d) /\ e4 = <<"E4", d>>
  OBVIOUS
<1>3. PICK aliases : /\ aliases = LaneAliases(lane, NoValue # NoValue)
                     /\ aliases.selection = sel /\ aliases.signal = e3 /\ aliases.contribution = e4
  <2>1. PICK e : e = LaneEvidenceAliases(d, NoDiscriminator)
    OBVIOUS
  <2>2. /\ e = LaneEvidenceAliases(d, NoDiscriminator) /\ e.selection = sel
        /\ e.contribution = e4 /\ DOMAIN e = {"selection", "signal", "contribution"}
    BY <1>2, <2>1 DEF LaneEvidenceAliases
  <2>3. PICK one : one = <<>> /\ Lists(one, 0)
    BY ShortLists
  <2>4. Lists(e3, 2)
    BY <1>2, ShortLists DEF E3AliasForDimension
  <2>5. Lists(Cat(e3, one), 2 + 0) /\ \A k \in 1..2 : Cat(e3, one)[k] = e3[k]
    BY <2>3, <2>4, Joined
  <2>6. Cat(e3, one) = e3
    BY <2>4, <2>5 DEF Lists
  <2>7. E3AliasForSignalLane(d, x, NoValue # NoValue) = e3
    BY <1>2, <2>3, <2>6 DEF E3AliasForSignalLane, Cat
  <2>8. LaneAliases(lane, NoValue # NoValue) = [e EXCEPT !.signal = e3]
    BY <1>1, <2>2, <2>7 DEF LaneAliases
  <2>9. PICK r : r = LaneAliases(lane, NoValue # NoValue) /\ r = [e EXCEPT !.signal = e3]
    BY <2>8
  <2>20. r.selection = sel /\ r.signal = e3 /\ r.contribution = e4
    BY <2>2, <2>9
  <2> QED
    BY <2>9, <2>20
<1>4. PICK pair : pair = <<E1, E2Alias(d)>>
  OBVIOUS
<1>5. PICK one : one = <<sel>>
  OBVIOUS
<1>6. PICK base : base = Cat(pair, one)
  OBVIOUS
<1>7. PICK select, fetch, contribute :
        /\ select = SelectAction(i, lane, sel, filters)
        /\ fetch = FetchAction(i, lane, NoValue, base, e3, filters)
        /\ contribute = ContributionAction(i, lane, NoValue, Append(base, e3), e4, filters)
  OBVIOUS
<1>8. PICK s : s = <<select>>
  OBVIOUS
<1>9. PICK t : t = <<fetch, contribute>>
  OBVIOUS
<1>10. l = [k \in DOMAIN Cat(s, t) |-> [Cat(s, t)[k] EXCEPT !.policy = "strict"]]
  <2>1. PICK chain : chain = Cat(s, t)
    OBVIOUS
  <2>2. chain = <<SelectAction(i, lane, aliases.selection, filters)>> \o
                <<FetchAction(i, lane, NoValue, (<<E1, E2Alias(lane.dim)>> \o <<aliases.selection>>),
                              aliases.signal, filters),
                  ContributionAction(i, lane, NoValue,
                    Append(<<E1, E2Alias(lane.dim)>> \o <<aliases.selection>>, aliases.signal),
                    aliases.contribution, filters)>>
    BY <1>1, <1>3, <1>4, <1>5, <1>6, <1>7, <1>8, <1>9, <2>1 DEF Cat
  <2>3. l = [k \in DOMAIN chain |-> [chain[k] EXCEPT !.policy = "strict"]]
    BY <1>1, <1>3, <2>2 DEF LaneActions
  <2> QED
    BY <2>1, <2>3
<1>11. /\ Lists(Cat(s, t), 3) /\ Cat(s, t)[1] = select /\ Cat(s, t)[2] = fetch
       /\ Cat(s, t)[3] = contribute
  <2>1. Lists(s, 1) /\ Lists(t, 2) /\ s[1] = select /\ t[1] = fetch /\ t[2] = contribute
    BY <1>8, <1>9, ShortLists
  <2>2. /\ Lists(Cat(s, t), 1 + 2) /\ \A k \in 1..1 : Cat(s, t)[k] = s[k]
        /\ \A k \in 1..2 : Cat(s, t)[1 + k] = t[k]
    BY <2>1, Joined
  <2>3. 1 \in 1..1 /\ 1 \in 1..2 /\ 2 \in 1..2 /\ 1 + 1 = 2 /\ 1 + 2 = 3
    OBVIOUS
  <2> QED
    BY <2>1, <2>2, <2>3
<1>12. PICK a, b, c : /\ a = [select EXCEPT !.policy = "strict"]
                      /\ b = [fetch EXCEPT !.policy = "strict"]
                      /\ c = [contribute EXCEPT !.policy = "strict"]
  OBVIOUS
<1>13. l = <<a, b, c>>
  <2>1. DOMAIN Cat(s, t) = 1..3
    BY <1>11 DEF Lists
  <2>2. l = [k \in 1..3 |-> [Cat(s, t)[k] EXCEPT !.policy = "strict"]]
    BY <1>10, <2>1
  <2>3. l[1] = a /\ l[2] = b /\ l[3] = c
    BY <1>11, <1>12, <2>2
  <2> QED
    BY <2>2, <2>3
<1>14. /\ a.kind = "select_signal_element" /\ a.produces = sel /\ a.requires = pair
       /\ b.kind = "fetch_related_signal" /\ b.produces = e3 /\ b.requires = base
       /\ c.kind = "calculate_contribution" /\ c.produces = e4 /\ c.requires = Append(base, e3)
  <2>1. /\ a.kind = "select_signal_element" /\ a.produces = sel /\ a.requires = pair
    BY <1>1, <1>4, <1>7, <1>12 DEF SelectAction, Action
  <2>2. /\ b.kind = "fetch_related_signal" /\ b.produces = e3 /\ b.requires = base
    BY <1>7, <1>12 DEF FetchAction, Action
  <2>3. /\ c.kind = "calculate_contribution" /\ c.produces = e4 /\ c.requires = Append(base, e3)
    BY <1>7, <1>12 DEF ContributionAction, Action
  <2> QED
    BY <2>1, <2>2, <2>3
<1>15. /\ ToSet(pair) = {E1, E2Alias(d)} /\ ToSet(base) = {E1, E2Alias(d), sel}
       /\ ToSet(Append(base, e3)) = {E1, E2Alias(d), sel, e3}
  <2>1. Lists(pair, 2) /\ Lists(one, 1) /\ IsSequence(pair) /\ IsSequence(one)
    BY <1>4, <1>5, ShortLists, SequencesAreLists
  <2>2. ToSet(pair) = {E1, E2Alias(d)} /\ ToSet(one) = {sel}
    BY <1>4, <1>5 DEF ToSet
  <2>3. IsSequence(base) /\ ToSet(base) = {E1, E2Alias(d), sel}
    BY <1>6, <2>1, <2>2, SequencesJoined
  <2>4. PICK last : last = <<e3>>
    OBVIOUS
  <2>5. IsSequence(last) /\ ToSet(last) = {e3}
    BY <2>4, ShortLists, SequencesAreLists DEF ToSet
  <2>6. Append(base, e3) = Cat(base, last)
    BY <2>3, <2>4 DEF IsSequence, Cat
  <2>7. ToSet(Cat(base, last)) = {E1, E2Alias(d), sel, e3}
    BY <2>3, <2>5, SequencesJoined
  <2> QED
    BY <2>2, <2>3, <2>6, <2>7
<1>16. /\ LaneProduces(d) = {sel, e3, e4} /\ e3 # sel /\ e4 # sel /\ e3 # e4
       /\ IsSequence(sel) /\ IsSequence(e3) /\ IsSequence(e4)
  <2>1. LaneProduces(d) = {sel, e3, e4}
    BY <1>2 DEF LaneProduces
  <2> QED
    BY <1>2, <2>1, AliasesOfDims, AliasesApart
<1>17. PICK u, v, w : u = <<a>> /\ v = <<b>> /\ w = <<c>>
  OBVIOUS
<1>18. FitsAfter(C, u) /\ Produced(u) = {sel}
  BY <1>14, <1>15, <1>16, <1>17, FittingOne
<1>19. PICK D : D = C \cup Produced(u)
  OBVIOUS
<1>20. FitsAfter(D, v) /\ Produced(v) = {e3}
  <2>1. ToSet(b.requires) \subseteq D /\ e3 \notin D
    BY <1>14, <1>15, <1>16, <1>18, <1>19
  <2> QED
    BY <1>14, <1>16, <1>17, <2>1, FittingOne
<1>21. FitsAfter(D, Cat(v, w)) /\ Produced(Cat(v, w)) = {e3, e4}
  <2>1. PICK E : E = D \cup Produced(v)
    OBVIOUS
  <2>2. ToSet(c.requires) \subseteq E /\ e4 \notin E
    BY <1>14, <1>15, <1>16, <1>18, <1>19, <1>20, <2>1
  <2>3. FitsAfter(E, w) /\ Produced(w) = {e4}
    BY <1>14, <1>16, <1>17, <2>2, FittingOne
  <2>4. FitsAfter(D, Cat(v, w)) /\ Produced(Cat(v, w)) = Produced(v) \cup Produced(w)
    BY <1>20, <2>1, <2>3, FittingJoined
  <2> QED
    BY <1>20, <2>3, <2>4
<1>22. FitsAfter(C, Cat(u, Cat(v, w))) /\ Produced(Cat(u, Cat(v, w))) = {sel, e3, e4}
  <2>1. /\ FitsAfter(C, Cat(u, Cat(v, w)))
        /\ Produced(Cat(u, Cat(v, w))) = Produced(u) \cup Produced(Cat(v, w))
    BY <1>18, <1>19, <1>21, FittingJoined
  <2> QED
    BY <1>18, <1>21, <2>1
<1>23. Cat(u, Cat(v, w)) = l
  <2>1. Cat(v, w) = <<b, c>>
    BY <1>17, ShortCats
  <2>2. Cat(u, <<b, c>>) = <<a, b, c>>
    BY <1>17, ShortCats
  <2> QED
    BY <1>13, <2>1, <2>2
<1> QED
  BY <1>16, <1>22, <1>23

(* The dimensions of a policy, the first signal dimension in front.        *)
IsOrder(ds, q) ==
  LET n == Len(q.drilldowns)
  IN  /\ Lists(ds, n) /\ ds[1] = q.firstDim /\ ToSet(ds) = ToSet(q.drilldowns)
      /\ \A k, l \in 1..n : ds[k] = ds[l] => k = l

LaneSignal(m, q, k, d) ==
  IF k = 1 THEN q.firstSignal
  ELSE IF q.firstSignal = "interaction" THEN "interaction" ELSE DefaultSignal(m, d)

HasOrder(m, q) ==
  \E ds : /\ IsOrder(ds, q)
          /\ LanesOf(m, q) = [k \in 1..Len(q.drilldowns) |-> Lane(ds[k], LaneSignal(m, q, k, ds[k]))]

LEMMA DefaultLanes ==
  ASSUME NEW m, NEW q, q.lanes = <<>>, q.firstDim \in ToSet(q.drilldowns),
         \/ Lists(q.drilldowns, 2) /\ q.drilldowns[1] # q.drilldowns[2]
         \/ /\ Lists(q.drilldowns, 3) /\ q.drilldowns[1] # q.drilldowns[2]
            /\ q.drilldowns[1] # q.drilldowns[3] /\ q.drilldowns[2] # q.drilldowns[3]
  PROVE  HasOrder(m, q)
<1> DEFINE signal(d) == IF q.firstSignal = "interaction" THEN "interaction"
                        ELSE DefaultSignal(m, d)
           other(d) == IF d = q.firstDim THEN <<>> ELSE <<Lane(d, signal(d))>>
<1>1. PICK f : f = Lane(q.firstDim, q.firstSignal)
  OBVIOUS
<1>2. PICK seqs : seqs = [k \in DOMAIN q.drilldowns |-> other(q.drilldowns[k])]
  OBVIOUS
<1>3. LanesOf(m, q) = Cat(<<f>>, FlattenSeq(seqs))
  BY <1>1, <1>2 DEF LanesOf, Cat
<1>4. ASSUME Lists(q.drilldowns, 2), q.drilldowns[1] # q.drilldowns[2] PROVE HasOrder(m, q)
  <2>1. PICK a, b : a = q.drilldowns[1] /\ b = q.drilldowns[2]
    OBVIOUS
  <2>2. Len(q.drilldowns) = 2 /\ DOMAIN q.drilldowns = 1..2 /\ a # b
    BY <1>4, <2>1, ListsLength
  <2>3. ToSet(q.drilldowns) = {a, b}
    BY <2>1, <2>2 DEF ToSet
  <2>4. Lists(seqs, 2) /\ seqs[1] = other(a) /\ seqs[2] = other(b)
    BY <1>2, <2>1, <2>2 DEF Lists
  <2>5. FlattenSeq(seqs) = Cat(other(a), other(b))
    BY <2>4, FlattenedPairs
  <2>6. ASSUME NEW c, NEW d, {c, d} = {a, b}, c # d, q.firstDim = c
        PROVE  HasOrder(m, q)
    <3>1. Cat(other(a), other(b)) = <<Lane(d, signal(d))>>
      <4>1. other(c) = <<>> /\ other(d) = <<Lane(d, signal(d))>>
        BY <2>6
      <4>2. (a = c /\ b = d) \/ (a = d /\ b = c)
        BY <2>6
      <4> QED
        BY <4>1, <4>2, ShortCats
    <3>2. LanesOf(m, q) = <<f, Lane(d, signal(d))>>
      BY <1>3, <2>5, <3>1, ShortCats
    <3>3. PICK ds : ds = <<c, d>>
      OBVIOUS
    <3>4. IsOrder(ds, q)
      <4>1. Lists(ds, 2) /\ ds[1] = c /\ ds[2] = d /\ ToSet(ds) = {c, d}
        BY <3>3, ShortLists DEF ToSet
      <4>2. \A k, l \in 1..2 : ds[k] = ds[l] => k = l
        BY <2>6, <4>1
      <4> QED
        BY <2>2, <2>3, <2>6, <4>1, <4>2 DEF IsOrder
    <3>5. PICK g : g = [k \in 1..2 |-> Lane(ds[k], LaneSignal(m, q, k, ds[k]))]
      OBVIOUS
    <3>6. g = <<f, Lane(d, signal(d))>>
      <4>1. g[1] = f
        BY <1>1, <2>6, <3>3, <3>5 DEF LaneSignal
      <4>2. g[2] = Lane(d, signal(d))
        BY <3>3, <3>5 DEF LaneSignal
      <4> QED
        BY <3>5, <4>1, <4>2
    <3> QED
      BY <2>2, <3>2, <3>4, <3>5, <3>6 DEF HasOrder
  <2>7. q.firstDim = a \/ q.firstDim = b
    BY <2>3
  <2> QED
    BY <2>2, <2>6, <2>7
<1>5. ASSUME Lists(q.drilldowns, 3), q.drilldowns[1] # q.drilldowns[2],
             q.drilldowns[1] # q.drilldowns[3], q.drilldowns[2] # q.drilldowns[3]
      PROVE  HasOrder(m, q)
  <2>1. PICK a, b, c : a = q.drilldowns[1] /\ b = q.drilldowns[2] /\ c = q.drilldowns[3]
    OBVIOUS
  <2>2. Len(q.drilldowns) = 3 /\ DOMAIN q.drilldowns = 1..3 /\ a # b /\ a # c /\ b # c
    BY <1>5, <2>1, ListsLength
  <2>3. ToSet(q.drilldowns) = {a, b, c}
    BY <2>1, <2>2 DEF ToSet
  <2>4. Lists(seqs, 3) /\ seqs[1] = other(a) /\ seqs[2] = other(b) /\ seqs[3] = other(c)
    BY <1>2, <2>1, <2>2 DEF Lists
  <2>5. FlattenSeq(seqs) = Cat(Cat(other(a), other(b)), other(c))
    BY <2>4, FlattenedPairs
  <2>6. ASSUME NEW x, NEW y, {q.firstDim, x, y} = {a, b, c}, q.firstDim # x,
               q.firstDim # y, x # y,
               Cat(Cat(other(a), other(b)), other(c)) = <<Lane(x, signal(x)), Lane(y, signal(y))>>
        PROVE  HasOrder(m, q)
    <3>1. LanesOf(m, q) = <<f, Lane(x, signal(x)), Lane(y, signal(y))>>
      <4>1. PICK g, h : g = Lane(x, signal(x)) /\ h = Lane(y, signal(y))
        OBVIOUS
      <4>2. FlattenSeq(seqs) = <<g, h>>
        BY <2>5, <2>6, <4>1
      <4>3. Cat(<<f>>, <<g, h>>) = <<f, g, h>>
        BY ShortCats
      <4> QED
        BY <1>3, <4>1, <4>2, <4>3
    <3>2. PICK ds : ds = <<q.firstDim, x, y>>
      OBVIOUS
    <3>3. IsOrder(ds, q)
      <4>1. Lists(ds, 3) /\ ds[1] = q.firstDim /\ ds[2] = x /\ ds[3] = y
        BY <3>2 DEF Lists
      <4>2. ToSet(ds) = {q.firstDim, x, y}
        BY <3>2 DEF ToSet
      <4>3. \A k, l \in 1..3 : ds[k] = ds[l] => k = l
        BY <2>6, <4>1
      <4> QED
        BY <2>2, <2>3, <2>6, <4>1, <4>2, <4>3 DEF IsOrder
    <3>4. PICK g : g = [k \in 1..3 |-> Lane(ds[k], LaneSignal(m, q, k, ds[k]))]
      OBVIOUS
    <3>5. g = <<f, Lane(x, signal(x)), Lane(y, signal(y))>>
      <4>1. g[1] = f
        BY <1>1, <3>2, <3>4 DEF LaneSignal
      <4>2. g[2] = Lane(x, signal(x))
        BY <3>2, <3>4 DEF LaneSignal
      <4>3. g[3] = Lane(y, signal(y))
        BY <3>2, <3>4 DEF LaneSignal
      <4> QED
        BY <3>4, <4>1, <4>2, <4>3
    <3> QED
      BY <2>2, <3>1, <3>3, <3>4, <3>5 DEF HasOrder
  <2>7. \A d : d # q.firstDim => other(d) = <<Lane(d, signal(d))>>
    OBVIOUS
  <2>8. other(q.firstDim) = <<>>
    OBVIOUS
  <2> HIDE DEF other, signal
  <2>9. CASE q.firstDim = a
    <3>1. Cat(Cat(other(a), other(b)), other(c)) = <<Lane(b, signal(b)), Lane(c, signal(c))>>
      BY <2>2, <2>7, <2>8, <2>9, ShortCats
    <3> QED
      BY <2>2, <2>6, <2>9, <3>1
  <2>10. CASE q.firstDim = b
    <3>1. Cat(Cat(other(a), other(b)), other(c)) = <<Lane(a, signal(a)), Lane(c, signal(c))>>
      BY <2>2, <2>7, <2>8, <2>10, ShortCats
    <3>2. {b, a, c} = {a, b, c}
      OBVIOUS
    <3> QED
      BY <2>2, <2>6, <2>10, <3>1, <3>2
  <2>11. CASE q.firstDim = c
    <3>1. Cat(Cat(other(a), other(b)), other(c)) = <<Lane(a, signal(a)), Lane(b, signal(b))>>
      <4>1. Cat(other(a), other(b)) = <<Lane(a, signal(a)), Lane(b, signal(b))>>
        BY <2>2, <2>7, <2>11, ShortCats
      <4>2. PICK p, o : /\ p = <<Lane(a, signal(a)), Lane(b, signal(b))>> /\ o = <<>>
                        /\ Lists(p, 2) /\ Lists(o, 0)
        BY ShortLists
      <4>3. Lists(Cat(p, o), 2 + 0) /\ \A k \in 1..2 : Cat(p, o)[k] = p[k]
        BY <4>2, Joined
      <4>4. Cat(p, o) = p
        BY <4>2, <4>3 DEF Lists
      <4> QED
        BY <2>8, <2>11, <4>1, <4>2, <4>4
    <3>2. {c, a, b} = {a, b, c}
      OBVIOUS
    <3> QED
      BY <2>2, <2>6, <2>11, <3>1, <3>2
  <2> QED
    BY <2>3, <2>9, <2>10, <2>11
<1> QED
  BY <1>4, <1>5

(* Lanes of different dimensions, which are drilled already.               *)
AreOpenLanes(lanes, ds, n) ==
  /\ Lists(ds, n) /\ Lists(lanes, n)
  /\ \A k \in 1..n : ds[k] \in DrilledDims /\ \E x : lanes[k] = Lane(ds[k], x)
  /\ \A k, l \in 1..n : ds[k] = ds[l] => k = l

AreDrilled(C, ds, n) ==
  /\ E1 \in C
  /\ \A k \in 1..n : E2Alias(ds[k]) \in C /\ C \cap LaneProduces(ds[k]) = {}

MadeOf(chains, ds, n) ==
  \A a \in Produced(chains) : \E k \in 1..n : a \in LaneProduces(ds[k])

LEMMA ChainsFit ==
  ASSUME NEW i, NEW n \in {2, 3}, NEW ds, NEW lanes, AreOpenLanes(lanes, ds, n),
         NEW C, AreDrilled(C, ds, n),
         NEW filters, NEW chains, chains = LaneChains(i, lanes, NoFilters, filters, NoFilters)
  PROVE  FitsAfter(C, chains) /\ MadeOf(chains, ds, n)
<1> USE DEF AreOpenLanes, AreDrilled, MadeOf
<1>1. PICK seqs : seqs = [k \in DOMAIN lanes |->
        LaneActions(i, lanes[k], LaneElement(lanes[k], NoFilters, NoFilters),
                    filters[lanes[k].dim], NoFilters)]
  OBVIOUS
<1>2. Lists(seqs, n) /\ DOMAIN lanes = 1..n
  BY <1>1 DEF Lists
<1>3. chains = FlattenSeq(seqs)
  BY <1>1 DEF LaneChains
<1>4. ASSUME NEW k \in 1..n, NEW D, E1 \in D, E2Alias(ds[k]) \in D, D \cap LaneProduces(ds[k]) = {}
      PROVE  FitsAfter(D, seqs[k]) /\ Produced(seqs[k]) = LaneProduces(ds[k])
  <2>1. PICK x : lanes[k] = Lane(ds[k], x)
    OBVIOUS
  <2>2. LaneElement(lanes[k], NoFilters, NoFilters) = NoValue
    BY <2>1 DEF LaneElement, Lane, NoFilters
  <2>3. PICK g : g = filters[lanes[k].dim]
    OBVIOUS
  <2>4. seqs[k] = LaneActions(i, Lane(ds[k], x), NoValue, g, NoFilters)
    BY <1>1, <1>2, <2>1, <2>2, <2>3
  <2> QED
    BY <1>4, <2>4, OpenLaneFits
<1>5. \A k, l \in 1..n : k # l => LaneProduces(ds[k]) \cap LaneProduces(ds[l]) = {}
  BY AliasesApart
<1>6. 1 \in 1..n /\ 2 \in 1..n
  OBVIOUS
<1>7. PICK a, b, D : a = seqs[1] /\ b = seqs[2] /\ D = C \cup Produced(a)
  OBVIOUS
<1>8. FitsAfter(C, a) /\ Produced(a) = LaneProduces(ds[1])
  BY <1>4, <1>6, <1>7
<1>9. FitsAfter(D, b) /\ Produced(b) = LaneProduces(ds[2])
  <2>1. E1 \in D /\ E2Alias(ds[2]) \in D /\ D \cap LaneProduces(ds[2]) = {}
    BY <1>5, <1>6, <1>7, <1>8
  <2> QED
    BY <1>4, <1>6, <1>7, <2>1
<1>10. /\ FitsAfter(C, Cat(a, b))
       /\ Produced(Cat(a, b)) = LaneProduces(ds[1]) \cup LaneProduces(ds[2])
  <2>1. FitsAfter(C, Cat(a, b)) /\ Produced(Cat(a, b)) = Produced(a) \cup Produced(b)
    BY <1>7, <1>8, <1>9, FittingJoined
  <2> QED
    BY <1>8, <1>9, <2>1
<1>11. CASE n = 2
  <2>1. chains = Cat(a, b)
    BY <1>2, <1>3, <1>7, <1>11, FlattenedPairs
  <2>2. 1..n = {1, 2}
    BY <1>11
  <2> QED
    BY <1>10, <2>1, <2>2
<1>12. CASE n = 3
  <2>1. PICK c, p, E : c = seqs[3] /\ p = Cat(a, b) /\ E = C \cup Produced(p)
    OBVIOUS
  <2>2. chains = Cat(p, c)
    BY <1>2, <1>3, <1>7, <1>12, <2>1, FlattenedPairs
  <2>3. 3 \in 1..n /\ 1..n = {1, 2, 3}
    BY <1>12
  <2>4. FitsAfter(E, c) /\ Produced(c) = LaneProduces(ds[3])
    <3>1. E1 \in E /\ E2Alias(ds[3]) \in E /\ E \cap LaneProduces(ds[3]) = {}
      BY <1>5, <1>6, <1>10, <2>1, <2>3
    <3> QED
      BY <1>4, <2>1, <2>3, <3>1
  <2>5. FitsAfter(C, Cat(p, c)) /\ Produced(Cat(p, c)) = Produced(p) \cup Produced(c)
    BY <1>10, <2>1, <2>4, FittingJoined
  <2> QED
    BY <1>10, <2>1, <2>2, <2>3, <2>4, <2>5
<1> QED
  BY <1>11, <1>12

LEMMA DrilldownsFit ==
  ASSUME NEW i, NEW q, NEW n \in Nat, Lists(q.drilldowns, n),
         \A k \in 1..n : q.drilldowns[k] \in DrilledDims,
         \A k, l \in 1..n : q.drilldowns[k] = q.drilldowns[l] => k = l,
         NEW filters, NEW s, s = Drilldowns(i, q, filters)
  PROVE  FitsAfter({E1}, s) /\ Produced(s) = {E2Alias(d) : d \in ToSet(q.drilldowns)}
<1>1. DOMAIN q.drilldowns = 1..n
  BY ListsLength
<1>2. DOMAIN s = 1..n /\ IsSequence(s)
  <2>1. DOMAIN s = 1..n /\ Lists(s, n)
    BY <1>1 DEF Drilldowns, Lists
  <2> QED
    BY <2>1, SequencesAreLists
<1>3. ASSUME NEW k \in 1..n
      PROVE  /\ s[k].kind = "drilldown_dimension" /\ s[k].produces = E2Alias(q.drilldowns[k])
             /\ ToSet(s[k].requires) = {E1}
  <2>1. PICK d, f : d = q.drilldowns[k] /\ f = filters[d]
    OBVIOUS
  <2>2. s[k] = DrilldownAction(i, d, f)
    BY <1>1, <2>1 DEF Drilldowns
  <2>3. /\ s[k].kind = "drilldown_dimension" /\ s[k].produces = E2Alias(d)
        /\ s[k].requires = <<E1>>
    BY <2>2 DEF DrilldownAction, Action
  <2> QED
    BY <2>1, <2>3 DEF ToSet
<1>4. \A k \in 1..n : E2Alias(q.drilldowns[k]) # E1 /\ IsSequence(E2Alias(q.drilldowns[k]))
  BY AliasesOfDims, AliasesApart
<1>5. \A k, l \in 1..n : E2Alias(q.drilldowns[k]) = E2Alias(q.drilldowns[l]) => k = l
  BY AliasesApart
<1>6. FitsAfter({E1}, s)
  <2>1. ASSUME NEW k \in DOMAIN s
        PROVE  /\ IsSequence(s[k].produces) /\ s[k].produces \notin {E1}
               /\ ToSet(s[k].requires) \subseteq {E1}
               /\ s[k].kind \notin {"merge_contribution_sets", "rank_root_causes"}
    BY <1>2, <1>3, <1>4
  <2>2. \A k, l \in DOMAIN s : s[k].produces = s[l].produces => k = l
    BY <1>2, <1>3, <1>5
  <2> QED
    BY <1>2, <2>1, <2>2 DEF FitsAfter
<1>7. Produced(s) = {E2Alias(d) : d \in ToSet(q.drilldowns)}
  BY <1>1, <1>2, <1>3 DEF Produced, ToSet
<1> QED
  BY <1>6, <1>7

(* The drilldowns of a sequence of actions, each with its place.           *)
DrilledAt(s) == {<<n, s[n]>> : n \in {m \in DOMAIN s : s[m].kind = "drilldown_dimension"}}

LEMMA NothingDrilled ==
  ASSUME NEW s, \A a \in ToSet(s) : a.kind # "drilldown_dimension"
  PROVE  DrilledAt(s) = {}
BY DEF DrilledAt, ToSet

(* They are told by those of the parts.                                    *)
LEMMA DrilledJoined ==
  ASSUME NEW s, IsSequence(s), NEW t, IsSequence(t)
  PROVE  DrilledAt(Cat(s, t)) = DrilledAt(s) \cup {<<Len(s) + x[1], x[2]>> : x \in DrilledAt(t)}
<1>1. PICK m \in Nat, n \in Nat : /\ Lists(s, m) /\ DOMAIN s = 1..m /\ Len(s) = m
                                  /\ Lists(t, n) /\ DOMAIN t = 1..n
  BY SequencesAreLists
<1>2. PICK u : u = Cat(s, t)
  OBVIOUS
<1>3. /\ Lists(u, m + n)
      /\ \A k \in 1..m : u[k] = s[k]
      /\ \A k \in 1..n : u[m + k] = t[k]
  BY <1>1, <1>2, Joined
<1>4. DOMAIN u = 1..(m + n)
  <2>1. m + n \in Nat
    OBVIOUS
  <2> QED
    BY <1>3, <2>1, ListsLength
<1>5. ASSUME NEW k \in 1..(m + n)
      PROVE  k \in 1..m \/ \E l \in 1..n : k = m + l
  <2>1. k \notin 1..m => k - m \in 1..n /\ k = m + (k - m)
    OBVIOUS
  <2> QED
    BY <2>1
<1>6. /\ \A k \in 1..m : k \in 1..(m + n)
      /\ \A l \in 1..n : m + l \in 1..(m + n)
  OBVIOUS
<1> DEFINE moved == {<<m + x[1], x[2]>> : x \in DrilledAt(t)}
<1>7. ASSUME NEW k \in DOMAIN u, u[k].kind = "drilldown_dimension"
      PROVE  <<k, u[k]>> \in DrilledAt(s) \cup moved
  <2>1. CASE k \in 1..m
    BY <1>1, <1>3, <1>7, <2>1 DEF DrilledAt
  <2>2. ASSUME NEW l \in 1..n, k = m + l PROVE <<k, u[k]>> \in moved
    <3>1. u[k] = t[l] /\ t[l].kind = "drilldown_dimension"
      BY <1>3, <1>7, <2>2
    <3>2. PICK x : x = <<l, t[l]>>
      OBVIOUS
    <3>3. x \in DrilledAt(t)
      BY <1>1, <3>1, <3>2 DEF DrilledAt
    <3>4. <<m + x[1], x[2]>> = <<k, u[k]>>
      BY <2>2, <3>1, <3>2
    <3> QED
      BY <3>3, <3>4
  <2> QED
    BY <1>4, <1>5, <2>1, <2>2
<1>8. DrilledAt(s) \subseteq DrilledAt(u)
  <2> SUFFICES ASSUME NEW k \in 1..m, s[k].kind = "drilldown_dimension"
               PROVE  <<k, s[k]>> \in DrilledAt(u)
    BY <1>1 DEF DrilledAt
  <2>1. k \in DOMAIN u /\ u[k] = s[k]
    BY <1>3, <1>4, <1>6
  <2> QED
    BY <2>1 DEF DrilledAt
<1>9. moved \subseteq DrilledAt(u)
  <2> SUFFICES ASSUME NEW x \in DrilledAt(t) PROVE <<m + x[1], x[2]>> \in DrilledAt(u)
    OBVIOUS
  <2>1. PICK l \in 1..n : x = <<l, t[l]>> /\ t[l].kind = "drilldown_dimension"
    BY <1>1 DEF DrilledAt
  <2>2. m + l \in DOMAIN u /\ u[m + l] = t[l]
    BY <1>3, <1>4, <1>6
  <2>3. <<m + l, u[m + l]>> \in DrilledAt(u)
    BY <2>1, <2>2 DEF DrilledAt
  <2>4. x[1] = l /\ x[2] = u[m + l]
    BY <2>1, <2>2
  <2> QED
    BY <2>3, <2>4
<1>20. DrilledAt(u) \subseteq DrilledAt(s) \cup moved
  BY <1>7 DEF DrilledAt
<1> QED
  BY <1>1, <1>2, <1>8, <1>9, <1>20

(* The aliases that the merge and the rank require are those of the        *)
(* chains.                                                                 *)
LEMMA MadeByChains ==
  ASSUME NEW chains, IsSequence(chains), NEW kind, NEW made,
         made = FlattenSeq([k \in DOMAIN chains |->
                  IF chains[k].kind = kind THEN <<chains[k].produces>> ELSE <<>>])
  PROVE  IsSequence(made) /\ ToSet(made) \subseteq Produced(chains)
<1>1. PICK n \in Nat : DOMAIN chains = 1..n
  BY SequencesAreLists
<1>2. PICK seqs : seqs = [k \in 1..n |->
        IF chains[k].kind = kind THEN <<chains[k].produces>> ELSE <<>>]
  OBVIOUS
<1>3. Lists(seqs, n) /\ \A k \in 1..n : IsSequence(seqs[k])
  <2>1. IsSequence(<<>>) /\ \A x : IsSequence(<<x>>)
    BY ShortLists, SequencesAreLists
  <2> QED
    BY <1>2, <2>1 DEF Lists
<1>4. made = FlattenSeq(seqs)
  BY <1>1, <1>2
<1>5. \A k \in 1..n : ToSet(seqs[k]) \subseteq {chains[k].produces}
  BY <1>2 DEF ToSet
<1>6. ASSUME NEW x \in ToSet(made) PROVE x \in Produced(chains)
  <2>1. PICK k \in 1..n : x \in ToSet(seqs[k])
    BY <1>3, <1>4, FlattenedIsSequence
  <2> QED
    BY <1>1, <1>5, <2>1 DEF Produced
<1> QED
  BY <1>3, <1>4, <1>6, FlattenedIsSequence

LEMMA MergeAndRankFit ==
  ASSUME NEW i, NEW q, IsSequence(q.drilldowns), NEW chains, IsSequence(chains),
         NEW C, E1 \in C, \A d \in ToSet(q.drilldowns) : E2Alias(d) \in C,
         Produced(chains) \subseteq C, E4 \notin C, ERank \notin C
  PROVE  /\ FitsAfter(C, MergeAndRank(i, q, chains))
         /\ \A a \in ToSet(MergeAndRank(i, q, chains)) : a.kind # "drilldown_dimension"
<1> DEFINE made(kind) == FlattenSeq([k \in DOMAIN chains |->
             IF chains[k].kind = kind THEN <<chains[k].produces>> ELSE <<>>])
<1>1. \A kind : IsSequence(made(kind)) /\ ToSet(made(kind)) \subseteq C
  BY MadeByChains
<1>2. PICK selected, fetched, e4s :
        /\ selected = made("select_signal_element")
        /\ fetched = made("fetch_related_signal")
        /\ e4s = made("calculate_contribution")
  OBVIOUS
<1>3. /\ IsSequence(selected) /\ ToSet(selected) \subseteq C
      /\ IsSequence(fetched) /\ ToSet(fetched) \subseteq C
      /\ IsSequence(e4s) /\ ToSet(e4s) \subseteq C
  BY <1>1, <1>2
<1>4. PICK drilled : drilled = [k \in DOMAIN q.drilldowns |-> E2Alias(q.drilldowns[k])]
  OBVIOUS
<1>5. IsSequence(drilled) /\ ToSet(drilled) \subseteq C
  <2>1. PICK n \in Nat : DOMAIN q.drilldowns = 1..n
    BY SequencesAreLists
  <2>2. Lists(drilled, n)
    BY <1>4, <2>1 DEF Lists
  <2>3. ToSet(drilled) \subseteq C
    BY <1>4 DEF ToSet
  <2> QED
    BY <2>2, <2>3, SequencesAreLists
<1>6. PICK one, four : one = <<E1>> /\ four = <<E4>>
  OBVIOUS
<1>7. IsSequence(one) /\ ToSet(one) = {E1} /\ IsSequence(four) /\ ToSet(four) = {E4}
  BY <1>6, ShortLists, SequencesAreLists DEF ToSet
<1>8. PICK all : all = Cat(Cat(Cat(Cat(Cat(one, drilled), selected), fetched), e4s), four)
  OBVIOUS
<1>9. ToSet(all) \subseteq C \cup {E4}
  BY <1>3, <1>5, <1>7, <1>8, SequencesJoined
<1>10. PICK merge, rank :
         /\ merge = Action("merge_contribution_sets", i.metric, i.date, e4s, E4)
         /\ rank = RankAction(i, all)
  OBVIOUS
<1>11. MergeAndRank(i, q, chains) = <<merge, rank>>
  BY <1>2, <1>4, <1>6, <1>8, <1>10 DEF MergeAndRank, Cat
<1>12. /\ merge.kind = "merge_contribution_sets" /\ merge.requires = e4s /\ merge.produces = E4
       /\ rank.kind = "rank_root_causes" /\ rank.requires = all /\ rank.produces = ERank
  BY <1>10 DEF RankAction, Action
<1>13. PICK s, t, D : s = <<merge>> /\ t = <<rank>> /\ D = C \cup {E4}
  OBVIOUS
<1>14. FitsAfter(C, s) /\ Produced(s) = {E4}
  BY <1>3, <1>12, <1>13, AliasesOfDims, FittingOne
<1>15. FitsAfter(D, t)
  BY <1>9, <1>12, <1>13, AliasesOfDims, AliasesApart, FittingOne
<1>16. FitsAfter(C, Cat(s, t))
  BY <1>13, <1>14, <1>15, FittingJoined
<1>17. Cat(s, t) = <<merge, rank>>
  BY <1>13, ShortCats
<1>18. ToSet(<<merge, rank>>) = {merge, rank}
  BY DEF ToSet
<1> QED
  BY <1>11, <1>12, <1>16, <1>17, <1>18

Unfiltered(q) == [d \in ToSet(q.drilldowns) |-> NoFilters]

(* Only the drilldowns of a broad plan drill.                              *)
LEMMA BroadDrills ==
  ASSUME NEW i, NEW q, HasSequences(q), Len(q.drilldowns) > 1
  PROVE  /\ IsSequence(BroadActions(i, q))
         /\ DrilledAt(BroadActions(i, q)) = DrilledAt(Drilldowns(i, q, Unfiltered(q)))
<1>1. PICK s : s = Drilldowns(i, q, Unfiltered(q))
  OBVIOUS
<1>2. PICK lanes : lanes = LanesOf(i.metric, q)
  OBVIOUS
<1>3. PICK chains : chains = LaneChains(i, lanes, NoFilters, Unfiltered(q), NoFilters)
  OBVIOUS
<1>4. PICK t : t = MergeAndRank(i, q, chains)
  OBVIOUS
<1>5. BroadActions(i, q) = Cat(s, Cat(chains, t))
  BY <1>1, <1>2, <1>3, <1>4 DEF BroadActions, Unfiltered, WithMergeAndRank, Cat
<1>6. IsSequence(s)
  BY <1>1, DrilldownsAreSteps DEF HasSequences, AreSteps
<1>7. IsSequence(chains) /\ \A a \in ToSet(chains) : a.kind # "drilldown_dimension"
  <2>1. IsSequence(lanes)
    BY <1>2, LanesAreSequence DEF HasSequences
  <2> QED
    BY <1>3, <2>1, ChainsDrillNothing
<1>8. IsSequence(t) /\ \A a \in ToSet(t) : a.kind # "drilldown_dimension"
  <2>1. PICK r, u, merge, rank :
          /\ merge = Action("merge_contribution_sets", i.metric, i.date, r, E4)
          /\ rank = RankAction(i, u) /\ t = <<merge, rank>>
    BY <1>4 DEF MergeAndRank
  <2>2. merge.kind # "drilldown_dimension" /\ rank.kind # "drilldown_dimension"
    BY <2>1 DEF RankAction, Action
  <2>3. IsSequence(t) /\ ToSet(t) = {merge, rank}
    BY <2>1, ShortLists, SequencesAreLists DEF ToSet
  <2> QED
    BY <2>2, <2>3
<1>9. IsSequence(Cat(chains, t)) /\ DrilledAt(Cat(chains, t)) = {}
  <2>1. IsSequence(Cat(chains, t)) /\ ToSet(Cat(chains, t)) = ToSet(chains) \cup ToSet(t)
    BY <1>7, <1>8, SequencesJoined
  <2>2. \A a \in ToSet(Cat(chains, t)) : a.kind # "drilldown_dimension"
    BY <1>7, <1>8, <2>1
  <2> QED
    BY <2>1, <2>2, NothingDrilled
<1>10. PICK tail : tail = Cat(chains, t)
  OBVIOUS
<1>11. IsSequence(Cat(s, tail)) /\ DrilledAt(Cat(s, tail)) = DrilledAt(s)
  <2>1. DrilledAt(Cat(s, tail)) = DrilledAt(s) \cup {<<Len(s) + x[1], x[2]>> : x \in {}}
    BY <1>6, <1>9, <1>10, DrilledJoined
  <2>2. IsSequence(Cat(s, tail))
    BY <1>6, <1>9, <1>10, SequencesJoined
  <2> QED
    BY <2>1, <2>2
<1> QED
  BY <1>1, <1>5, <1>10, <1>11

(* A policy of two or three dimensions without lanes of its own, however   *)
(* its first dimension was chosen, makes a valid plan.                     *)
IsOpen(q, n) ==
  /\ Lists(q.drilldowns, n)
  /\ \A k \in 1..n : q.drilldowns[k] \in DrilledDims
  /\ \A k, l \in 1..n : q.drilldowns[k] = q.drilldowns[l] => k = l
  /\ q.lanes = <<>> /\ q.firstDim \in ToSet(q.drilldowns)

LEMMA OpenLanes ==
  ASSUME NEW m, NEW n \in {2, 3}, NEW q, IsOpen(q, n), NEW lanes, lanes = LanesOf(m, q)
  PROVE  \E ds : /\ Lists(ds, n) /\ ds[1] = q.firstDim /\ ToSet(ds) = ToSet(q.drilldowns)
                 /\ \A k, l \in 1..n : ds[k] = ds[l] => k = l
                 /\ Lists(lanes, n)
                 /\ \A k \in 1..n : lanes[k] = Lane(ds[k], LaneSignal(m, q, k, ds[k]))
<1>1. Len(q.drilldowns) = n
  BY ListsLength DEF IsOpen
<1>2. HasOrder(m, q)
  <2>1. CASE n = 2
    <3>1. 1 \in 1..n /\ 2 \in 1..n
      BY <2>1
    <3>2. q.drilldowns[1] # q.drilldowns[2]
      BY <3>1 DEF IsOpen
    <3> QED
      BY <2>1, <3>2, DefaultLanes DEF IsOpen
  <2>2. CASE n = 3
    <3>1. 1 \in 1..n /\ 2 \in 1..n /\ 3 \in 1..n
      BY <2>2
    <3>2. /\ q.drilldowns[1] # q.drilldowns[2] /\ q.drilldowns[1] # q.drilldowns[3]
          /\ q.drilldowns[2] # q.drilldowns[3]
      BY <3>1 DEF IsOpen
    <3> QED
      BY <2>2, <3>2, DefaultLanes DEF IsOpen
  <2> QED
    BY <2>1, <2>2
<1>3. PICK ds : /\ IsOrder(ds, q)
                /\ LanesOf(m, q)
                     = [k \in 1..Len(q.drilldowns) |-> Lane(ds[k], LaneSignal(m, q, k, ds[k]))]
  BY <1>2 DEF HasOrder
<1>4. lanes = [k \in 1..n |-> Lane(ds[k], LaneSignal(m, q, k, ds[k]))]
  BY <1>1, <1>3
<1>5. Lists(lanes, n) /\ \A k \in 1..n : lanes[k] = Lane(ds[k], LaneSignal(m, q, k, ds[k]))
  BY <1>4 DEF Lists
<1> QED
  BY <1>1, <1>3, <1>5 DEF IsOrder

LEMMA BroadIsValid ==
  ASSUME NEW i, NEW n \in {2, 3}, NEW q, IsOpen(q, n), NEW detect,
         detect.kind = "detect_anomaly", detect.produces = E1, detect.requires = <<>>
  PROVE  PlanIsValid(Cat(<<detect>>, BroadActions(i, q)))
<1>1. PICK m, lanes : m = i.metric /\ lanes = LanesOf(m, q)
  OBVIOUS
<1>4. PICK ds : /\ Lists(ds, n) /\ ToSet(ds) = ToSet(q.drilldowns)
                /\ \A k, l \in 1..n : ds[k] = ds[l] => k = l
                /\ Lists(lanes, n)
                /\ \A k \in 1..n : lanes[k] = Lane(ds[k], LaneSignal(m, q, k, ds[k]))
  <2>1. \E ds : /\ Lists(ds, n) /\ ds[1] = q.firstDim /\ ToSet(ds) = ToSet(q.drilldowns)
                /\ \A k, l \in 1..n : ds[k] = ds[l] => k = l
                /\ Lists(lanes, n)
                /\ \A k \in 1..n : lanes[k] = Lane(ds[k], LaneSignal(m, q, k, ds[k]))
    BY <1>1, OpenLanes
  <2> QED
    BY <2>1
<1>2. PICK one : one = <<detect>>
  OBVIOUS
<1>3. PICK filters, s : filters = Unfiltered(q) /\ s = Drilldowns(i, q, filters)
  OBVIOUS
<1>5. PICK chains : chains = LaneChains(i, lanes, NoFilters, filters, NoFilters)
  OBVIOUS
<1>6. PICK t : t = MergeAndRank(i, q, chains)
  OBVIOUS
<1>7. BroadActions(i, q) = Cat(s, Cat(chains, t))
  <2>1. Len(q.drilldowns) > 1
    BY ListsLength DEF IsOpen
  <2> QED
    BY <1>1, <1>3, <1>5, <1>6, <2>1 DEF BroadActions, Unfiltered, WithMergeAndRank, Cat
<1>8. /\ DOMAIN ds = 1..n /\ DOMAIN q.drilldowns = 1..n /\ IsSequence(q.drilldowns)
      /\ ToSet(q.drilldowns) \subseteq DrilledDims
      /\ \A k \in 1..n : ds[k] \in ToSet(q.drilldowns)
  <2>1. n \in Nat
    OBVIOUS
  <2>2. DOMAIN ds = 1..n /\ DOMAIN q.drilldowns = 1..n /\ IsSequence(q.drilldowns)
    BY <1>4, <2>1, ListsLength, SequencesAreLists DEF IsOpen
  <2>3. ToSet(q.drilldowns) \subseteq DrilledDims
    BY <2>2 DEF IsOpen, ToSet
  <2>4. \A k \in 1..n : ds[k] \in ToSet(ds)
    BY <2>2 DEF ToSet
  <2> QED
    BY <1>4, <2>2, <2>3, <2>4
<1>9. FitsAfter({}, one) /\ Produced(one) = {E1}
  <2>1. ToSet(detect.requires) \subseteq {}
    BY DEF ToSet
  <2> QED
    BY <1>2, <2>1, AliasesOfDims, FittingOne
<1>10. FitsAfter({E1}, s) /\ Produced(s) = {E2Alias(d) : d \in ToSet(q.drilldowns)}
  <2>1. n \in Nat
    OBVIOUS
  <2> QED
    BY <1>3, <2>1, DrilldownsFit DEF IsOpen
<1>11. PICK C : C = {E1} \cup Produced(s)
  OBVIOUS
<1>12. /\ E1 \in C /\ E4 \notin C /\ ERank \notin C
       /\ \A d \in ToSet(q.drilldowns) : E2Alias(d) \in C /\ C \cap LaneProduces(d) = {}
  BY <1>8, <1>10, <1>11, AliasesApart
<1>13. FitsAfter(C, chains) /\ MadeOf(chains, ds, n)
  <2>1. AreOpenLanes(lanes, ds, n)
    BY <1>4, <1>8 DEF AreOpenLanes
  <2>2. AreDrilled(C, ds, n)
    BY <1>8, <1>12 DEF AreDrilled
  <2> QED
    BY <1>5, <2>1, <2>2, ChainsFit
<1>14. PICK D : D = C \cup Produced(chains)
  OBVIOUS
<1>15. FitsAfter(D, t)
  <2>1. \A k \in 1..n : E4 \notin LaneProduces(ds[k]) /\ ERank \notin LaneProduces(ds[k])
    BY <1>8, AliasesApart
  <2>2. E4 \notin D /\ ERank \notin D
    BY <1>12, <1>13, <1>14, <2>1 DEF MadeOf
  <2>3. IsSequence(chains)
    BY <1>13 DEF FitsAfter
  <2> QED
    BY <1>6, <1>8, <1>12, <1>14, <2>2, <2>3, MergeAndRankFit
<1>16. FitsAfter(C, Cat(chains, t))
  BY <1>13, <1>14, <1>15, FittingJoined
<1>17. FitsAfter({E1}, Cat(s, Cat(chains, t)))
  BY <1>10, <1>11, <1>16, FittingJoined
<1>18. PICK rest, B : rest = Cat(s, Cat(chains, t)) /\ B = {} \cup Produced(one)
  OBVIOUS
<1>19. FitsAfter({}, Cat(one, rest))
  <2>1. B = {E1}
    BY <1>9, <1>18
  <2>2. FitsAfter(B, rest)
    BY <1>17, <1>18, <2>1
  <2> QED
    BY <1>9, <1>18, <2>2, FittingJoined
<1> QED
  BY <1>2, <1>7, <1>18, <1>19, FittingIsValid

(* A metric and a dimension have a signal when the policies without a root *)
(* cause, or else all of them, agree on it.                                *)
LEMMA AgreedSignal ==
  ASSUME NEW m, NEW d, NEW x, NEW c, <<m, d, c, x>> \in SignalPolicies,
         c # NoValue => \A p \in SignalPolicies : p[1] = m /\ p[2] = d => p[3] # NoValue,
         \A p \in SignalPolicies :
           p[1] = m /\ p[2] = d /\ (c = NoValue => p[3] = NoValue) => p[4] = x
  PROVE  DefaultSignal(m, d) = x
<1> DEFINE all == {p \in SignalPolicies : p[1] = m /\ p[2] = d}
           general == {p \in all : p[3] = NoValue}
           used == IF general = {} THEN all ELSE general
           signals == {p[4] : p \in used}
<1>1. PICK t : t = <<m, d, c, x>>
  OBVIOUS
<1>2. t \in SignalPolicies /\ t[1] = m /\ t[2] = d /\ t[3] = c /\ t[4] = x
  BY <1>1
<1>3. t \in used /\ \A p \in used : p[4] = x
  <2>1. t \in all
    BY <1>2
  <2>2. CASE c = NoValue
    BY <1>2, <2>1, <2>2
  <2>3. CASE c # NoValue
    BY <1>2, <2>1, <2>3
  <2> QED
    BY <2>2, <2>3
<1>4. signals = {x}
  <2> HIDE DEF used
  <2> QED
    BY <1>2, <1>3
<1>5. DefaultSignal(m, d) = IF \E s \in signals : signals = {s} THEN CHOOSE s \in signals : TRUE
                            ELSE NoValue
  BY DEF DefaultSignal
<1> HIDE DEF signals
<1> QED
  BY <1>4, <1>5

LEMMA SignalsOfDrilled ==
  /\ DefaultSignal("uv", "channel") = "campaign"
  /\ DefaultSignal("uv", "category") = "interaction"
  /\ DefaultSignal("pay_cvr", "channel") = "conversion"
  /\ DefaultSignal("pay_cvr", "device") = "conversion"
  /\ DefaultSignal("refund_rate", "product") = "refund_quality"
  /\ DefaultSignal("net_gmv", "channel") = "campaign"
  /\ DefaultSignal("net_gmv", "category") = "inventory"
  /\ DefaultSignal("gmv", "channel") = "campaign"
  /\ DefaultSignal("gmv", "category") = "inventory"
  /\ DefaultSignal("gmv", "product") = "inventory"
<1>1. DefaultSignal("uv", "channel") = "campaign"
  <2>1. <<"uv", "channel", NoValue, "campaign">> \in SignalPolicies
    BY DEF SignalPolicies
  <2>2. \A p \in SignalPolicies : p[1] = "uv" /\ p[2] = "channel" /\ p[3] = NoValue => p[4] = "campaign"
    BY DEF SignalPolicies, NoValue
  <2> QED
    BY <2>1, <2>2, AgreedSignal
<1>2. DefaultSignal("uv", "category") = "interaction"
  <2>1. <<"uv", "category", "interaction", "interaction">> \in SignalPolicies
    BY DEF SignalPolicies
  <2>2. \A p \in SignalPolicies :
          p[1] = "uv" /\ p[2] = "category" => p[3] # NoValue /\ p[4] = "interaction"
    BY DEF SignalPolicies, NoValue
  <2>3. "interaction" # NoValue
    BY DEF NoValue
  <2> QED
    BY <2>1, <2>2, <2>3, AgreedSignal
<1>3. ASSUME NEW d \in {"channel", "device"} PROVE DefaultSignal("pay_cvr", d) = "conversion"
  <2>1. <<"pay_cvr", d, NoValue, "conversion">> \in SignalPolicies
    BY DEF SignalPolicies
  <2>2. \A p \in SignalPolicies : p[1] = "pay_cvr" /\ p[2] = d /\ p[3] = NoValue => p[4] = "conversion"
    BY DEF SignalPolicies, NoValue
  <2> QED
    BY <2>1, <2>2, AgreedSignal
<1>4. DefaultSignal("refund_rate", "product") = "refund_quality"
  <2>1. <<"refund_rate", "product", NoValue, "refund_quality">> \in SignalPolicies
    BY DEF SignalPolicies
  <2>2. \A p \in SignalPolicies :
          p[1] = "refund_rate" /\ p[2] = "product" /\ p[3] = NoValue => p[4] = "refund_quality"
    BY DEF SignalPolicies, NoValue
  <2> QED
    BY <2>1, <2>2, AgreedSignal
<1>5. ASSUME NEW m \in {"gmv", "net_gmv"} PROVE DefaultSignal(m, "channel") = "campaign"
  <2>1. <<m, "channel", NoValue, "campaign">> \in SignalPolicies
    BY DEF SignalPolicies
  <2>2. \A p \in SignalPolicies : p[1] = m /\ p[2] = "channel" /\ p[3] = NoValue => p[4] = "campaign"
    BY DEF SignalPolicies, NoValue
  <2> QED
    BY <2>1, <2>2, AgreedSignal
<1>6. ASSUME NEW m \in {"gmv", "net_gmv"} PROVE DefaultSignal(m, "category") = "inventory"
  <2>1. <<m, "category", NoValue, "inventory">> \in SignalPolicies
    BY DEF SignalPolicies
  <2>2. \A p \in SignalPolicies : p[1] = m /\ p[2] = "category" /\ p[3] = NoValue => p[4] = "inventory"
    BY DEF SignalPolicies, NoValue
  <2> QED
    BY <2>1, <2>2, AgreedSignal
<1>7. DefaultSignal("gmv", "product") = "inventory"
  <2>1. <<"gmv", "product", NoValue, "inventory">> \in SignalPolicies
    BY DEF SignalPolicies
  <2>2. \A p \in SignalPolicies : p[1] = "gmv" /\ p[2] = "product" /\ p[3] = NoValue => p[4] = "inventory"
    BY DEF SignalPolicies, NoValue
  <2> QED
    BY <2>1, <2>2, AgreedSignal
<1> QED
  BY <1>1, <1>2, <1>3, <1>4, <1>5, <1>6, <1>7

(* A policy of the registry that drills one dimension is what a hint would *)
(* make of it; one that drills several has a signal for each.              *)
DrillsOne(m, p) == \E d : p = Policy(<<d>>, d, DefaultSignal(m, d), <<>>)

DrillsMore(m, p) ==
  \E n \in {2, 3} :
    /\ Lists(p.drilldowns, n)
    /\ \A k \in 1..n : p.drilldowns[k] \in DrilledDims /\ DefaultSignal(m, p.drilldowns[k]) # NoValue
    /\ \A k, l \in 1..n : p.drilldowns[k] = p.drilldowns[l] => k = l

LEMMA BroadPolicies ==
  ASSUME NEW m, NEW f, NEW p, p = DiscoveryPolicy(m, f, "standard")
  PROVE  p = NoPolicy \/ DrillsOne(m, p) \/ DrillsMore(m, p)
<1>1. ASSUME NEW a \in DrilledDims, NEW b \in DrilledDims, a # b, p.drilldowns = <<a, b>>,
             DefaultSignal(m, a) # NoValue, DefaultSignal(m, b) # NoValue
      PROVE  DrillsMore(m, p)
  <2>1. Lists(p.drilldowns, 2) /\ p.drilldowns[1] = a /\ p.drilldowns[2] = b
    BY <1>1 DEF Lists
  <2>2. \A k \in 1..2 : k = 1 \/ k = 2
    OBVIOUS
  <2> QED
    BY <1>1, <2>1, <2>2 DEF DrillsMore
<1>2. ASSUME p.drilldowns = GmvDrilldowns, m = "gmv" PROVE DrillsMore(m, p)
  <2>1. /\ Lists(p.drilldowns, 3) /\ p.drilldowns[1] = "channel"
        /\ p.drilldowns[2] = "category" /\ p.drilldowns[3] = "product"
    BY <1>2 DEF GmvDrilldowns, Lists
  <2>2. \A k \in 1..3 : k = 1 \/ k = 2 \/ k = 3
    OBVIOUS
  <2>3. \A k \in 1..3 : p.drilldowns[k] \in DrilledDims /\ DefaultSignal(m, p.drilldowns[k]) # NoValue
    BY <1>2, <2>1, <2>2, SignalsOfDrilled DEF DrilledDims, NoValue
  <2>4. \A k, l \in 1..3 : p.drilldowns[k] = p.drilldowns[l] => k = l
    BY <2>1, <2>2
  <2> QED
    BY <2>1, <2>3, <2>4 DEF DrillsMore
<1>3. \A drilldowns, d, x, lanes : Policy(drilldowns, d, x, lanes).drilldowns = drilldowns
  BY DEF Policy
<1>4. \A drilldowns, d, x, lanes :
        [Policy(drilldowns, d, x, lanes)
           EXCEPT !.scopeMode = "explicit_multi_driver", !.scopeDims = {"channel"}].drilldowns
          = drilldowns
  BY DEF Policy
<1>5. /\ "channel" \in DrilledDims /\ "category" \in DrilledDims /\ "device" \in DrilledDims
      /\ "channel" # "category" /\ "channel" # "device"
      /\ \A x \in {"campaign", "interaction", "conversion", "inventory"} : x # NoValue
  BY DEF DrilledDims, NoValue
<1>6. CASE p = NoPolicy
  BY <1>6
<1>7. CASE m = "uv" /\ p.drilldowns = <<"channel", "category">>
  BY <1>1, <1>5, <1>7, SignalsOfDrilled
<1>8. CASE m = "uv" /\ p = Policy(<<"channel">>, "channel", "campaign", <<>>)
  BY <1>8, SignalsOfDrilled DEF DrillsOne
<1>9. CASE m = "pay_cvr" /\ p.drilldowns = <<"channel", "device">>
  BY <1>1, <1>5, <1>9, SignalsOfDrilled
<1>10. CASE m = "refund_rate" /\ p = Policy(<<"product">>, "product", "refund_quality", <<>>)
  BY <1>10, SignalsOfDrilled DEF DrillsOne
<1>11. CASE m \in {"gmv", "net_gmv"} /\ p.drilldowns = <<"channel", "category">>
  BY <1>1, <1>5, <1>11, SignalsOfDrilled
<1>12. CASE m = "gmv" /\ p.drilldowns = GmvDrilldowns
  BY <1>2, <1>12
<1>13. \/ p = NoPolicy
       \/ m = "uv" /\ p.drilldowns = <<"channel", "category">>
       \/ m = "uv" /\ p = Policy(<<"channel">>, "channel", "campaign", <<>>)
       \/ m = "pay_cvr" /\ p.drilldowns = <<"channel", "device">>
       \/ m = "refund_rate" /\ p = Policy(<<"product">>, "product", "refund_quality", <<>>)
       \/ m \in {"gmv", "net_gmv"} /\ p.drilldowns = <<"channel", "category">>
       \/ m = "gmv" /\ p.drilldowns = GmvDrilldowns
  BY <1>3, <1>4 DEF DiscoveryPolicy
<1> QED
  BY <1>6, <1>7, <1>8, <1>9, <1>10, <1>11, <1>12, <1>13

(* What the hints make of a policy, when they make another one.            *)
AreHints(h) == DOMAIN h \subseteq Nat /\ \A n \in DOMAIN h : DOMAIN h[n].dims \subseteq Nat

LEMMA HintedPolicy ==
  ASSUME NEW i, NEW h, AreHints(h), NEW p, p = PolicyForIntent(i),
         NEW q, q = BroadPolicy(i, h), q # p
  PROVE  /\ i.strategy = "standard"
         /\ \E d \in ToSet(p.drilldowns) :
              /\ DefaultSignal(i.metric, d) # NoValue
              /\ q = Policy(p.drilldowns, d, DefaultSignal(i.metric, d), <<>>)
<1> DEFINE usable(n, d) ==
             /\ h[n].metric = i.metric /\ h[n].confident
             /\ d \in ToSet(p.drilldowns)
             /\ d \in AllowedDimensions(i.metric)
             /\ DefaultSignal(i.metric, d) # NoValue
             /\ \/ h[n].signals = {}
                \/ DefaultSignal(i.metric, d) \in h[n].signals
           fitting == {n \in DOMAIN h : \E d \in ToSet(h[n].dims) : usable(n, d)}
<1>1. PICK first : first = Min(fitting)
  OBVIOUS
<1>2. PICK dims : dims = h[first].dims
  OBVIOUS
<1> DEFINE places == {k \in DOMAIN dims : usable(first, dims[k])}
<1>3. PICK d : d = dims[Min(places)]
  OBVIOUS
<1>4. q = IF i.strategy # "standard" \/ fitting = {} THEN p
          ELSE Policy(p.drilldowns, d, DefaultSignal(i.metric, d), <<>>)
  BY <1>1, <1>2, <1>3 DEF BroadPolicy, PolicyWithMemoryHints
<1>5. /\ i.strategy = "standard" /\ fitting # {}
      /\ q = Policy(p.drilldowns, d, DefaultSignal(i.metric, d), <<>>)
  BY <1>4
<1>6. first \in fitting
  <2>1. fitting \in SUBSET Nat
    BY DEF AreHints
  <2> HIDE DEF fitting
  <2> QED
    BY <1>1, <1>5, <2>1, MinIsMin
<1>7. PICK k \in DOMAIN dims : usable(first, dims[k])
  <2>1. \E e \in ToSet(dims) : usable(first, e)
    BY <1>2, <1>6
  <2> HIDE DEF usable
  <2> QED
    BY <2>1 DEF ToSet
<1>8. Min(places) \in places
  <2>1. places \in SUBSET Nat
    BY <1>2, <1>6 DEF AreHints
  <2>2. places # {}
    BY <1>7
  <2> HIDE DEF places
  <2> QED
    BY <2>1, <2>2, MinIsMin
<1>9. usable(first, d)
  <2> HIDE DEF usable
  <2> QED
    BY <1>3, <1>8
<1> QED
  BY <1>5, <1>9

LEMMA WithoutHints ==
  ASSUME NEW i
  PROVE  BroadPolicy(i, <<>>) = PolicyForIntent(i)
<1>1. \A n : n \notin DOMAIN <<>>
  OBVIOUS
<1> QED
  BY <1>1 DEF BroadPolicy, PolicyWithMemoryHints

(* A plan that is not broad does not know the hints, nor does one whose    *)
(* policy they do not change.                                              *)
LEMMA SamePolicy ==
  ASSUME NEW i, NEW h, NEW b,
         ScopeMode(i) # "unscoped" \/ BroadPolicy(i, h) = BroadPolicy(i, <<>>)
  PROVE  Compile(i, h, b) = Compile(i, <<>>, b)
<1>1. ScopeMode(i) \in {"explicit_single", "explicit_multi_driver", "scoped_interaction", "unscoped"}
  BY DEF ScopeMode
<1>2. PolicyError(i, h) = PolicyError(i, <<>>)
  BY <1>1 DEF PolicyError, BroadPolicyError
<1>3. CompiledActions(i, h) = CompiledActions(i, <<>>)
  BY <1>1 DEF CompiledActions
<1> QED
  BY <1>2, <1>3 DEF Compile

LEMMA DrilledOfPlan ==
  ASSUME NEW p
  PROVE  DrilledBy(p) = DrilledAt(p.actions)
BY DEF DrilledBy, DrilledAt

(* With the lanes dropped there is still a signal for each of them.        *)
LEMMA HintedIsNotRefused ==
  ASSUME NEW i, NEW h, ScopeMode(i) = "unscoped", ScopeDims(i) = {},
         NEW n \in {2, 3}, NEW q, q = BroadPolicy(i, h), IsOpen(q, n),
         q.firstSignal # NoValue,
         \A d \in ToSet(q.drilldowns) : DefaultSignal(i.metric, d) # NoValue
  PROVE  PolicyError(i, h) = NoError
<1>1. PICK m, lanes : m = i.metric /\ lanes = LanesOf(m, q)
  OBVIOUS
<1>2. PICK ds : /\ Lists(ds, n) /\ ToSet(ds) = ToSet(q.drilldowns)
                /\ Lists(lanes, n)
                /\ \A k \in 1..n : lanes[k] = Lane(ds[k], LaneSignal(m, q, k, ds[k]))
  <2>1. \E ds : /\ Lists(ds, n) /\ ds[1] = q.firstDim /\ ToSet(ds) = ToSet(q.drilldowns)
                /\ \A k, l \in 1..n : ds[k] = ds[l] => k = l
                /\ Lists(lanes, n)
                /\ \A k \in 1..n : lanes[k] = Lane(ds[k], LaneSignal(m, q, k, ds[k]))
    BY <1>1, OpenLanes
  <2> QED
    BY <2>1
<1>3. DOMAIN ds = 1..n /\ DOMAIN lanes = 1..n /\ Len(q.drilldowns) = n
  BY <1>2, ListsLength DEF IsOpen
<1>4. ASSUME NEW k \in DOMAIN lanes
      PROVE  lanes[k].signal # NoValue /\ lanes[k].binding = "dynamic"
  <2>1. ds[k] \in ToSet(q.drilldowns)
    BY <1>2, <1>3 DEF ToSet
  <2>2. PICK x : x = LaneSignal(m, q, k, ds[k])
    OBVIOUS
  <2>3. x # NoValue
    <3>1. "interaction" # NoValue
      BY DEF NoValue
    <3> QED
      BY <1>1, <2>1, <2>2, <3>1 DEF LaneSignal
  <2>4. lanes[k] = Lane(ds[k], x)
    BY <1>2, <1>3, <2>2
  <2> QED
    BY <2>3, <2>4 DEF Lane
<1>5. q.drilldowns # <<>>
  BY <1>3
<1>6. BroadPolicyError(i, h) = NoError
  BY <1>1, <1>4, <1>5 DEF BroadPolicyError
<1> QED
  BY <1>6 DEF PolicyError

LEMMA PlannedOfIntent ==
  ASSUME NEW i, NEW h, NEW b, PolicyError(i, h) = NoError, PlanIsValid(CompiledActions(i, h)),
         NEW c, c = Compile(i, h, b)
  PROVE  /\ c.error = NoError /\ c.plan.scope = ExplicitScope(i) /\ c.plan.mode = ScopeMode(i)
         /\ c.plan.actions = CompiledActions(i, h)
<1>1. PICK actions : actions = CompiledActions(i, h)
  OBVIOUS
<1>2. PICK x : x = [metric |-> i.metric, date |-> i.date, scope |-> ExplicitScope(i),
                    mode |-> ScopeMode(i), actions |-> actions, budget |-> PlanBudget(actions, b)]
  OBVIOUS
<1>3. c = [error |-> NoError, plan |-> x]
  BY <1>1, <1>2 DEF Compile, Planned
<1> QED
  BY <1>1, <1>2, <1>3

LEMMA ValidOfIntent ==
  ASSUME NEW i, NEW h, NEW b, NEW c, c = Compile(i, h, b), c.error = NoError
  PROVE  PolicyError(i, h) = NoError /\ PlanIsValid(CompiledActions(i, h))
<1>1. \A error : NotPlanned(error).error = error
  BY DEF NotPlanned
<1> QED
  BY <1>1 DEF Compile, Planned, NoError

(* Plans of two policies that drill the same dimensions drill the same.    *)
LEMMA BroadAlike ==
  ASSUME NEW i, NEW p, NEW q, HasSequences(p), HasSequences(q),
         p.drilldowns = q.drilldowns, Len(q.drilldowns) > 1, NEW detect
  PROVE  /\ DrilledAt(Cat(<<detect>>, BroadActions(i, p)))
              = DrilledAt(Cat(<<detect>>, BroadActions(i, q)))
         /\ Cat(<<detect>>, BroadActions(i, p))[1] = detect
         /\ Cat(<<detect>>, BroadActions(i, q))[1] = detect
<1>1. PICK one, s, t : one = <<detect>> /\ s = BroadActions(i, p) /\ t = BroadActions(i, q)
  OBVIOUS
<1>2. IsSequence(one) /\ Lists(one, 1) /\ one[1] = detect
  BY <1>1, ShortLists, SequencesAreLists
<1>3. IsSequence(s) /\ IsSequence(t) /\ DrilledAt(s) = DrilledAt(t)
  <2>1. Drilldowns(i, p, Unfiltered(p)) = Drilldowns(i, q, Unfiltered(q))
    BY DEF Drilldowns, Unfiltered
  <2> QED
    BY <1>1, <2>1, BroadDrills
<1>4. DrilledAt(Cat(one, s)) = DrilledAt(Cat(one, t))
  BY <1>2, <1>3, DrilledJoined
<1>5. ASSUME NEW u, IsSequence(u) PROVE Cat(one, u)[1] = detect
  <2>1. PICK n \in Nat : Lists(u, n)
    BY <1>5, SequencesAreLists
  <2>2. 1 \in 1..1 /\ 1 \in Nat
    OBVIOUS
  <2> QED
    BY <1>2, <2>1, <2>2, Joined
<1> QED
  BY <1>1, <1>3, <1>4, <1>5

LEMMA HintsKeepTheQuestion ==
  ASSUME NEW i, NEW h, AreHints(h), NEW b, NEW c, c = Compile(i, h, b),
         NEW u, u = Compile(i, <<>>, b), u.error = NoError
  PROVE  SameQuestion(c, u)
<1>1. PICK p, q : p = PolicyForIntent(i) /\ q = BroadPolicy(i, h)
  OBVIOUS
<1>2. BroadPolicy(i, <<>>) = p
  BY <1>1, WithoutHints
<1>3. CASE ScopeMode(i) # "unscoped" \/ q = p
  <2>1. c = u
    BY <1>1, <1>2, <1>3, SamePolicy
  <2> QED
    BY <2>1 DEF SameQuestion
<1>4. CASE ScopeMode(i) = "unscoped" /\ q # p
  <2>1. PolicyError(i, <<>>) = NoError /\ PlanIsValid(CompiledActions(i, <<>>))
    BY ValidOfIntent
  <2>2. ScopeDims(i) = {}
    BY <1>4, <2>1, ScopedIsNotBroad
  <2>3. PICK d \in ToSet(p.drilldowns) :
          /\ DefaultSignal(i.metric, d) # NoValue
          /\ q = Policy(p.drilldowns, d, DefaultSignal(i.metric, d), <<>>)
    BY <1>1, <1>4, HintedPolicy
  <2>4. p = DiscoveryPolicy(i.metric, i.family, "standard")
    <3>1. i.strategy = "standard"
      BY <1>1, <1>4, HintedPolicy
    <3> QED
      BY <1>1, <2>2, <3>1 DEF PolicyForIntent
  <2>5. DrillsMore(i.metric, p)
    <3>1. p # NoPolicy
      BY <2>3 DEF NoPolicy, Policy, ToSet
    <3>2. ~DrillsOne(i.metric, p)
      <4> SUFFICES ASSUME NEW e, p = Policy(<<e>>, e, DefaultSignal(i.metric, e), <<>>)
                   PROVE  FALSE
        BY DEF DrillsOne
      <4>1. p.drilldowns = <<e>>
        BY DEF Policy
      <4>2. d = e
        BY <4>1 DEF ToSet
      <4> QED
        BY <1>4, <2>3, <4>1, <4>2
    <3> QED
      BY <2>4, <3>1, <3>2, BroadPolicies
  <2>6. PICK n \in {2, 3} :
          /\ Lists(p.drilldowns, n)
          /\ \A k \in 1..n : /\ p.drilldowns[k] \in DrilledDims
                             /\ DefaultSignal(i.metric, p.drilldowns[k]) # NoValue
          /\ \A k, l \in 1..n : p.drilldowns[k] = p.drilldowns[l] => k = l
    BY <2>5 DEF DrillsMore
  <2>7. /\ q.drilldowns = p.drilldowns /\ q.firstDim = d
        /\ q.firstSignal = DefaultSignal(i.metric, d) /\ q.lanes = <<>>
    BY <2>3 DEF Policy
  <2>8. IsOpen(q, n)
    BY <2>3, <2>6, <2>7 DEF IsOpen
  <2>9. DOMAIN p.drilldowns = 1..n /\ Len(p.drilldowns) = n /\ n > 1
    BY <2>6, ListsLength
  <2>10. PolicyError(i, h) = NoError
    <3>1. \A e \in ToSet(q.drilldowns) : DefaultSignal(i.metric, e) # NoValue
      BY <2>6, <2>7, <2>9 DEF ToSet
    <3> QED
      BY <1>1, <1>4, <2>2, <2>3, <2>7, <2>8, <3>1, HintedIsNotRefused
  <2>11. PICK detect : detect = [Action("detect_anomaly", i.metric, i.date, <<>>, E1)
                                   EXCEPT !.filters = ExplicitScope(i)]
    OBVIOUS
  <2>12. /\ CompiledActions(i, h) = Cat(<<detect>>, BroadActions(i, q))
         /\ CompiledActions(i, <<>>) = Cat(<<detect>>, BroadActions(i, p))
    BY <1>1, <1>2, <1>4, <2>11 DEF CompiledActions, Cat
  <2>13. PlanIsValid(CompiledActions(i, h))
    <3>1. /\ detect.kind = "detect_anomaly" /\ detect.produces = E1 /\ detect.requires = <<>>
      BY <2>11 DEF Action
    <3> QED
      BY <2>8, <2>12, <3>1, BroadIsValid
  <2>14. /\ c.error = NoError /\ c.plan.scope = ExplicitScope(i) /\ c.plan.mode = "unscoped"
         /\ c.plan.actions = CompiledActions(i, h)
    BY <1>4, <2>10, <2>13, PlannedOfIntent
  <2>15. /\ u.plan.scope = ExplicitScope(i) /\ u.plan.mode = "unscoped"
         /\ u.plan.actions = CompiledActions(i, <<>>)
    BY <1>4, <2>1, PlannedOfIntent
  <2>16. HasSequences(p) /\ HasSequences(q)
    BY <1>1, CompilingPolicies
  <2>17. /\ DrilledAt(c.plan.actions) = DrilledAt(u.plan.actions)
         /\ c.plan.actions[1] = detect /\ u.plan.actions[1] = detect
    BY <2>7, <2>9, <2>12, <2>14, <2>15, <2>16, BroadAlike
  <2> QED
    BY <2>14, <2>15, <2>17, DrilledOfPlan DEF SameQuestion
<1> QED
  BY <1>3, <1>4

(* A plan, or the error in its place, is that of the intent and of hints   *)
(* that memory holds.                                                      *)
HintingInv ==
  /\ hints = <<>> \/ hints \in HintLists
  /\ attempt > 0 => intent = NoIntent /\ compiled = Pending
  /\ intent = NoIntent \/ compiled = Pending \/ compiled = Compile(intent, hints, Budget)

LEMMA HintingInvNext == HintingInv /\ [CompilationNext]_cvars => HintingInv'
<1> SUFFICES ASSUME HintingInv, [CompilationNext]_cvars PROVE HintingInv'
  OBVIOUS
<1>1. ASSUME NEW code, Refuse(code), attempt > 0 PROVE HintingInv'
  <2>1. ~(attempt' > 0)
    BY <1>1 DEF Refuse
  <2> QED
    BY <1>1, <2>1 DEF Refuse, HintingInv
<1>2. CASE RefuseBlank
  <2>1. attempt > 0 /\ Refuse("PARSE_FAILED")
    BY <1>2 DEF RefuseBlank
  <2> QED
    BY <1>1, <2>1
<1>3. ASSUME NEW a \in Answers(question), AskAgain(a) PROVE HintingInv'
  <2>1. attempt > 0
    BY <1>3 DEF AskAgain, IsAnswered
  <2> QED
    BY <1>3, <2>1 DEF AskAgain, HintingInv
<1>4. ASSUME NEW a \in Answers(question), AnswerIsFinal(a) PROVE HintingInv'
  BY <1>1, <1>4 DEF AnswerIsFinal, IsAnswered
<1>5. ASSUME NEW a \in Answers(question), ServiceRefuses(a) PROVE HintingInv'
  BY <1>1, <1>5 DEF ServiceRefuses, IsAnswered
<1>6. ASSUME NEW a \in Answers(question), Parse(a) PROVE HintingInv'
  <2>1. attempt > 0 /\ ~(attempt' > 0)
    BY <1>6 DEF Parse, IsAnswered
  <2> QED
    BY <1>6, <2>1 DEF Parse, HintingInv
<1>7. CASE ReadPriors
  <2>1. intent # NoIntent /\ ~(attempt > 0)
    BY <1>7 DEF ReadPriors, IsParsed, HintingInv
  <2> QED
    BY <1>7, <2>1 DEF ReadPriors, IsParsed, HintingInv
<1>8. CASE CompilePlan
  <2>1. intent # NoIntent /\ ~(attempt > 0)
    BY <1>8 DEF CompilePlan, IsParsed, HintingInv
  <2> QED
    BY <1>8, <2>1 DEF CompilePlan, IsParsed, HintingInv
<1>9. CASE UNCHANGED cvars
  BY <1>9 DEF cvars, HintingInv
<1> QED
  BY <1>2, <1>3, <1>4, <1>5, <1>6, <1>7, <1>8, <1>9 DEF CompilationNext

(* Whatever is asked and whatever memory holds: a question that has a plan *)
(* has one with the hints, too, with the same scope, the same scope mode,  *)
(* the same anomaly check and the same drilldowns in their places.         *)
THEOREM HintsNeverTouchTheQuestion == CompilationSpec => []MemoryKeepsTheQuestion
<1>1. CompilationInit => HintingInv
  BY DEF CompilationInit, HintingInv
<1>2. HintingInv => MemoryKeepsTheQuestion
  <2> SUFFICES ASSUME HintingInv, WasCompiled, Unhinted.error = NoError
               PROVE  SameQuestion(compiled, Unhinted)
    BY DEF MemoryKeepsTheQuestion
  <2>1. PICK i, h, u : i = intent /\ h = hints /\ u = Unhinted
    OBVIOUS
  <2>2. compiled = Compile(i, h, Budget) /\ u = Compile(i, <<>>, Budget)
    BY <2>1 DEF HintingInv, WasCompiled, Unhinted
  <2>3. AreHints(h)
    <3>1. CASE h = <<>>
      BY <3>1 DEF AreHints
    <3>2. CASE h \in HintLists
      BY <3>2, HintsAssumption DEF AreHints
    <3> QED
      BY <2>1, <3>1, <3>2 DEF HintingInv
  <2> QED
    BY <2>1, <2>2, <2>3, HintsKeepTheQuestion
<1>3. CompilationSpec => []HintingInv
  BY <1>1, HintingInvNext, PTL DEF CompilationSpec
<1> QED
  BY <1>2, <1>3, PTL
===============================================================================
