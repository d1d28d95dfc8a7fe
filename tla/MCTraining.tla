----------------------------- MODULE MCTraining ------------------------------
(* The cycles that are exported: every prediction against the rows it may  *)
(* meet, the datasets of the evaluation, what a controller may have done,  *)
(* and what a fix may have.                                                *)
EXTENDS Rewards, TLC

Good ==
  [metric_id |-> "gmv", steps |-> 5, tools |-> <<"detect_anomaly", "drilldown_dimension">>,
   cause |-> "stockout", intent_ok |-> TRUE, anomaly_ok |-> TRUE, top1_ok |-> TRUE,
   top3_ok |-> TRUE, recall |-> 100, weighted |-> 100, evidence_coverage |-> 100,
   sql_safe |-> TRUE, reflection_repair_ok |-> TRUE, report_traceable_ok |-> TRUE,
   memory_pollution_ok |-> TRUE]

Bad == [Good EXCEPT !.top1_ok = FALSE, !.top3_ok = FALSE, !.weighted = 40, !.cause = "traffic"]

Rows ==
  {Good, Bad,
   [Good EXCEPT !.metric_id = "uv"], [Good EXCEPT !.metric_id = Null],
   [Good EXCEPT !.steps = 2, !.tools = <<"detect_anomaly">>],
   [Good EXCEPT !.steps = 8, !.tools = <<"drilldown_dimension", "detect_anomaly">>],
   [Good EXCEPT !.evidence_coverage = 50], [Good EXCEPT !.memory_pollution_ok = FALSE],
   [Good EXCEPT !.intent_ok = FALSE], [Good EXCEPT !.anomaly_ok = FALSE],
   [Bad EXCEPT !.cause = Null], [Good EXCEPT !.weighted = 80]}

Saying(aspect) ==
  CASE aspect = "intent"    -> [metric_id : {"gmv", "uv", Null}]
    [] aspect = "execution" ->
         [step_count : {3, 5}]
           \cup {[tool_sequence |-> <<"detect_anomaly", "drilldown_dimension">>],
                 [tool_sequence |-> <<"detect_anomaly">>, forbidden_tools |-> DownstreamTools],
                 [tool_sequence |-> <<"detect_anomaly">>],
                 [critical_decisions |-> Null]}
    [] aspect = "evidence"  ->
         {[chain |-> Null]} \cup [chain : {Null}, evidence_coverage_full : BOOLEAN]
    [] aspect = "memory"    -> {[influence |-> Null], [influence |-> Null, pollution_risk |-> TRUE]}
    [] aspect = "outcome"   ->
         [root_cause_type : {"stockout"}, top1_ok : BOOLEAN]
           \cup {[root_cause_type |-> Null],
                 [root_cause_type |-> Null, top1_ok |-> TRUE, anomaly_ok |-> TRUE],
                 [root_cause_type |-> "stockout", anomaly_ok |-> FALSE]}
    [] OTHER                -> [root_causes : {Null}, top3_ok : BOOLEAN]

Saying1(case, aspect, says, cites) ==
  [case |-> case, aspect |-> aspect, says |-> says, sound |-> TRUE, cites |-> cites]

Said == UNION {{<<aspect, says>> : says \in Saying(aspect)} : aspect \in KnownAspects}

Alone(case, cites) == {<<Saying1(case, x[1], x[2], cites)>> : x \in Said}

(* Two predictions of one kind, and an outcome with an execution.          *)
Twice  == {<<Saying1("c1", "evidence", x, TRUE), Saying1("c1", "evidence", y, TRUE)>> :
             x, y \in Saying("evidence")}
Paired == {<<Saying1("c1", "outcome", x, TRUE), Saying1("c1", "execution", y, TRUE)>> :
             x \in Saying("outcome"), y \in Saying("execution")}

TasksOf(rows) == [rows |-> rows, stated |-> Len(rows), own |-> TRUE]

Metrics(value) == [top1_rate |-> value]

Plain ==
  [metrics |-> Metrics(1), met |-> FALSE, green |-> FALSE, rules |-> TRUE, selected |-> Null,
   diagnosis |-> <<>>, fix |-> NoCommit, cases |-> [c1 |-> Good, c2 |-> Good],
   predictions |-> <<Saying1("c1", "evidence", [chain |-> Null], TRUE)>>,
   tasks |-> TasksOf(<<Good>>)]

Predicted ==
  {<<[Plain EXCEPT !.predictions = p, !.cases = [c1 |-> row]]>> :
     p \in Alone("c1", TRUE) \cup Paired, row \in Rows}
  \cup {<<[Plain EXCEPT !.predictions = p]>> :
     p \in Alone("c1", FALSE) \cup Alone("c3", TRUE) \cup Twice
             \cup {<<[Plain.predictions[1] EXCEPT !.sound = FALSE]>>}}

Tasked ==
  {<<[Plain EXCEPT !.tasks = t]>> :
     t \in {NoTasks, TasksOf(<<Bad, Good>>),
            [TasksOf(<<Good>>) EXCEPT !.own = FALSE], [TasksOf(<<Good>>) EXCEPT !.stated = 2]}}

Row(case, category, file_set) == [case |-> case, category |-> category, files |-> file_set]

FileA == <<"code", "a">>
FileB == <<"code", "b">>
Tests == {<<"tests", i>> : i \in 1..5}

Controlled ==
  {<<[Plain EXCEPT !.metrics = before],
     [Plain EXCEPT !.metrics = after, !.met = met, !.rules = rules, !.green = green,
                   !.selected = selected, !.diagnosis = <<Row("c1", "FIX-A", {FileA})>>]>> :
     before \in {Metrics(1), <<>>}, after \in {Metrics(0), Metrics(1), Metrics(2)},
     met \in BOOLEAN, rules \in BOOLEAN, green \in BOOLEAN, selected \in {Null, "FIX-A", "FIX-D"}}

CaseTables == {[c1 |-> x, c2 |-> y] : x, y \in {Good, Bad}}

Fixed(diagnoses, changes, rises) ==
  {<<[Plain EXCEPT !.cases = before, !.diagnosis = diagnosis],
     [Plain EXCEPT !.cases = after, !.fix = changed, !.metrics = m]>> :
     before \in CaseTables, after \in CaseTables \cup {[c1 |-> Good]},
     diagnosis \in diagnoses, changed \in changes, m \in rises}

MCCycles ==
  Predicted \cup Tasked \cup Controlled
  \cup Fixed({<<Row("c1", "FIX-A", {FileA})>>,
              <<Row("c1", "FIX-A", {FileA}), Row("c2", "FIX-D", {FileA, FileB})>>,
              <<Row("c1", "FIX-A", {FileA}), Row("c2", "NO-FIX", {})>>},
             {{FileA}, {FileB} \cup Tests, {FileA} \cup Tests}, {Metrics(2)})
  \cup Fixed({<<>>, <<Row(Null, "FIX-A", {FileA})>>, <<Row("c1", "FIX-A", {})>>},
             {{FileA}}, {Metrics(1)})
  \cup Fixed({<<Row("c1", "FIX-A", {FileA})>>}, {NoCommit, {}, {FileA}}, {Metrics(0)})
===============================================================================
