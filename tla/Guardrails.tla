------------------------------ MODULE Guardrails ------------------------------
(***************************************************************************)
(* The SQL of the tools: the query specifications a tool makes             *)
(* (metric_rca/agent/tools/, guardrails/query_spec.py, domain/models.py),  *)
(* the statement the renderer turns one into (guardrails/renderer.py), the *)
(* guard over the statements (guardrails/sql_guard.py), the gates a        *)
(* statement passes on its way to the database                             *)
(* (repositories/metric_repository.py), and the data it finds there.  The  *)
(* guard and the renderer have white lists of their own, which have to     *)
(* agree for every statement of every plan.                                *)
(*                                                                         *)
(* A statement is a record of what the guard and the database look at:     *)
(*   from      the table it reads                                          *)
(*   joins     the inner joins, as [table, left, right], columns           *)
(*   columns   every column it names, as <<table, column>>                 *)
(*   groups    the columns it groups by                                    *)
(*   dated     the column of its date filter                               *)
(*   days      the days the filter selects, relative to the target date    *)
(*   limit     its LIMIT                                                   *)
(* Its text is not modelled: Render makes a single SELECT without star,    *)
(* subquery or unknown function, whose dates are bound.                    *)
(*                                                                         *)
(* A plan of a statement is a record [statement, intact, rendered, status, *)
(* guarded]: intact says that its hash is that of its text, rendered and   *)
(* guarded that it has the signature of this process's renderer and guard. *)
(***************************************************************************)
EXTENDS PolicyRegistry, FiniteSets

(* PHASE1_METRICS                                                          *)
Metrics == {"gmv", "net_gmv", "uv", "pay_cvr", "aov", "refund_rate",
            "stockout_rate", "complaint_rate"}

MaxGroups == 2
MaxLimit  == 5000

(* QuerySpec, with its default limit; group and filters are the dimensions *)
(* it groups and filters by.                                               *)
QuerySpec(metric, group, filters, purpose, hint) ==
  [metric |-> metric, group |-> group, filters |-> filters,
   purpose |-> purpose, hint |-> hint, limit |-> 1000]

Dimensions(spec) == spec.group \cup spec.filters

(* build_query_spec and the validators of QuerySpec.                       *)
IsQuerySpec(spec) ==
  /\ spec.metric \in Metrics
  /\ Cardinality(spec.group) <= MaxGroups
  /\ Dimensions(spec) \subseteq AllowedDimensions(spec.metric)
  /\ spec.limit <= MaxLimit

-------------------------------------------------------------------------------
(* The specifications of a tool, in the order in which it runs them.       *)

CurrentAndBaseline(metric, group, filters, purpose, hint) ==
  <<QuerySpec(metric, group, filters, purpose, hint),
    QuerySpec(metric, group, filters, "baseline", hint)>>

(* A campaign signal is read from the campaign facts.                      *)
HintOf(action) == IF action.signal = "campaign" THEN "campaign" ELSE "metric"

DetectionSpecs(action) ==
  CurrentAndBaseline(action.metric, {}, DOMAIN action.filters, "current", "metric")

DrilldownSpecs(action) ==
  CurrentAndBaseline(action.metric, {action.dim}, DOMAIN action.filters, "drilldown", "metric")

SelectionSpecs(action) ==
  CurrentAndBaseline(QueriedMetric(action), {action.dim}, DOMAIN action.filters,
                     "signal", HintOf(action))

SignalSpecs(action) ==
  CurrentAndBaseline(QueriedMetric(action), {}, QueriedDimensions(action),
                     "signal", HintOf(action))

(* The factors of a selected element: what its gmv or net_gmv is made of.  *)
FactorSpecs(action) ==
  LET factor(metric) ==
        CurrentAndBaseline(metric, {}, QueriedDimensions(action), "current", "metric")
  IN  CASE action.metric = "gmv"     -> factor("uv") \o factor("pay_cvr")
        [] action.metric = "net_gmv" -> factor("gmv") \o factor("net_gmv")
        [] OTHER                     -> <<>>

ContributionSpecs(action) == DrilldownSpecs(action) \o FactorSpecs(action)

SpecsOf(action) ==
  CASE action.kind = "detect_anomaly"         -> DetectionSpecs(action)
    [] action.kind = "drilldown_dimension"    -> DrilldownSpecs(action)
    [] action.kind = "select_signal_element"  -> SelectionSpecs(action)
    [] action.kind = "fetch_related_signal"   -> SignalSpecs(action)
    [] action.kind = "calculate_contribution" -> ContributionSpecs(action)
    [] OTHER                                  -> <<>>

-------------------------------------------------------------------------------
(* The renderer.                                                           *)

(* METRIC_TEMPLATES: the facts of a metric and the columns it sums or      *)
(* counts.                                                                 *)
Template(table, columns) == [table |-> table, columns |-> columns]

MetricTemplates ==
  LET orders(columns) == Template("fact_order", columns)
  IN  [gmv            |-> orders({"is_paid", "order_amount"}),
       net_gmv        |-> orders({"is_paid", "order_amount", "refund_amount"}),
       aov            |-> orders({"is_paid", "order_amount"}),
       refund_rate    |-> orders({"is_paid", "order_amount", "refund_amount"}),
       uv             |-> Template("fact_traffic", {"uv"}),
       pay_cvr        |-> Template("fact_traffic", {"pay_user_cnt", "uv"}),
       stockout_rate  |-> Template("fact_inventory", {"stockout_hours", "avail_hours"}),
       complaint_rate |-> Template("fact_customer_ticket", {"is_complaint", "ticket_id"})]

(* DIMENSION_COLUMNS: the column of a dimension in the facts, category in  *)
(* the product table.                                                      *)
Category == <<"dim_product", "category">>

DimensionColumns ==
  LET ofProducts(table) == [product |-> <<table, "product_id">>, category |-> Category]
      ofShops(table)    == ofProducts(table) @@ [channel |-> <<table, "channel">>,
                                                 device  |-> <<table, "device">>]
  IN  [fact_order           |-> ofShops("fact_order"),
       fact_traffic         |-> ofShops("fact_traffic"),
       fact_inventory       |-> ofProducts("fact_inventory")
                                  @@ [warehouse |-> <<"fact_inventory", "warehouse">>],
       fact_customer_ticket |-> ofProducts("fact_customer_ticket"),
       fact_campaign        |-> [channel |-> <<"fact_campaign", "channel">>]]

(* JOIN_BY_FACT_AND_DIMENSION: a category is joined on the product.        *)
JoinsOf(table, dims) ==
  IF "category" \in dims /\ "category" \in DOMAIN DimensionColumns[table]
  THEN {[table |-> "dim_product", left  |-> <<table, "product_id">>,
         right |-> <<"dim_product", "product_id">>]}
  ELSE {}

(* _template_for                                                           *)
TemplateFor(spec) ==
  IF spec.hint = "campaign" /\ spec.metric = "gmv" /\ "channel" \in Dimensions(spec)
  THEN Template("fact_campaign", {"clicks"})
  ELSE MetricTemplates[spec.metric]

(* Every dimension has a column, or the renderer raises a KeyError.        *)
Renders(spec) ==
  Dimensions(spec) \subseteq DOMAIN DimensionColumns[TemplateFor(spec).table]

(* The day itself, or the same weekday in the four weeks before.           *)
DaysOf(purpose) == IF purpose = "baseline" THEN {-7, -14, -21, -28} ELSE {0}

(* Slip: only what is grouped by is joined.                                *)
JoinsForSlip(table, spec) == JoinsOf(table, spec.group)

(* What is filtered by may need the join too.                              *)
JoinsFor(table, spec) == JoinsOf(table, spec.group) \cup JoinsOf(table, spec.filters)

(* SQLRenderer.render; a baseline has a row for each of its days.          *)
Render(spec) ==
  LET template == TemplateFor(spec)
      table    == template.table
      date     == <<table, "business_date">>
      joins    == JoinsFor(table, spec)
      columnsOf(dims) == {DimensionColumns[table][d] : d \in dims}
  IN  [from    |-> table,
       joins   |-> joins,
       columns |-> {<<table, c>> : c \in template.columns} \cup {date}
                     \cup columnsOf(Dimensions(spec))
                     \cup {j.left : j \in joins} \cup {j.right : j \in joins},
       groups  |-> columnsOf(spec.group)
                     \cup (IF spec.purpose = "baseline" THEN {date} ELSE {}),
       dated   |-> date,
       days    |-> DaysOf(spec.purpose),
       limit   |-> spec.limit]

-------------------------------------------------------------------------------
(* The guard.                                                              *)

FactTables == {"fact_order", "fact_traffic", "fact_inventory", "fact_campaign",
               "fact_customer_ticket"}
AllowedTables == FactTables \cup {"dim_product"}

(* ALLOWED_JOINS                                                           *)
AllowedJoins ==
  {<<t, "dim_product", "product_id">> : t \in FactTables \ {"fact_campaign"}}

(* ALLOWED_COLUMNS                                                         *)
AllowedColumns ==
  [fact_order |->
     {"order_id", "business_date", "user_id", "product_id", "channel", "device",
      "order_amount", "is_paid", "is_refunded", "refund_amount"},
   fact_traffic |->
     {"business_date", "channel", "device", "product_id", "uv", "pv", "add_cart_cnt",
      "pay_user_cnt"},
   fact_inventory |->
     {"business_date", "product_id", "warehouse", "stockout_hours", "avail_hours"},
   fact_campaign |->
     {"business_date", "campaign_id", "channel", "spend", "clicks", "impressions"},
   fact_customer_ticket |->
     {"ticket_id", "business_date", "product_id", "ticket_type", "is_complaint"},
   dim_product |-> {"product_id", "product_name", "category", "price"}]

(* _physical_tables                                                        *)
PhysicalTables(statement) == {statement.from} \cup {j.table : j \in statement.joins}

(* _join_errors: a join is one of the renderer's, on the same key of both  *)
(* of its tables.                                                          *)
IsAllowedJoin(join, base) ==
  /\ <<base, join.table, join.left[2]>> \in AllowedJoins
  /\ join.left[1] = base /\ join.right[1] = join.table
  /\ join.left[2] = join.right[2]

JoinErrors(statement, rendered) ==
  IF \A j \in statement.joins : rendered /\ IsAllowedJoin(j, statement.from)
  THEN {} ELSE {"join not allowed"}

(* _column_errors; the renderer names every column with its table.         *)
ColumnErrors(statement) ==
  IF \A c \in statement.columns :
       c[1] \in DOMAIN AllowedColumns /\ c[2] \in AllowedColumns[c[1]]
  THEN {} ELSE {"column not allowed"}

(* _has_fact_business_date_filter                                          *)
IsDated(statement, facts) ==
  statement.dated[2] = "business_date" /\ statement.dated[1] \in facts

(* _validate_sql                                                           *)
Objections(statement, rendered) ==
  LET tables == PhysicalTables(statement)
      facts  == tables \cap FactTables
  IN  (IF tables \subseteq AllowedTables THEN {} ELSE {"table not allowed"})
        \cup (IF facts = {} THEN {"missing fact table"} ELSE {})
        \cup JoinErrors(statement, rendered)
        \cup ColumnErrors(statement)
        \cup (IF facts = {} \/ IsDated(statement, facts) THEN {}
              ELSE {"missing business_date filter"})

(* guard_sql                                                               *)
Guarded(plan) ==
  LET passes == plan.intact /\ Objections(plan.statement, plan.rendered) = {}
  IN  [plan EXCEPT !.status = IF passes THEN "passed" ELSE "rejected", !.guarded = passes]

(* What the renderer returns for a specification, as the tools have it     *)
(* guarded.                                                                *)
PlanFor(spec) ==
  Guarded([statement |-> Render(spec), intact |-> TRUE, rendered |-> TRUE,
           status |-> "rejected", guarded |-> FALSE])

(* The gates of execute_plan, the last of which asks the guard again.      *)
GateError(plan) ==
  CASE plan.status # "passed"          -> "SQL_GUARD_REJECTED"
    [] ~plan.intact \/ ~plan.rendered \/ ~plan.guarded -> "SQL_PLAN_INVALID"
    [] Guarded(plan).status # "passed" -> "SQL_GUARD_REJECTED"
    [] OTHER                           -> "none"

-------------------------------------------------------------------------------
(* The data.                                                               *)

(* _seed_profile_config: how many elements a dimension has.                *)
Catalog(profile) ==
  LET sizes(channels, categories, products, devices, warehouses) ==
        [channel |-> channels, category |-> categories, product_id |-> products,
         device |-> devices, warehouse |-> warehouses]
  IN  CASE profile \in {"smoke", "regression"} -> sizes(4, 3, 9, 2, 2)
        [] profile = "acceptance"              -> sizes(8, 20, 200, 4, 10)
        [] profile = "stress"                  -> sizes(10, 24, 240, 4, 12)

Profiles == {"smoke", "regression", "acceptance", "stress"}

(* How many rows a group of rows may make.                                 *)
SizeOf(column, statement, profile) ==
  IF column = statement.dated THEN Cardinality(statement.days)
  ELSE Catalog(profile)[column[2]]

(* The most rows it returns without its limit: one for each group.         *)
RowsOf(statement, profile) ==
  MapThenFoldSet(LAMBDA m, n : m * n, 1, LAMBDA c : SizeOf(c, statement, profile),
                 LAMBDA S : CHOOSE c \in S : TRUE, statement.groups)

(* It can be executed: each column is of a table that it reads.            *)
IsClosed(statement) == \A c \in statement.columns : c[1] \in PhysicalTables(statement)

(* The limit cuts nothing off, whatever the profile of the data is.        *)
IsUncut(statement) == \A p \in Profiles : RowsOf(statement, p) <= statement.limit

(* A specification is answered in full.                                    *)
IsAnsweredInFull(spec) ==
  /\ IsQuerySpec(spec) /\ Renders(spec)
  /\ GateError(PlanFor(spec)) = "none"
  /\ IsClosed(Render(spec)) /\ IsUncut(Render(spec))
===============================================================================
