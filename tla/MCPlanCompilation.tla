-------------------------- MODULE MCPlanCompilation --------------------------
(***************************************************************************)
(* Small values for PlanCompilation: questions that name a metric, values  *)
(* or a day in every way the code tells apart; answers with every family,  *)
(* two strategies, every scope that can be named with two elements, scopes *)
(* that contradict themselves, wrong or missing metrics, wrong days and    *)
(* all error codes; and hint lists with preferred dimensions and signals,  *)
(* weak hints and foreign hints.                                           *)
(***************************************************************************)
EXTENDS PlanCompilation

MCDims == {"channel", "category", "product", "device", "warehouse"}
MCValues == [d \in MCDims \ {"product"} |-> {"a", "b"}]
MCPastDays == {"thursday", "friday"}

-------------------------------------------------------------------------------
(* Questions.                                                              *)

(* "Why did gmv fall ...?"                                                 *)
MCPlain == [blank |-> FALSE, surface |-> TRUE, metric |-> NoValue, scope |-> NoFilters,
            when |-> "relative", wording |-> "other"]

MCNamed(dims, value) == [MCPlain EXCEPT !.scope = [d \in dims |-> value]]

MCScopedQuestions ==
  {MCNamed({d}, "a") : d \in MCDims}
  \cup {MCNamed({"channel", "category"}, "a"), MCNamed({"device"}, "b"),
        MCNamed({"channel"}, "unlisted"), MCNamed({"product"}, "unlisted")}

MCMetricQuestions ==
  {[MCPlain EXCEPT !.metric = m, !.surface = (m # "sessions")] :
     m \in {"gmv", "uv", "aov", "sessions"}}

MCQuestions ==
  {MCPlain, [MCPlain EXCEPT !.surface = FALSE],
   [MCPlain EXCEPT !.blank = TRUE, !.surface = FALSE, !.when = "silent"]}
  \cup {[MCPlain EXCEPT !.when = w] : w \in {"current", "calendar", "range", "silent"}}
  \cup {[MCPlain EXCEPT !.wording = w] : w \in {"ordinary", "stable", "broad"}}
  \cup MCScopedQuestions \cup MCMetricQuestions

-------------------------------------------------------------------------------
(* Answers.                                                                *)

(* A dimension, element and filters.                                       *)
MCScopes ==
  {<<NoValue, NoValue, NoFilters>>,
   <<NoValue, NoValue, [d \in {"channel", "category"} |-> "a"]>>,
   <<"channel", "a", [d \in {"channel"} |-> "a"]>>,
   <<"channel", "a", [d \in {"channel"} |-> "b"]>>,
   <<"channel", "a", [d \in {"category"} |-> "a"]>>,
   <<"channel", "a", [d \in {"channel", "category"} |-> "a"]>>}
  \cup {<<d, "a", NoFilters>> : d \in MCDims}
  \cup {<<NoValue, NoValue, [d \in {e} |-> "a"]>> : e \in MCDims}

MCOddScopes ==
  {<<NoValue, "a", NoFilters>>, <<"channel", NoValue, NoFilters>>,
   <<"region", "a", NoFilters>>, <<"channel", "unlisted", NoFilters>>,
   <<"product", "unlisted", NoFilters>>, <<NoValue, NoValue, [d \in {"region"} |-> "a"]>>,
   <<NoValue, NoValue, [d \in {"device"} |-> "b"]>>}

MCIntent(family, metric, strategy, day, scope) ==
  [metric |-> metric, date |-> day, family |-> family, strategy |-> strategy,
   dim |-> scope[1], element |-> scope[2], filters |-> scope[3]]

MCRightIntents ==
  {MCIntent(f, MetricOfFamily[f], s, "friday", sc) :
     f \in DOMAIN MetricOfFamily, s \in {"standard", "product_first"}, sc \in MCScopes}

MCOddIntents ==
  {MCIntent("gmv_drop", m, "standard", d, sc) :
     m \in {"gmv", "uv", "aov", "sessions", NoValue}, d \in {"thursday", "friday", "today"},
     sc \in MCOddScopes \cup {<<NoValue, NoValue, NoFilters>>}}

MCAllAnswers ==
  [code : {NoError}, intent : MCRightIntents \cup MCOddIntents]
  \cup [code : {"invalid", "unavailable", "PARSE_FAILED", "METRIC_NOT_FOUND",
                "DIMENSION_NOT_ALLOWED", "DATE_RANGE_INVALID"}, intent : {NoIntent}]

MCAnswers(q) == MCAllAnswers

-------------------------------------------------------------------------------
(* Memory.                                                                 *)

Hint(metric, confident, dims, signals) ==
  [metric |-> metric, confident |-> confident, dims |-> dims, signals |-> signals]

MCHintLists ==
  {<<Hint("gmv", TRUE, <<"device", "product", "channel">>, {})>>,
   <<Hint("uv", TRUE, <<"category">>, {}), Hint("gmv", TRUE, <<"category">>, {"inventory"})>>,
   <<Hint("net_gmv", TRUE, <<"category", "channel">>, {"campaign"})>>,
   <<Hint("pay_cvr", TRUE, <<"device">>, {"inventory"}),
     Hint("pay_cvr", FALSE, <<"device">>, {})>>,
   <<Hint("uv", TRUE, <<"channel">>, {"campaign"})>>}

MCBudget == [steps |-> 8, queries |-> 20, depth |-> 3]
===============================================================================
