---------------------------- MODULE MCCompiledRun ----------------------------
(***************************************************************************)
(* Small values for CompiledRun: every question family, unscoped and       *)
(* scoped to one element or, for the interactions, to two; the strategies  *)
(* and memory hints that change a plan; the default budget of the settings *)
(* and tight ones; and intents that name their scope twice.                *)
(***************************************************************************)
EXTENDS CompiledRun

MCFamilies ==
  {<<"gmv_drop", "gmv">>, <<"uv_drop", "uv">>, <<"net_gmv_drop", "net_gmv">>,
   <<"pay_cvr_drop", "pay_cvr">>, <<"refund_rate_increase", "refund_rate">>,
   <<"stockout_rate_increase", "stockout_rate">>,
   <<"complaint_rate_increase", "complaint_rate">>,
   <<"channel_gmv_anomaly", "gmv">>, <<"category_gmv_anomaly", "gmv">>,
   <<"interaction_gmv_anomaly", "gmv">>, <<"interaction_uv_anomaly", "uv">>}

MCIntent(family, strategy, dim, element, filters) ==
  [metric |-> family[2], date |-> "day", family |-> family[1], strategy |-> strategy,
   dim |-> dim, element |-> element, filters |-> filters]

MCUnscoped == {MCIntent(f, "standard", NoValue, NoValue, NoFilters) : f \in MCFamilies}

MCProductFirst == MCIntent(<<"gmv_drop", "gmv">>, "product_first", NoValue, NoValue, NoFilters)

MCFiltered ==
  {MCIntent(f, "standard", NoValue, NoValue, [e \in {d} |-> "a"]) :
     f \in MCFamilies, d \in {"channel", "category", "product", "device", "warehouse"}}

MCPaired ==
  {MCIntent(<<"gmv_drop", "gmv">>, "standard", "channel", "a", filters) :
     filters \in {NoFilters, [d \in {"channel"} |-> "a"]}}

MCInteraction ==
  {MCIntent(f, "standard", NoValue, NoValue, [d \in {"channel", "category"} |-> "a"]) :
     f \in {<<"interaction_gmv_anomaly", "gmv">>, <<"interaction_uv_anomaly", "uv">>}}

(* The scope is named twice: contradicting, or narrowed by a second filter.*)
MCTwiceScoped ==
  {MCIntent(<<"gmv_drop", "gmv">>, "standard", d, "a", filters) :
     d \in {"channel", "category"},
     filters \in {[e \in {"channel"} |-> "b"], [e \in {"channel", "category"} |-> "a"]}}
  \cup {MCIntent(<<"interaction_gmv_anomaly", "gmv">>, "standard", NoValue, NoValue,
                [e \in {"channel", "category", "warehouse"} |-> "a"])}

MCHint(metric, dims, signals) ==
  <<[metric |-> metric, confident |-> TRUE, dims |-> dims, signals |-> signals]>>

MCHintLists == {MCHint("gmv", <<"category">>, {}), MCHint("net_gmv", <<"channel">>, {}),
                MCHint("uv", <<"category", "channel">>, {"campaign"})}

MCDefault == [steps |-> 8, queries |-> 20, depth |-> 3]

MCTight == {[steps |-> 4, queries |-> 20, depth |-> 1],
            [steps |-> 8, queries |-> 7, depth |-> 1],
            [steps |-> 8, queries |-> 3, depth |-> 0]}

MCCases ==
  [intent : MCUnscoped \cup {MCProductFirst} \cup MCFiltered \cup MCPaired \cup MCInteraction,
   hints : {<<>>}, budget : {MCDefault}]
  \cup [intent : MCUnscoped, hints : MCHintLists, budget : {MCDefault}]
  \cup [intent : {i \in MCUnscoped : i.metric \in {"gmv", "refund_rate"}} \cup MCPaired,
        hints : {<<>>}, budget : MCTight]

MCTwiceScopedCases == [intent : MCTwiceScoped, hints : {<<>>}, budget : {MCDefault}]

MCCoherentPlans == PlansOf({c \in MCCases : Coherent(c.intent)})
MCTwiceScopedPlans == PlansOf(MCTwiceScopedCases)
MCPlans == MCCoherentPlans \cup MCTwiceScopedPlans
===============================================================================
