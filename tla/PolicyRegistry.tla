---------------------------- MODULE PolicyRegistry ----------------------------
(***************************************************************************)
(* The business policies that drive planning                               *)
(* (metric_rca/business/policy_registry.py): which signal explains a       *)
(* metric in a dimension, and which dimensions and lanes a question family *)
(* has to explore.  element_selection, which only chooses among numeric    *)
(* scores, is left out.                                                    *)
(***************************************************************************)
EXTENDS RcaPlan

Strategies == {"standard", "channel_first", "product_first", "signal_first"}

(* METRIC_ALLOWED_DIMENSIONS.                                              *)
AllowedDimensions(metric) ==
  CASE metric = "stockout_rate"  -> {"category", "warehouse", "product"}
    [] metric = "complaint_rate" -> {"category", "product"}
    [] OTHER                     -> {"channel", "category", "device", "product"}

(* DEFAULT_SIGNAL_POLICIES as <<metric, dimension, root cause, signal>>,   *)
(* NoValue for a policy without root cause.                                *)
SignalPolicies ==
  {<<"gmv", "channel", NoValue, "campaign">>,
   <<"gmv", "category", NoValue, "inventory">>,
   <<"gmv", "product", NoValue, "inventory">>,
   <<"net_gmv", "channel", NoValue, "campaign">>,
   <<"net_gmv", "category", NoValue, "inventory">>,
   <<"net_gmv", "product", NoValue, "refund_quality">>,
   <<"uv", "channel", NoValue, "campaign">>,
   <<"pay_cvr", "device", NoValue, "conversion">>,
   <<"pay_cvr", "channel", NoValue, "conversion">>,
   <<"refund_rate", "product", NoValue, "refund_quality">>,
   <<"refund_rate", "category", NoValue, "refund_quality">>,
   <<"complaint_rate", "category", NoValue, "refund_quality">>,
   <<"stockout_rate", "warehouse", "stockout", "inventory">>,
   <<"gmv", "channel", "conversion_drop", "conversion">>,
   <<"net_gmv", "channel", "conversion_drop", "conversion">>,
   <<"gmv", "channel", "interaction", "interaction">>,
   <<"gmv", "category", "interaction", "interaction">>,
   <<"uv", "channel", "interaction", "interaction">>,
   <<"uv", "category", "interaction", "interaction">>}

(* signal_type without a root cause: the policies without root cause if    *)
(* there are any, else all of the metric and dimension; NoValue when they  *)
(* do not agree on one signal (SIGNAL_POLICY_MISSING).                     *)
DefaultSignal(metric, dim) ==
  LET all     == {p \in SignalPolicies : p[1] = metric /\ p[2] = dim}
      general == {p \in all : p[3] = NoValue}
      signals == {p[4] : p \in IF general = {} THEN all ELSE general}
  IN  IF \E s \in signals : signals = {s} THEN CHOOSE s \in signals : TRUE
      ELSE NoValue

(* The signal types fetch_related_signal accepts: the default one, or one  *)
(* that a root cause policy of the metric and dimension names.             *)
SignalAccepted(metric, dim, signal) ==
  /\ DefaultSignal(metric, dim) # NoValue
  /\ \/ signal = DefaultSignal(metric, dim)
     \/ \E p \in SignalPolicies :
          p[1] = metric /\ p[2] = dim /\ p[3] # NoValue /\ p[4] = signal

(* The metric a signal is read from (settings.signal_metric_by_type; an    *)
(* interaction is read from the metric itself), and what a tool's          *)
(* statements group and filter by.                                         *)
SignalMetric(metric, signal) ==
  CASE signal = "campaign"       -> "gmv"
    [] signal = "inventory"      -> "stockout_rate"
    [] signal = "conversion"     -> "pay_cvr"
    [] signal = "refund_quality" -> "complaint_rate"
    [] OTHER                     -> metric

QueriedMetric(action) ==
  IF action.kind \in {"select_signal_element", "fetch_related_signal"}
  THEN SignalMetric(action.metric, action.signal) ELSE action.metric

QueriedDimensions(action) ==
  DOMAIN action.filters \cup
  (IF action.dim = NoValue THEN {} ELSE {action.dim})

(* build_query_spec accepts the dimensions.                                *)
DimensionsAllowed(action) ==
  action.kind \in DataKinds =>
    QueriedDimensions(action) \subseteq AllowedDimensions(QueriedMetric(action))

(* The renderer reads a campaign signal of a channel from the campaign     *)
(* facts, which have no other dimension than the channel.                  *)
Renderable(action) ==
  ( /\ action.kind \in {"select_signal_element", "fetch_related_signal"}
    /\ action.signal = "campaign"
    /\ "channel" \in QueriedDimensions(action) )
  => QueriedDimensions(action) = {"channel"}

Lane(dim, signal) ==
  [dim |-> dim, signal |-> signal, binding |-> "dynamic",
   disc |-> NoDiscriminator, filterMode |-> "inherit", policy |-> "strict"]

(* A further lane of a dimension: own aliases, signal read unfiltered.     *)
SideLane(dim, signal) ==
  [Lane(dim, signal) EXCEPT !.disc = signal, !.filterMode = "none"]

GmvStandardLanes ==
  <<Lane("channel", "campaign"), SideLane("channel", "conversion"),
    Lane("category", "inventory"), Lane("product", "inventory"),
    SideLane("channel", "interaction"), SideLane("category", "interaction")>>

UvInteractionLanes ==
  <<Lane("channel", "interaction"), SideLane("channel", "campaign"),
    Lane("category", "interaction")>>

PayCvrLanes == <<Lane("channel", "conversion"), Lane("device", "conversion")>>

NetGmvLanes ==
  <<[Lane("channel", "campaign") EXCEPT !.binding = "explicit_scope"],
    [Lane("category", "inventory") EXCEPT !.filterMode = "none"],
    [SideLane("channel", "conversion") EXCEPT !.policy = "global_explanatory"]>>

Policy(drilldowns, firstDim, firstSignal, lanes) ==
  [drilldowns |-> drilldowns, firstDim |-> firstDim, firstSignal |-> firstSignal,
   scopeMode |-> "unscoped", scopeDims |-> {}, lanes |-> lanes]

NoPolicy == Policy(<<>>, NoValue, NoValue, <<>>)

GmvDrilldowns == <<"channel", "category", "product">>

(* discovery_policy: the rule of the metric, family and strategy, else the *)
(* default rule of the metric, else the empty policy.                      *)
DiscoveryPolicy(metric, family, strategy) ==
  CASE metric = "uv" /\ family = "interaction_uv_anomaly" /\ strategy = "standard" ->
         Policy(<<"channel", "category">>, "channel", "interaction", UvInteractionLanes)
    [] metric = "uv" /\ ~(family = "interaction_uv_anomaly" /\ strategy = "standard") ->
         Policy(<<"channel">>, "channel", "campaign", <<>>)
    [] metric = "pay_cvr" ->
         Policy(<<"channel", "device">>, "channel", "conversion", PayCvrLanes)
    [] metric = "refund_rate" ->
         Policy(<<"product">>, "product", "refund_quality", <<>>)
    [] metric = "net_gmv" /\ family = "net_gmv_drop" /\ strategy = "standard" ->
         [Policy(<<"channel", "category">>, "channel", "campaign", NetGmvLanes)
            EXCEPT !.scopeMode = "explicit_multi_driver", !.scopeDims = {"channel"}]
    [] metric = "gmv" /\ family = "gmv_drop" /\ strategy # "product_first" ->
         Policy(GmvDrilldowns, "channel", "campaign", GmvStandardLanes)
    [] metric = "gmv" /\ family = "gmv_drop" /\ strategy = "product_first" ->
         Policy(GmvDrilldowns, "product", "inventory", <<>>)
    [] metric = "gmv" /\ family = "channel_gmv_anomaly" ->
         Policy(GmvDrilldowns, "channel", "campaign", <<>>)
    [] metric = "gmv" /\ family = "category_gmv_anomaly" ->
         Policy(GmvDrilldowns, "category", "inventory", <<>>)
    [] metric = "gmv" /\ family = "interaction_gmv_anomaly" /\ strategy = "standard" ->
         Policy(<<"channel", "category">>, "channel", "interaction", <<>>)
    [] OTHER -> NoPolicy
===============================================================================
