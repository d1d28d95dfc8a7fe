----------------------------- MODULE PlanCompiler -----------------------------
(***************************************************************************)
(* The plan compiler (metric_rca/runtime/plan_compiler.py): a parsed       *)
(* intent, the memory hints and the run budget become a typed plan or a    *)
(* typed error.                                                            *)
(*                                                                         *)
(* An intent is [metric, date, family, strategy, dim, element, filters],   *)
(* with NoValue for None.  A hint is a verified case prior                 *)
(* [metric, confident, dims, signals]: "confident" says that its           *)
(* confidence is at least 0.70, "dims" is its preferred dimensions in      *)
(* order, "signals" its preferred signal types, empty for no preference.   *)
(* Hints come as a sequence sorted by falling confidence.                  *)
(***************************************************************************)
EXTENDS PolicyRegistry

NoError == "none"

(* _explicit_scope: the filters if there are any, else the single pair.    *)
ExplicitScope(intent) ==
  IF intent.filters # NoFilters THEN intent.filters
  ELSE IF intent.dim # NoValue /\ intent.element # NoValue
       THEN [d \in {intent.dim} |-> intent.element]
       ELSE NoFilters

(* _explicit_dimension_element: the pair of the intent if it has one, else *)
(* that of its only filter.                                                *)
ScopedDim(intent) ==
  IF intent.dim # NoValue /\ intent.element # NoValue THEN intent.dim
  ELSE IF \E d \in DOMAIN intent.filters : DOMAIN intent.filters = {d}
       THEN CHOOSE d \in DOMAIN intent.filters : TRUE
       ELSE NoValue

ScopedElement(intent) ==
  IF intent.dim # NoValue /\ intent.element # NoValue THEN intent.element
  ELSE IF ScopedDim(intent) # NoValue THEN intent.filters[ScopedDim(intent)]
       ELSE NoValue

(* _parsed_scope_dimensions *)
ScopeDims(intent) ==
  DOMAIN intent.filters \cup
  (IF intent.dim # NoValue /\ intent.element # NoValue THEN {intent.dim} ELSE {})

(* discovery_policy_from_intent: a scoped intent only gets a policy that   *)
(* is made for explicit scopes and covers all of its dimensions.           *)
PolicyForIntent(intent) ==
  LET policy == DiscoveryPolicy(intent.metric, intent.family, intent.strategy)
  IN  IF \/ ScopeDims(intent) = {}
         \/ /\ policy.scopeMode = "explicit_multi_driver"
            /\ ScopeDims(intent) \subseteq policy.scopeDims
      THEN policy ELSE NoPolicy

FiltersExcept(filters, dim) == [d \in DOMAIN filters \ {dim} |-> filters[d]]

IsScopedInteraction(intent) ==
  /\ intent.family \in {"interaction_gmv_anomaly", "interaction_uv_anomaly"}
  /\ {"channel", "category"} \subseteq DOMAIN ExplicitScope(intent)

(* The branch of compile, which is the scope mode of the plan.             *)
ScopeMode(intent) ==
  IF ScopedDim(intent) # NoValue
  THEN IF PolicyForIntent(intent).scopeMode = "explicit_multi_driver"
       THEN "explicit_multi_driver" ELSE "explicit_single"
  ELSE IF IsScopedInteraction(intent) THEN "scoped_interaction" ELSE "unscoped"

(* Slip: only the preferred dimensions are drilled.                        *)
PolicyNarrowedByHints(intent, policy, hints) ==
  LET preferred == FlattenSeq([i \in DOMAIN hints |->
                     SelectSeq(hints[i].dims, LAMBDA d : d \in ToSet(policy.drilldowns))])
  IN  IF preferred = <<>> THEN policy
      ELSE Policy(preferred, Head(preferred), DefaultSignal(intent.metric, Head(preferred)), <<>>)

(* _policy_with_memory_hints: the first confident hint of the metric with  *)
(* a drilled dimension of a preferred signal makes that dimension first;   *)
(* the policy built for it keeps the drilldowns and drops the lanes.       *)
PolicyWithMemoryHints(intent, policy, hints) ==
  LET usable(n, d) ==
        /\ hints[n].metric = intent.metric /\ hints[n].confident
        /\ d \in ToSet(policy.drilldowns)
        /\ d \in AllowedDimensions(intent.metric)
        /\ DefaultSignal(intent.metric, d) # NoValue
        /\ \/ hints[n].signals = {}
           \/ DefaultSignal(intent.metric, d) \in hints[n].signals
      fitting == {n \in DOMAIN hints : \E d \in ToSet(hints[n].dims) : usable(n, d)}
      first == Min(fitting)
      dims == hints[first].dims
      dim == dims[Min({k \in DOMAIN dims : usable(first, dims[k])})]
  IN  IF intent.strategy # "standard" \/ fitting = {} THEN policy
      ELSE Policy(policy.drilldowns, dim, DefaultSignal(intent.metric, dim), <<>>)

(* Slip: only the first signal dimension gets a lane.                      *)
FirstLaneOf(metric, policy) == <<Lane(policy.firstDim, policy.firstSignal)>>

(* _discovery_lanes: the declared lanes, else one lane per drilldown with  *)
(* the first signal dimension in front.                                    *)
LanesOf(metric, policy) ==
  IF policy.lanes # <<>> THEN policy.lanes
  ELSE LET signal(d) == IF policy.firstSignal = "interaction" THEN "interaction"
                        ELSE DefaultSignal(metric, d)
           other(d) == IF d = policy.firstDim THEN <<>> ELSE <<Lane(d, signal(d))>>
       IN  <<Lane(policy.firstDim, policy.firstSignal)>> \o
           FlattenSeq([i \in DOMAIN policy.drilldowns |-> other(policy.drilldowns[i])])

DrilldownAction(intent, dim, filters) ==
  [Action("drilldown_dimension", intent.metric, intent.date, <<E1>>, E2Alias(dim))
     EXCEPT !.dim = dim, !.filters = filters]

SelectAction(intent, lane, alias, filters) ==
  [Action("select_signal_element", intent.metric, intent.date,
          <<E1, E2Alias(lane.dim)>>, alias)
     EXCEPT !.dim = lane.dim, !.signal = lane.signal, !.filters = filters]

FetchAction(intent, lane, element, requires, alias, filters) ==
  [Action("fetch_related_signal", intent.metric, intent.date, requires, alias)
     EXCEPT !.dim = lane.dim, !.signal = lane.signal, !.element = element,
            !.dynamic = (element = NoValue), !.filters = filters]

ContributionAction(intent, lane, element, requires, alias, filters) ==
  [Action("calculate_contribution", intent.metric, intent.date, requires, alias)
     EXCEPT !.dim = lane.dim, !.element = element,
            !.dynamic = (element = NoValue), !.filters = filters]

RankAction(intent, requires) ==
  Action("rank_root_causes", intent.metric, intent.date, requires, ERank)

(* One turn of the loop of _parallel_broad_contribution_chains: select     *)
(* (only when the element is not known yet), fetch, contribution.          *)
LaneElement(lane, scopedElements, scope) ==
  IF lane.dim \in DOMAIN scopedElements THEN scopedElements[lane.dim]
  ELSE IF lane.binding = "explicit_scope" THEN scope[lane.dim]
       ELSE NoValue

LaneAliases(lane, elementKnown) ==
  [LaneEvidenceAliases(lane.dim, lane.disc) EXCEPT
     !.signal = IF lane.disc # NoDiscriminator THEN @
                ELSE E3AliasForSignalLane(lane.dim, lane.signal, elementKnown)]

LaneActions(intent, lane, element, filters, scope) ==
  LET aliases  == LaneAliases(lane, element # NoValue)
      signalFilters == IF lane.filterMode = "none" THEN NoFilters ELSE filters
      selection == IF element = NoValue THEN <<aliases.selection>> ELSE <<>>
      base     == <<E1, E2Alias(lane.dim)>> \o selection
      policy   == IF scope = NoFilters THEN "strict" ELSE lane.policy
      chain    == (IF element = NoValue
                   THEN <<SelectAction(intent, lane, aliases.selection, signalFilters)>>
                   ELSE <<>>) \o
                  <<FetchAction(intent, lane, element, base, aliases.signal, signalFilters),
                    ContributionAction(intent, lane, element,
                      Append(base, aliases.signal), aliases.contribution, filters)>>
  IN  [i \in DOMAIN chain |-> [chain[i] EXCEPT !.policy = policy]]

(* _parallel_broad_contribution_chains: all lanes, then merge and rank.    *)
MergeAndRank(intent, policy, chains) ==
  LET made(kind) == FlattenSeq([k \in DOMAIN chains |->
        IF chains[k].kind = kind THEN <<chains[k].produces>> ELSE <<>>])
      e4s == made("calculate_contribution")
      drilled == [i \in DOMAIN policy.drilldowns |-> E2Alias(policy.drilldowns[i])]
  IN  <<Action("merge_contribution_sets", intent.metric, intent.date, e4s, E4),
        RankAction(intent, <<E1>> \o drilled \o made("select_signal_element") \o
                           made("fetch_related_signal") \o e4s \o <<E4>>)>>

(* "filters" gives each dimension its contribution filters.                *)
LaneChains(intent, lanes, scopedElements, filters, scope) ==
  FlattenSeq([i \in DOMAIN lanes |->
    LaneActions(intent, lanes[i], LaneElement(lanes[i], scopedElements, scope),
                filters[lanes[i].dim], scope)])

WithMergeAndRank(intent, policy, chains) ==
  chains \o MergeAndRank(intent, policy, chains)

Drilldowns(intent, policy, filters) ==
  [i \in DOMAIN policy.drilldowns |->
     DrilldownAction(intent, policy.drilldowns[i], filters[policy.drilldowns[i]])]

(* _explicit_actions.  The signal alias is left to the tool, which appends *)
(* the element.                                                            *)
ExplicitActions(intent) ==
  LET dim == ScopedDim(intent)
      element == ScopedElement(intent)
      filters == ExplicitScope(intent)
      lane == Lane(dim, DefaultSignal(intent.metric, dim))
      e3 == <<"E3">>
      base == <<E1, E2Alias(dim)>>
  IN  <<DrilldownAction(intent, dim, filters),
        [FetchAction(intent, lane, element, base, e3, filters)
           EXCEPT !.writes = E3AliasForDimension(dim) \o <<element>>],
        ContributionAction(intent, lane, element, Append(base, e3), E4, filters),
        RankAction(intent, base \o <<e3, E4>>)>>

(* _discovery_actions: the lanes of an explicit multi-driver scope.        *)
DiscoveryActions(intent, policy) ==
  LET scope == ExplicitScope(intent)
      filters == [d \in ToSet(policy.drilldowns) |-> FiltersExcept(scope, d)]
  IN  Drilldowns(intent, policy, filters) \o
      WithMergeAndRank(intent, policy,
        LaneChains(intent, LanesOf(intent.metric, policy), NoFilters, filters, scope))

(* _scoped_interaction_actions: channel and category are both known.       *)
ScopedInteractionActions(intent) ==
  LET scope == ExplicitScope(intent)
      policy == Policy(<<"channel", "category">>, "channel", "interaction", <<>>)
      filters == [d \in ToSet(policy.drilldowns) |-> FiltersExcept(scope, d)]
      elements == [d \in {"channel", "category"} |-> scope[d]]
  IN  Drilldowns(intent, policy, filters) \o
      WithMergeAndRank(intent, policy,
        LaneChains(intent, LanesOf(intent.metric, policy), elements, filters, NoFilters))

(* _broad_actions: one drilldown makes a single chain, several make lanes. *)
BroadActions(intent, policy) ==
  LET unfiltered == [d \in ToSet(policy.drilldowns) |-> NoFilters]
      lane == Lane(policy.firstDim, policy.firstSignal)
      selection == <<"E", "select", lane.dim>>
      base == <<E1, E2Alias(lane.dim), selection>>
      e3 == <<"E3">>
  IN  Drilldowns(intent, policy, unfiltered) \o
      IF Len(policy.drilldowns) > 1
      THEN WithMergeAndRank(intent, policy,
             LaneChains(intent, LanesOf(intent.metric, policy), NoFilters, unfiltered, NoFilters))
      ELSE <<SelectAction(intent, lane, selection, NoFilters),
             [FetchAction(intent, lane, NoValue, base, e3, NoFilters)
                EXCEPT !.writes = E3AliasForDimension(lane.dim) \o <<Picked>>],
             ContributionAction(intent, lane, NoValue, Append(base, e3), E4, NoFilters),
             RankAction(intent, base \o <<e3, E4>>)>>

(* The policy an unscoped compilation works with.                          *)
BroadPolicy(intent, hints) ==
  PolicyWithMemoryHints(intent, PolicyForIntent(intent), hints)

CompiledActions(intent, hints) ==
  LET mode == ScopeMode(intent)
      detect == [Action("detect_anomaly", intent.metric, intent.date, <<>>, E1)
                   EXCEPT !.filters = ExplicitScope(intent)]
  IN  <<detect>> \o
      CASE mode = "explicit_single"       -> ExplicitActions(intent)
        [] mode = "explicit_multi_driver" -> DiscoveryActions(intent, PolicyForIntent(intent))
        [] mode = "scoped_interaction"    -> ScopedInteractionActions(intent)
        [] OTHER                          -> BroadActions(intent, BroadPolicy(intent, hints))

(* The errors raised before actions are built, in the order of the code.   *)
BroadPolicyError(intent, hints) ==
  LET policy == BroadPolicy(intent, hints)
      lanes == LanesOf(intent.metric, policy)
  IN  CASE policy.drilldowns = <<>> -> "DISCOVERY_POLICY_MISSING"
        [] /\ Len(policy.drilldowns) > 1
           /\ \E i \in DOMAIN lanes : lanes[i].signal = NoValue -> "SIGNAL_POLICY_MISSING"
        [] /\ Len(policy.drilldowns) > 1
           /\ \E i \in DOMAIN lanes : lanes[i].binding = "explicit_scope" ->
             "DISCOVERY_LANE_SCOPE_MISSING"
        [] OTHER -> NoError

PolicyError(intent, hints) ==
  LET mode == ScopeMode(intent)
  IN  IF mode = "scoped_interaction" THEN NoError
      ELSE IF ~(ScopeDims(intent) \subseteq AllowedDimensions(intent.metric))
           THEN "DISCOVERY_POLICY_INVALID"
      ELSE IF mode = "unscoped" THEN BroadPolicyError(intent, hints)
      ELSE IF /\ mode = "explicit_single"
              /\ DefaultSignal(intent.metric, ScopedDim(intent)) = NoValue
           THEN "SIGNAL_POLICY_MISSING"
      ELSE NoError

(* _plan_budget: a plan that merges lanes raises the limits to what its    *)
(* own actions are estimated to need, plus two queries.                    *)
Larger(a, b) == IF a < b THEN b ELSE a

EstimatedQueryCost(action) ==
  CASE action.kind \in DataKinds \ {"calculate_contribution"} -> 2
    [] action.kind = "calculate_contribution" ->
         IF action.metric \in {"gmv", "net_gmv"} THEN 6 ELSE 2
    [] OTHER -> 0

EstimatedQueryBudget(actions) ==
  LET sum[n \in 0..Len(actions)] ==
        IF n = 0 THEN 0 ELSE sum[n - 1] + EstimatedQueryCost(actions[n])
  IN  sum[Len(actions)] + 2

PlanBudget(actions, budget) ==
  IF \E i \in DOMAIN actions : actions[i].kind = "merge_contribution_sets"
  THEN [steps   |-> Larger(budget.steps, Len(actions)),
        queries |-> Larger(budget.queries, EstimatedQueryBudget(actions)),
        depth   |-> Larger(budget.depth, Cardinality(
                      {i \in DOMAIN actions : actions[i].kind = "drilldown_dimension"}))]
  ELSE budget

NoPlan == [metric |-> NoValue, date |-> NoValue, scope |-> NoFilters,
           mode |-> NoValue, actions |-> <<>>,
           budget |-> [steps |-> 0, queries |-> 0, depth |-> 0]]

NotPlanned(error) == [error |-> error, plan |-> NoPlan]

Planned(intent, actions, budget) ==
  IF ~PlanIsValid(actions) THEN NotPlanned("PLAN_INVALID")
  ELSE [error |-> NoError,
        plan  |-> [metric  |-> intent.metric,
                   date    |-> intent.date,
                   scope   |-> ExplicitScope(intent),
                   mode    |-> ScopeMode(intent),
                   actions |-> actions,
                   budget  |-> PlanBudget(actions, budget)]]

(* compile *)
Compile(intent, hints, budget) ==
  IF PolicyError(intent, hints) # NoError
  THEN NotPlanned(PolicyError(intent, hints))
  ELSE Planned(intent, CompiledActions(intent, hints), budget)
===============================================================================
