------------------------------- MODULE RcaPlan -------------------------------
(***************************************************************************)
(* Evidence aliases (metric_rca/runtime/evidence_identity.py), plans and   *)
(* actions (metric_rca/runtime/plan_models.py), the SQL each tool runs     *)
(* (metric_rca/agent/tools/), and the static validation of a plan          *)
(* (metric_rca/runtime/plan_validator.py).                                 *)
(*                                                                         *)
(* An alias such as "E3_ch_campaign" is the sequence of its tokens,        *)
(* <<"E3", "ch", "campaign">>: the code only ever compares aliases for     *)
(* equality or for "is a prefix up to an underscore", and both are         *)
(* statements about token sequences.  A "_"-joined dimension or signal     *)
(* name contributes one token per part.                                    *)
(*                                                                         *)
(* An action is a record                                                   *)
(*   kind      one of ActionKinds                                          *)
(*   metric, date   its metric_id and target_date arguments                *)
(*   dim       its dimension argument, or NoValue                          *)
(*   element   its element argument; NoValue stands for None               *)
(*   filters   its filters argument, a function from dimensions            *)
(*   signal    its signal_type argument, or NoValue                        *)
(*   policy    "strict" or "global_explanatory" (explicit_scope_policy)    *)
(*   dynamic   the element is to be read from selection evidence           *)
(*   requires  the sequence of aliases that must be in the evidence graph  *)
(*   produces  the alias the plan declares                                 *)
(*   writes    the alias the tool allocates: it is "produces", extended    *)
(*             by the element when fetch_related_signal is given no alias  *)
(***************************************************************************)
EXTENDS Integers, SequencesExt

NoDiscriminator == "none"

(* Slip: alias families instead of prefixes.                               *)
AliasMatchesFamily(actual, required) == Head(actual) = Head(required)

(* alias_matches: equal, or the required alias followed by "_".            *)
AliasMatches(actual, required) == IsPrefix(required, actual)

(* The short dimension names of E3 aliases.                                *)
E3Token(dim) ==
  CASE dim = "channel"   -> "ch"
    [] dim = "product"   -> "prod"
    [] dim = "category"  -> "cat"
    [] dim = "device"    -> "dev"
    [] dim = "warehouse" -> "wh"

E2Alias(dim) == <<"E2", dim>>
E3AliasForDimension(dim) == <<"E3", E3Token(dim)>>

(* A signal name as alias tokens.                                          *)
SignalTokens(signal) ==
  IF signal = "refund_quality" THEN <<"refund", "quality">> ELSE <<signal>>

(* The signal alias of a lane without discriminator: the signal name is    *)
(* appended only when the lane's element is known at compile time.         *)
E3AliasForSignalLane(dim, signal, elementKnown) ==
  E3AliasForDimension(dim) \o (IF elementKnown THEN SignalTokens(signal) ELSE <<>>)

(* The suffixes of the selection alias and of the signal and contribution  *)
(* aliases of a discriminated lane.                                        *)
SelectionSuffix(disc) ==
  CASE disc = "conversion"  -> <<"conv">>
    [] disc = "interaction" -> <<"int">>
    [] OTHER                -> SignalTokens(disc)

LaneSuffix(disc) ==
  IF disc = "interaction" THEN <<"int">> ELSE SignalTokens(disc)

(* The three aliases allocated to a lane.  The only override that differs  *)
(* from the suffix rule is the selection alias of (channel, campaign),     *)
(* shortened to fit the 64-character evidence id.                          *)
LaneEvidenceAliases(dim, disc) ==
  IF disc = NoDiscriminator
  THEN [selection    |-> <<"E", "select", dim>>,
        signal       |-> E3AliasForDimension(dim),
        contribution |-> <<"E4", dim>>]
  ELSE [selection    |-> <<"E", "select">> \o
                           (IF dim = "channel" /\ disc = "campaign"
                            THEN <<"ch", "campaign">>
                            ELSE <<dim>> \o SelectionSuffix(disc)),
        signal       |-> E3AliasForDimension(dim) \o LaneSuffix(disc),
        contribution |-> <<"E4", dim>> \o LaneSuffix(disc)]

-------------------------------------------------------------------------------
(* Plans.                                                                  *)

NoValue == "none"
NoFilters == <<>>       \* the function with the empty domain
Picked == "picked"      \* the element a selection picks when it runs

ActionKinds == {"detect_anomaly", "drilldown_dimension",
                "select_signal_element", "fetch_related_signal",
                "calculate_contribution", "merge_contribution_sets",
                "rank_root_causes"}

(* DATA_ACTION_KINDS of the executor, DATA_FETCHING_ACTIONS of the gate.   *)
DataKinds == {"detect_anomaly", "drilldown_dimension",
              "select_signal_element", "fetch_related_signal",
              "calculate_contribution"}

(* DOWNSTREAM_ACTIONS of the gate.                                         *)
DownstreamKinds == ActionKinds \ {"detect_anomaly"}

E1 == <<"E1">>
E4 == <<"E4">>
ERank == <<"E", "rank">>

(* An action with its arguments still empty.                               *)
Action(kind, metric, date, requires, produces) ==
  [kind |-> kind, metric |-> metric, date |-> date,
   dim |-> NoValue, element |-> NoValue, filters |-> NoFilters,
   signal |-> NoValue, policy |-> "strict", dynamic |-> FALSE,
   requires |-> requires, produces |-> produces, writes |-> produces]

FilterOf(action, dim) ==
  IF dim \in DOMAIN action.filters THEN action.filters[dim] ELSE NoValue

(* SQL statements run by a successful tool call: a current and a baseline  *)
(* query each; a contribution of gmv or net_gmv adds the two factor        *)
(* metrics, two queries each; merge and rank only read evidence rows.      *)
SqlCost(action) ==
  IF action.kind \notin DataKinds THEN 0
  ELSE IF /\ action.kind = "calculate_contribution"
          /\ action.metric \in {"gmv", "net_gmv"}
       THEN 6 ELSE 2

(* validate_plan_actions for a fresh run: every required alias is matched  *)
(* by an alias declared earlier, no alias is declared twice, and merge and *)
(* rank make the canonical E4 and E_rank.                                  *)
PlanIsValid(actions) ==
  /\ \A i \in DOMAIN actions : \A r \in ToSet(actions[i].requires) :
       \E j \in 1..(i - 1) : AliasMatches(actions[j].produces, r)
  /\ \A i, j \in DOMAIN actions :
       actions[i].produces = actions[j].produces => i = j
  /\ \A i \in DOMAIN actions :
       /\ actions[i].kind = "merge_contribution_sets" => actions[i].produces = E4
       /\ actions[i].kind = "rank_root_causes" => actions[i].produces = ERank
===============================================================================
