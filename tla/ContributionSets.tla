--------------------------- MODULE ContributionSets ---------------------------
(***************************************************************************)
(* Contribution sets: what calculate_contribution makes of one lane        *)
(* (metric_rca/agent/tools/calculate_contribution.py,                      *)
(* metric_rca/services/attribution_service.py) and how the sets of several *)
(* lanes become one (metric_rca/runtime/contribution_set_builder.py,       *)
(* metric_rca/agent/tools/merge_contribution_sets.py).                     *)
(*                                                                         *)
(* The facts of a question are a record f:                                 *)
(*   metric, family   what is asked                                        *)
(*   bad       the metric moved in its bad direction                       *)
(*   drop      by dimension and element, how far the element moved in the  *)
(*             direction of the metric, in percent of its baseline, all    *)
(*             baselines being equal; negative when it moved the other way *)
(*   surprise  by dimension and element, its surprise_js                   *)
(*   pick      by lane, the element its signal was read of                 *)
(*   chains    by lane, what it is about and the aliases of its rows:      *)
(*             ChainsOf(f)                                                 *)
(*   signal    by lane, that signal: [anomalous, bad, delta]               *)
(*   factor    the pairs <<dimension, element>> that moved most by the     *)
(*             order value (of gmv) or by refunds (of net_gmv)             *)
(*                                                                         *)
(* A candidate is a record [type, dim, element, pairs, power, surprise,    *)
(* contribution, severity, confidence, evidence]: "pairs" is the set of    *)
(* its dimension_elements, "power" is explanatory_power, NoNumber for      *)
(* None, and "evidence" the sequence of its evidence aliases.              *)
(* Contributions, powers and severities are in percent, confidences in     *)
(* 1/100 percent.  evidence_support and reflection_factor are always 1.    *)
(* A contribution set is [selected, candidates, sources, orderValue]: the  *)
(* aliases of its chain_evidence_ids, and whether its decomposition blames *)
(* the order value.                                                        *)
(***************************************************************************)
EXTENDS PlanCompiler

NoNumber == -1

(* root_cause_type_for_metric_dimension: the policy of the signal if there *)
(* is one, else the policy of the dimension.                               *)
RootCauseType(metric, dim, signal) ==
  CASE signal = "interaction" /\ metric \in {"gmv", "uv"} -> "interaction"
    [] \/ signal = "conversion" /\ dim = "channel" /\ metric \in {"gmv", "net_gmv"}
       \/ metric = "pay_cvr" -> "conversion_drop"
    [] \/ signal = "refund_quality" /\ metric = "net_gmv" /\ dim = "channel"
       \/ metric = "net_gmv" /\ dim = "product"
       \/ metric \in {"refund_rate", "complaint_rate"} -> "complaint"
    [] metric \in {"gmv", "net_gmv"} /\ dim \in {"category", "product"} -> "stockout"
    [] metric = "stockout_rate" -> "stockout"
    [] OTHER -> "campaign"

DefaultType(metric, dim) == RootCauseType(metric, dim, NoValue)

(* The lanes of a question with the evidence they make: several lanes are  *)
(* merged, the only lane of a policy with one drilldown writes E4 itself.  *)
PolicyOf(f) == DiscoveryPolicy(f.metric, f.family, "standard")
IsMerged(f) == Len(PolicyOf(f).drilldowns) > 1
Drilled(f)  == ToSet(PolicyOf(f).drilldowns)

MergedChain(lane, known, aliases, pick) ==
  [dim |-> lane.dim, signal |-> lane.signal, pick |-> pick,
   base |-> <<E1, E2Alias(lane.dim)>> \o (IF known THEN <<>> ELSE <<aliases.selection>>),
   e3 |-> aliases.signal, e4 |-> aliases.contribution]

OnlyChain(chain) ==
  [chain EXCEPT !.e3 = E3AliasForDimension(chain.dim) \o <<chain.pick>>, !.e4 = E4]

ChainOf(lane, known, pick) == MergedChain(lane, known, LaneAliases(lane, known), pick)

ChainsBy(metric, policy, pick) ==
  IF Len(policy.drilldowns) > 1
  THEN LET lanes == LanesOf(metric, policy)
       IN  [i \in DOMAIN lanes |->
              ChainOf(lanes[i], lanes[i].binding = "explicit_scope", pick[i])]
  ELSE <<OnlyChain(ChainOf(Lane(policy.firstDim, policy.firstSignal), FALSE, pick[1]))>>

ChainsOf(f) == ChainsBy(f.metric, PolicyOf(f), f.pick)

(* The sequence itself, its elements evaluated once.                       *)
Listed(seq) == <<>> \o seq

InSomeOrder(S) == FoldSet(LAMBDA x, seq : Append(seq, x), <<>>, S)

ExtendUnique(values, additions) ==
  FoldLeft(LAMBDA all, x : IF x \in ToSet(all) THEN all ELSE Append(all, x),
           values, additions)

-------------------------------------------------------------------------------
(* Ranking by confidence.                                                  *)

(* _candidate_score *)
Score(c) == IF c.power = NoNumber THEN c.confidence ELSE c.power * c.severity

(* The order of two sort keys, sequences of numbers.                       *)
KeyLess(k, l) ==
  \E i \in DOMAIN k : k[i] < l[i] /\ \A j \in 1..(i - 1) : k[j] = l[j]

(* sorted(..., reverse=True): the positions by falling key, equal keys     *)
(* in their order.                                                         *)
FallingPositions(keys) ==
  LET k == Listed(keys)
      before(i, j) == KeyLess(k[j], k[i]) \/ (k[i] = k[j] /\ i < j)
      place == Listed([i \in DOMAIN k |-> Cardinality({j \in DOMAIN k : before(j, i)}) + 1])
  IN  Listed([n \in DOMAIN k |-> CHOOSE i \in DOMAIN k : place[i] = n])

(* rank_root_causes *)
RankedByConfidence(candidates) ==
  LET best    == Max({Score(candidates[i]) : i \in DOMAIN candidates})
      share(c) == IF best > 0 THEN (10000 * Score(c)) \div best ELSE 0
      scaled  == Listed([i \in DOMAIN candidates |->
                   [candidates[i] EXCEPT !.confidence = share(candidates[i])]])
      order   == FallingPositions([i \in DOMAIN scaled |->
                   <<scaled[i].confidence, scaled[i].surprise>>])
  IN  Listed([n \in DOMAIN order |-> scaled[order[n]]])

-------------------------------------------------------------------------------
(* calculate_contribution.                                                 *)

Positive(n) == IF n > 0 THEN n ELSE 0

(* compute_dimension_contribution: the elements that moved with the        *)
(* metric, ranked.                                                         *)
Attributed(f, chain) ==
  LET drop     == f.drop[chain.dim]
      total    == SumFunction([e \in DOMAIN drop |-> Positive(drop[e])])
      movers   == InSomeOrder({e \in DOMAIN drop : drop[e] > 0})
      share(e) == (100 * drop[e]) \div total
      severity(e) == IF drop[e] < 100 THEN drop[e] ELSE 100
  IN  RankedByConfidence(Listed([n \in DOMAIN movers |->
        [type |-> DefaultType(f.metric, chain.dim),
         dim |-> chain.dim, element |-> movers[n], pairs |-> {},
         power |-> NoNumber, surprise |-> NoNumber,
         contribution |-> share(movers[n]), severity |-> severity(movers[n]),
         confidence |-> share(movers[n]) * severity(movers[n]),
         evidence |-> chain.base \o <<chain.e3, chain.e4>>]]))

(* The tool fails when its element is not attributed.                      *)
IsAttributed(f, chain) == f.drop[chain.dim][chain.pick] > 0

(* _with_selected_signal_severity and the factor decomposition: the signal *)
(* and the factors decide the type of the selected candidate.              *)
BlamesOrderValue(f, chain) ==
  f.metric = "gmv" /\ <<chain.dim, chain.pick>> \in f.factor

SelectedType(f, chain) ==
  CASE BlamesOrderValue(f, chain) /\ f.bad -> "aov_drop"
    [] f.metric = "net_gmv" /\ <<chain.dim, chain.pick>> \in f.factor -> "complaint"
    [] OTHER -> RootCauseType(f.metric, chain.dim, chain.signal)

LaneSet(f, i) ==
  LET chain      == f.chains[i]
      attributed == Attributed(f, chain)
      strength(c) == Larger(c.severity, f.signal[i].delta)
      selected(c) == [c EXCEPT !.type = SelectedType(f, chain),
                               !.severity = strength(c),
                               !.confidence = c.contribution * strength(c)]
      candidates == Listed([n \in DOMAIN attributed |->
                      IF attributed[n].element = chain.pick
                      THEN selected(attributed[n]) ELSE attributed[n]])
  IN  [selected   |-> CHOOSE c \in ToSet(candidates) : c.element = chain.pick,
       candidates |-> candidates, sources |-> <<>>,
       orderValue |-> BlamesOrderValue(f, chain)]

-------------------------------------------------------------------------------
(* merge_contribution_sets, over a sequence of lane sets.                  *)

KeyOf(c) == <<c.type, c.dim, c.element>>
Pair(c)  == <<c.dim, c.element>>

SortKey(c)     == <<c.confidence, c.contribution, c.severity>>
StrengthKey(c) == <<c.contribution, c.severity, c.confidence>>

AllCandidates(sets) == FlattenSeq([i \in DOMAIN sets |-> sets[i].candidates])

(* _merge_duplicate_candidate *)
MergedCandidate(left, right) ==
  [(IF KeyLess(SortKey(left), SortKey(right)) THEN right ELSE left) EXCEPT
     !.evidence = ExtendUnique(left.evidence, right.evidence),
     !.pairs = left.pairs \cup right.pairs]

CandidatesByKey(sets) ==
  FoldLeft(LAMBDA byKey, c :
             IF KeyOf(c) \in DOMAIN byKey
             THEN [byKey EXCEPT ![KeyOf(c)] = MergedCandidate(@, c)]
             ELSE byKey @@ (KeyOf(c) :> c),
           <<>>, AllCandidates(sets))

(* _all_sources_are_conversion *)
OnlyConversion(sets) ==
  \A i \in DOMAIN AllCandidates(sets) : AllCandidates(sets)[i].type = "conversion_drop"

(* _preferred_candidate_key: the first of the strongest, or the choice of  *)
(* the first lane.                                                         *)
PreferredKey(sets) ==
  LET all == AllCandidates(sets)
      order == FallingPositions([i \in DOMAIN all |-> StrengthKey(all[i])])
  IN  IF OnlyConversion(sets) THEN KeyOf(all[Head(order)])
      ELSE KeyOf(sets[1].selected)

(* _is_material_source_runner *)
IsMaterialRunner(c, selected) ==
  /\ c.dim = "channel" /\ c.contribution >= 20
  /\ \/ c.type = "campaign"
     \/ /\ c.type = "conversion_drop"
        /\ selected.type = "conversion_drop" /\ selected.dim = "channel"

(* _source_representative_keys *)
RepresentativeKeys(set, preferred, onlyConversion) ==
  LET runners == SelectSeq(set.candidates,
                   LAMBDA c : /\ KeyOf(c) # KeyOf(set.selected)
                              /\ IsMaterialRunner(c, set.selected))
  IN  IF onlyConversion /\ KeyOf(set.selected) # preferred THEN <<>>
      ELSE <<KeyOf(set.selected)>> \o [i \in DOMAIN runners |-> KeyOf(runners[i])]

(* _compose_representative_keys: an interaction gives way to another cause *)
(* of its dimension, unless it is strong in both dimensions.               *)
ComposedKeys(preferred, keys, byKey) ==
  LET ordered == ExtendUnique(<<preferred>>, keys)
      among(P(_)) == {byKey[k].dim : k \in {k \in ToSet(ordered) : P(byKey[k])}}
      explained == among(LAMBDA c : c.type # "interaction")
      strong == among(LAMBDA c : c.type = "interaction" /\ c.contribution >= 60)
      kept == IF Cardinality(strong) >= 2 THEN strong ELSE {}
  IN  SelectSeq(ordered, LAMBDA k : \/ k = preferred
                                    \/ byKey[k].type # "interaction"
                                    \/ byKey[k].dim \notin explained
                                    \/ byKey[k].dim \in kept)

(* _collapse_high_confidence_single_driver_keys *)
CollapsedKeys(preferred, keys, byKey) ==
  IF /\ Len(keys) >= 5
     /\ \A k \in ToSet(keys) : byKey[k].type # "interaction"
     /\ byKey[preferred].confidence >= 9000
     /\ byKey[preferred].contribution >= 90
  THEN <<preferred>> ELSE keys

(* _embed_material_campaign_channel_runners *)
Embedded(keys, byKey) ==
  LET campaigns == {k \in ToSet(keys) : byKey[k].type = "campaign" /\ byKey[k].dim = "channel"}
      material  == {Pair(byKey[k]) : k \in {k \in campaigns : byKey[k].contribution >= 20}}
      embedded(c) == IF Cardinality(material) >= 2 /\ KeyOf(c) \in campaigns
                     THEN [c EXCEPT !.pairs = @ \cup {Pair(c)} \cup material] ELSE c
  IN  Listed([n \in DOMAIN keys |-> embedded(byKey[keys[n]])])

WithEvidence(c, alias) == [c EXCEPT !.evidence = ExtendUnique(@, <<alias>>)]

(* The representatives of all lanes, composed and collapsed.               *)
MergedKeys(sets, preferred, byKey) ==
  LET offered == FlattenSeq([i \in DOMAIN sets |->
                   RepresentativeKeys(sets[i], preferred, OnlyConversion(sets))])
  IN  CollapsedKeys(preferred, ComposedKeys(preferred, offered, byKey), byKey)

(* ContributionSetBuilder.merge and the tool around it, which binds the    *)
(* canonical E4 to every candidate and takes the decomposition of the      *)
(* first source that knows the selected candidate.                         *)
MergeOf(sets, aliases, preferred, byKey) ==
  LET embedded == Embedded(MergedKeys(sets, preferred, byKey), byKey)
      candidates == Listed([n \in DOMAIN embedded |-> WithEvidence(embedded[n], E4)])
      knowing == {i \in DOMAIN sets :
                    \E c \in ToSet(sets[i].candidates) : KeyOf(c) = preferred}
  IN  [selected   |-> candidates[1],
       candidates |-> candidates,
       sources    |-> aliases,
       orderValue |-> sets[Min(knowing)].orderValue]

MergedSet(sets, aliases) ==
  MergeOf(sets, aliases, PreferredKey(sets), CandidatesByKey(sets))
===============================================================================
