-------------------------------- MODULE Ranking --------------------------------
(***************************************************************************)
(* rank_root_causes (metric_rca/runtime/ranking.py) with the Adtributor    *)
(* (metric_rca/services/adtributor_service.py): the contribution set of E4 *)
(* is weighed by what the elements of all drilled dimensions explain, and  *)
(* one of several rules chooses the root cause.  The signals of the lanes  *)
(* are the stored E3 rows; every stored row passed the guard.              *)
(***************************************************************************)
EXTENDS ContributionSets

AdditiveMetrics == {"gmv", "net_gmv", "uv"}

-------------------------------------------------------------------------------
(* The Adtributor, over the elements stored with the drilldowns.           *)

TotalDrop(f, dim) == SumFunction(f.drop[dim])

(* explanatory_power of a pair, in percent; the sign is that of the share. *)
Power(f, pair) ==
  LET total == TotalDrop(f, pair[1])
      drop  == f.drop[pair[1]][pair[2]]
  IN  IF total > 0 THEN (100 * drop) \div total ELSE (-100 * drop) \div (-total)

(* The pairs with a positive score, and their ranks.                       *)
Explaining(f) ==
  UNION {{<<d, e>> : e \in {e \in DOMAIN f.drop[d] :
            TotalDrop(f, d) # 0 /\ Power(f, <<d, e>>) > 0}} : d \in Drilled(f)}

Surprise(f, pair) == f.surprise[pair[1]][pair[2]]
PairRank(f, pair) == <<Power(f, pair), Surprise(f, pair)>>

(* _greedy_select: the elements of a dimension by falling surprise, those  *)
(* that explain little left out, until enough is explained.                *)
GreedilySelected(f, dim) ==
  LET elements == InSomeOrder({p[2] : p \in {p \in Explaining(f) :
                                            p[1] = dim /\ Power(f, p) > 10}})
      order == FallingPositions([i \in DOMAIN elements |->
                 <<Surprise(f, <<dim, elements[i]>>)>>])
      by(n) == <<dim, elements[order[n]]>>
      before(n) == SumFunction([m \in 1..(n - 1) |-> Power(f, by(m))])
  IN  {by(n) : n \in {n \in DOMAIN order : before(n) <= 67}}

(* attribute_elements: it is only applicable to additive metrics, and only *)
(* when it selects something.                                              *)
AdtributorApplies(f) ==
  /\ f.metric \in AdditiveMetrics
  /\ \E d \in Drilled(f) : GreedilySelected(f, d) # {}

(* top_pair_by_dimension *)
TopPairs(f) ==
  LET explaining == Explaining(f)
  IN  {p \in explaining : \A q \in explaining :
         q[1] = p[1] => ~KeyLess(PairRank(f, p), PairRank(f, q))}

(* _should_project_only_primary_pair *)
ProjectsPrimaryOnly(c, candidates) ==
  /\ Len(candidates) = 1 /\ c.pairs \subseteq {Pair(c)}
  /\ c.type # "interaction"
  /\ c.contribution >= 90 /\ c.confidence >= 9000

Bounded(n) == IF n < 100 THEN n ELSE 100

(* A candidate weighed by those of its pairs that explain something.       *)
Weighed(f, c, scored) ==
  LET power == Bounded(SumFunction([p \in scored |-> Power(f, p)]))
  IN  [c EXCEPT !.power = power, !.contribution = power,
                !.surprise = SumFunction([p \in scored |-> Surprise(f, p)]),
                !.confidence = power * c.severity,
                !.evidence = ExtendUnique(@, <<ERank>>)]

(* _enhance_with_adtributor *)
Enhanced(f, candidates, explaining, top) ==
  LET widened(c) == [c EXCEPT !.pairs = @ \cup {Pair(c)} \cup
                       (IF ProjectsPrimaryOnly(c, candidates) THEN {}
                        ELSE GreedilySelected(f, c.dim) \cup top)]
      enhanced(c, wide) == IF wide.pairs \cap explaining = {} THEN c
                           ELSE Weighed(f, wide, wide.pairs \cap explaining)
  IN  Listed([n \in DOMAIN candidates |->
                enhanced(candidates[n], widened(candidates[n]))])

-------------------------------------------------------------------------------
(* What the stored signals say.                                            *)

(* _has_matching_signal_for_pair: some lane found its pair anomalous, in   *)
(* the required direction.  The type of the signal does not matter.        *)
HasSignal(f, pair, direction) ==
  \E i \in DOMAIN f.chains :
    /\ <<f.chains[i].dim, f.chains[i].pick>> = pair
    /\ f.signal[i].anomalous /\ f.signal[i].bad = direction

(* _has_matching_signal_evidence, in the direction of the anomaly.         *)
IsVerified(f, c) == HasSignal(f, Pair(c), f.bad)

(* _interaction_evidence_ids.  The rows are read in alphabetical order,    *)
(* which within a dimension is that of the lanes.                          *)
InteractionEvidence(f, c) ==
  LET chains == f.chains
      pairs  == {p \in c.pairs \cup {Pair(c)} : p[1] \in {"channel", "category"}}
      dims   == {p[1] : p \in pairs}
      of(d)  == {E2Alias(d), <<"E", "select", d>>, <<"E4", d>>}
      stored == FlattenSeq([i \in DOMAIN chains |->
                  chains[i].base \o <<chains[i].e3, chains[i].e4>>])
      named  == UNION {of(d) : d \in dims} \cup
                {chains[i].e3 : i \in {i \in DOMAIN chains :
                                         <<chains[i].dim, chains[i].pick>> \in pairs}}
  IN  ExtendUnique(c.evidence, SelectSeq(stored, LAMBDA a : a \in named))

-------------------------------------------------------------------------------
(* The rules, in the order in which they are tried.  Each is the set of    *)
(* the candidates it would select, empty or with one member.               *)

FirstWhere(candidates, positions) ==
  IF positions = {} THEN {} ELSE {candidates[Min(positions)]}

Matching(ranked, c) ==
  FirstWhere(ranked, {n \in DOMAIN ranked : KeyOf(ranked[n]) = KeyOf(c)})

(* _embedded_verified_ranked_candidate: a stockout gives way to a verified *)
(* campaign it is explained with, when that explains no less.              *)
EmbeddedCampaign(f, persisted, ranked) ==
  LET eligible(c, s) ==
        /\ c.type = "campaign" /\ c.dim = "channel"
        /\ Pair(c) \in (s.pairs \cup {Pair(s)}) \cap Explaining(f)
        /\ Pair(s) \in Explaining(f)
        /\ ~KeyLess(PairRank(f, Pair(c)), PairRank(f, Pair(s)))
        /\ IsVerified(f, c)
      key(n) == PairRank(f, Pair(ranked[n])) \o <<ranked[n].confidence>>
      promotable == {n \in DOMAIN ranked :
                       \E s \in Matching(ranked, persisted) : eligible(ranked[n], s)}
  IN  IF persisted.type = "stockout" /\ AdtributorApplies(f)
      THEN FirstWhere(ranked, {n \in promotable :
             \A m \in promotable : ~KeyLess(key(n), key(m))})
      ELSE {}

(* _signal_verified_non_interaction_candidate_for_interaction *)
PlainInsteadOfInteraction(f, persisted, ranked) ==
  IF persisted.type = "interaction" /\ IsVerified(f, persisted)
  THEN FirstWhere(ranked, {n \in DOMAIN ranked :
         ranked[n].type # "interaction" /\ Pair(ranked[n]) = Pair(persisted)})
  ELSE {}

(* _signal_verified_ranked_candidate *)
Verified(f, persisted, ranked) ==
  IF ~IsVerified(f, persisted) THEN {}
  ELSE IF Matching(ranked, persisted) # {} THEN Matching(ranked, persisted)
       ELSE {WithEvidence(persisted, ERank)}

(* _interaction_promoted_candidate: of a bad anomaly of gmv or uv, an      *)
(* interaction, or a candidate of both dimensions that no signal of a      *)
(* single dimension explains, which becomes an interaction.                *)
Promoted(f, ranked) ==
  LET pairs(c) == c.pairs \cup {Pair(c)}
      unexplained(c) ==
        /\ c.dim \in {"channel", "category"}
        /\ \A d \in {"channel", "category"} : \E p \in pairs(c) : p[1] = d
        /\ ~\E p \in pairs(c) : p[1] \in {"channel", "category"} /\ HasSignal(f, p, TRUE)
      first == FirstWhere(ranked, {n \in DOMAIN ranked :
                 ranked[n].type = "interaction" \/ unexplained(ranked[n])})
      promoted(c) ==
        LET traced == [c EXCEPT !.evidence = InteractionEvidence(f, c)]
        IN  IF c.type = "interaction" THEN traced
            ELSE WithEvidence([traced EXCEPT !.type = "interaction"], ERank)
  IN  IF f.metric \in {"gmv", "uv"} /\ f.bad THEN {promoted(c) : c \in first} ELSE {}

-------------------------------------------------------------------------------
(* The list of candidates.                                                 *)

(* _is_redundant_with_selected *)
IsRedundant(c, selected) ==
  \E s \in ToSet(selected) : s.type = c.type /\ Pair(c) \in s.pairs \cup {Pair(s)}

(* _next_diverse_candidate_index: preferably a new type that is not        *)
(* redundant, else not redundant, else a new type, else the first.         *)
NextDiverse(rest, selected) ==
  LET types == {s.type : s \in ToSet(selected)}
      new   == {n \in DOMAIN rest : rest[n].type \notin types}
      other == {n \in DOMAIN rest : ~IsRedundant(rest[n], selected)}
  IN  CASE new \cap other # {}               -> Min(new \cap other)
        [] new \cap other = {} /\ other # {} -> Min(other)
        [] other = {} /\ new # {}            -> Min(new)
        [] OTHER                             -> 1

(* The next candidate moves from the rest to the chosen ones.              *)
TakeNext(chosen, rest) ==
  IF rest = <<>> THEN <<chosen, rest>>
  ELSE LET next == NextDiverse(rest, chosen)
       IN  <<Append(chosen, rest[next]), RemoveAt(rest, next)>>

(* _selected_first_with_diverse_top3: the selected candidate, two diverse  *)
(* ones, and the rest in their order.                                      *)
SelectedFirst(selected, rest) ==
  LET two   == TakeNext(<<selected>>, rest)
      three == TakeNext(two[1], two[2])
  IN  three[1] \o three[2]

Diverse(selected, ranked) ==
  SelectedFirst(selected, SelectSeq(ranked, LAMBDA c : KeyOf(c) # KeyOf(selected)))

(* _collapse_high_confidence_ranked_single_driver_set: a campaign or order *)
(* value cause that explains nearly everything stands alone, with its own  *)
(* power, which unlike that of a list is not bounded.                      *)
Collapsed(f, candidates) ==
  LET c == candidates[1]
      power == Power(f, Pair(c))
      alone == [c EXCEPT !.pairs = {Pair(c)}, !.power = power,
                         !.surprise = Surprise(f, Pair(c)),
                         !.contribution = power, !.confidence = power * c.severity]
  IN  IF /\ Len(candidates) > 1 /\ AdtributorApplies(f) /\ Pair(c) \in Explaining(f)
         /\ c.type \in {"campaign", "aov_drop"} /\ c.power # NoNumber
         /\ c.contribution >= 90 /\ c.confidence >= 9000 /\ c.severity >= 90
         /\ \A n \in DOMAIN candidates : candidates[n].type # "interaction"
      THEN <<alone>> ELSE candidates

(* Slip: what is verified is not kept for its own sake.                    *)
KeptWhereReplaced(f, persisted, ranked) ==
  IF EmbeddedCampaign(f, persisted, ranked) # {} THEN EmbeddedCampaign(f, persisted, ranked)
  ELSE PlainInsteadOfInteraction(f, persisted, ranked)

(* What a verified signal decides, by the first rule that selects.         *)
Kept(f, persisted, ranked) ==
  LET rules == SelectSeq(<<EmbeddedCampaign(f, persisted, ranked),
                           PlainInsteadOfInteraction(f, persisted, ranked),
                           Verified(f, persisted, ranked)>>, LAMBDA S : S # {})
  IN  IF rules = <<>> THEN {} ELSE Head(rules)

(* The list that starts with the choice: what is kept, else what is        *)
(* promoted, else the first of the ranking if the Adtributor weighed it,   *)
(* else the selection of E4.                                               *)
ListFor(f, persisted, ranked, kept, promoted) ==
  LET one(S) == CHOOSE c \in S : TRUE
  IN  CASE kept # {} -> Diverse(one(kept), ranked)
        [] kept = {} /\ promoted # {} ->
             Diverse(one(promoted),
                     SelectSeq(ranked, LAMBDA c : Pair(c) # Pair(one(promoted))))
        [] OTHER -> Diverse(IF AdtributorApplies(f) THEN ranked[1]
                            ELSE WithEvidence(persisted, ERank), ranked)

Chosen(f, persisted, ranked) ==
  Collapsed(f, ListFor(f, persisted, ranked,
                       Kept(f, persisted, ranked), Promoted(f, ranked)))

(* The candidates by confidence, each citing E_rank.                       *)
RankedCandidates(f, candidates) ==
  LET bound(ranked) == Listed([n \in DOMAIN ranked |-> WithEvidence(ranked[n], ERank)])
  IN  bound(RankedByConfidence(
        IF AdtributorApplies(f) THEN Enhanced(f, candidates, Explaining(f), TopPairs(f))
        ELSE candidates))

WithCandidates(set, candidates) ==
  [set EXCEPT !.selected = candidates[1], !.candidates = candidates]

(* Slip: the selection is the one from before the list was collapsed.      *)
RankedSetUncollapsed(f, set) ==
  LET ranked == RankedCandidates(f, set.candidates)
  IN  [set EXCEPT !.candidates = Chosen(f, set.selected, ranked),
                  !.selected = ListFor(f, set.selected, ranked,
                    Kept(f, set.selected, ranked), Promoted(f, ranked))[1]]

(* rank_from_persisted_e4: the head of the list is the selection.          *)
RankedSet(f, set) ==
  WithCandidates(set, Chosen(f, set.selected, RankedCandidates(f, set.candidates)))
===============================================================================
