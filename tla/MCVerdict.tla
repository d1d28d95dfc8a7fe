------------------------------- MODULE MCVerdict -------------------------------
(***************************************************************************)
(* The verdict on small questions: two elements in every dimension, with   *)
(* equal baselines, and one question of ten elements.  The names are       *)
(* symmetric, so the first lane of a dimension picks "x" and the others    *)
(* either.                                                                 *)
(***************************************************************************)
EXTENDS Verdict, Acceptance

(* How far the two elements of a dimension moved with the metric, which    *)
(* moved by half of its baseline.                                          *)
Moves(x, y) == [e \in {"x", "y"} |-> IF e = "x" THEN x ELSE y]

(* All of ten elements moved alike.                                        *)
Everywhere == [e \in {"x", "y", "z", "s", "t", "u", "v", "w", "p", "q"} |-> 50]

(* The surprise of an element grows with its distance from its fair share, *)
(* and more below than above it.                                           *)
SurpriseOf(moves) ==
  LET fair == SumFunction(moves) \div Cardinality(DOMAIN moves)
  IN  [e \in DOMAIN moves |-> IF moves[e] > fair THEN 2 * (moves[e] - fair)
                            ELSE fair - moves[e]]

Signal(anomalous, bad) ==
  [anomalous |-> anomalous, bad |-> bad, delta |-> IF anomalous THEN 95 ELSE 5]

(* The facts of a question.  "found" says of the lanes whether their       *)
(* signal is anomalous, which then agrees with the metric; the signal of   *)
(* an interaction is the movement of the element itself.                   *)
Asked(metric, family, bad, drop, pick, found, factor) ==
  [anomalous |-> TRUE, metric |-> metric, family |-> family, bad |-> bad,
   drop |-> drop, pick |-> pick, found |-> found, factor |-> factor]

WithChains(q, chains) ==
  LET moved(i) == q.drop[chains[i].dim][q.pick[i]] >= 60
      signal(i) == IF chains[i].signal = "interaction" THEN moved(i) ELSE q.found[i]
  IN  [anomalous |-> q.anomalous, metric |-> q.metric, family |-> q.family,
       bad |-> q.bad, drop |-> q.drop, pick |-> q.pick, factor |-> q.factor,
       surprise |-> [d \in DOMAIN q.drop |-> SurpriseOf(q.drop[d])],
       chains |-> chains,
       signal |-> Listed([i \in DOMAIN chains |-> Signal(signal(i), q.bad)])]

Channels(moves) == "channel" :> moves
Categories(moves) == "category" :> moves
Products(moves) == "product" :> moves
Devices(moves) == "device" :> moves

(* gmv, six lanes: campaign and conversion of the channel, inventory of    *)
(* category and product, interaction of channel and category.              *)
GmvQuestions ==
  {Asked("gmv", "gmv_drop", TRUE,
         Channels(m) @@ Categories(n) @@ Products(Moves(50, 50)),
         <<"x", p, "x", "x", q, r>>, <<a, b, c, FALSE, FALSE, FALSE>>, {}) :
     m \in {Moves(100, 0), Moves(90, 10), Moves(60, 40), Moves(20, 80),
            Moves(100, -20)},
     n \in {Moves(90, 10), Moves(50, 50), Moves(20, 80)},
     p, q, r \in {"x", "y"}, a, b, c \in BOOLEAN}

(* gmv, blamed on the order value of a category or a channel.              *)
OrderValueQuestions ==
  {Asked("gmv", "gmv_drop", bad,
         Channels(m) @@ Categories(n) @@ Products(Moves(60, 40)),
         <<"x", p, "x", "x", "x", "x">>, <<a, FALSE, c, c, FALSE, FALSE>>, factor) :
     bad \in BOOLEAN, factor \in {{<<"category", "x">>}, {<<"channel", "x">>}},
     m \in {Moves(90, 10), Moves(60, 40)}, n \in {Moves(90, 10), Moves(40, 60)},
     p \in {"x", "y"}, a, c \in BOOLEAN}

(* gmv, the families that start with the channel or with the category:     *)
(* three lanes.                                                            *)
FamilyQuestions ==
  {Asked("gmv", family, TRUE,
         Channels(m) @@ Categories(n) @@ Products(Moves(50, 50)),
         <<"x", "x", "x">>, <<a, b, c>>, {}) :
     family \in {"channel_gmv_anomaly", "category_gmv_anomaly"},
     m, n \in {Moves(90, 10), Moves(60, 40), Moves(20, 80)}, a, b, c \in BOOLEAN}

(* uv: one lane, or three that look for an interaction.                    *)
UvQuestions ==
  {Asked("uv", "interaction_uv_anomaly", bad, Channels(m) @@ Categories(n),
         <<"x", p, q>>, <<FALSE, a, FALSE>>, {}) :
     bad, a \in BOOLEAN, p, q \in {"x", "y"},
     m, n \in {Moves(90, 10), Moves(60, 40), Moves(50, 50), Moves(20, 80)}}
  \cup
  {Asked("uv", "uv_drop", TRUE, Channels(m), <<"x">>, <<a>>, {}) :
     m \in {Moves(100, 0), Moves(60, 40), Moves(20, 80), Everywhere}, a \in BOOLEAN}

(* A rate, whose movement is not a sum over elements.                      *)
RateQuestions ==
  {Asked("pay_cvr", "cvr_drop", TRUE, Channels(m) @@ Devices(n),
         <<"x", p>>, <<a, b>>, {}) :
     m, n \in {Moves(90, 10), Moves(60, 40), Moves(20, 80)},
     p \in {"x", "y"}, a, b \in BOOLEAN}
  \cup
  {Asked("refund_rate", "refund_anomaly", TRUE, Products(m), <<p>>, <<a>>, {}) :
     m \in {Moves(60, 40), Moves(100, 0)}, p \in {"x", "y"}, a \in BOOLEAN}

(* net_gmv of a named channel: campaign, inventory and conversion.         *)
NetGmvQuestions ==
  {Asked("net_gmv", "net_gmv_drop", TRUE, Channels(m) @@ Categories(n),
         <<"x", "x", p>>, <<a, b, c>>, factor) :
     m, n \in {Moves(90, 10), Moves(60, 40), Moves(20, 80)}, p \in {"x", "y"},
     a, b, c \in BOOLEAN, factor \in {{}, {<<"channel", "x">>}}}

MCAsked ==
  GmvQuestions \cup OrderValueQuestions \cup FamilyQuestions \cup UvQuestions
    \cup RateQuestions \cup NetGmvQuestions

(* All of them, and one that turns out to be about no anomaly.             *)
MCQuestions ==
  {WithChains(q, Listed(ChainsOf(q))) :
     q \in MCAsked \cup {[q EXCEPT !.anomalous = FALSE] : q \in
                           {CHOOSE q \in MCAsked : q.metric = "refund_rate"}}}

Cause(type, dim, element, weight) ==
  [type |-> type, dim |-> dim, element |-> element, weight |-> weight]

(* The truths of the cases: none, one cause, several, one of them minor.   *)
MCTruths ==
  {NoTruth,
   [expected |-> TRUE, causes |-> <<Cause("campaign", "channel", "x", 100)>>],
   [expected |-> TRUE, causes |-> <<Cause("interaction", "category", "x", 100)>>],
   [expected |-> TRUE, causes |-> <<Cause("stockout", "category", "x", 35),
                                    Cause("campaign", "channel", "x", 50),
                                    Cause("conversion_drop", "channel", "y", 15)>>]}

-------------------------------------------------------------------------------
(* Evaluations of 28 cases: families of 9, 8, 7 and 2, a trap and another  *)
(* question without anomaly.                                               *)

Right(case, tags) ==
  [case |-> case, tags |-> tags, intent_ok |-> TRUE, anomaly_ok |-> TRUE, top1_ok |-> TRUE,
   top3_ok |-> TRUE, recall |-> 100, precision |-> 100, weighted |-> 100,
   evidence_coverage |-> 100, sql_safe |-> TRUE, reflection_repair_ok |-> TRUE,
   report_traceable_ok |-> TRUE, memory_pollution_ok |-> TRUE, task_ok |-> TRUE,
   memory_read |-> FALSE]

(* Its dominant cause is not the first of many; a major cause is missing.  *)
Second(row) == [row EXCEPT !.top1_ok = FALSE, !.precision = 20]
Missed(row) == [row EXCEPT !.top1_ok = FALSE, !.top3_ok = FALSE, !.recall = 50,
                           !.precision = 50, !.weighted = 50]
Alarmed(row) == [Missed(row) EXCEPT !.anomaly_ok = FALSE, !.task_ok = FALSE]

FlawsOf(row) ==
  {row, Alarmed(row), [row EXCEPT !.intent_ok = FALSE],
   [row EXCEPT !.evidence_coverage = 50], [row EXCEPT !.sql_safe = FALSE],
   [row EXCEPT !.report_traceable_ok = FALSE], [row EXCEPT !.memory_pollution_ok = FALSE],
   [row EXCEPT !.reflection_repair_ok = FALSE]}

Family(tags, size, missed, second) ==
  [i \in 1..size |->
     CASE i <= missed                     -> Missed(Right("other", tags))
       [] i > missed /\ i <= missed + second -> Second(Right("other", tags))
       [] OTHER                           -> Right("other", tags)]

Regression(rows, quick) ==
  [suite |-> "regression", disabled |-> rows,
   enabled |-> [i \in DOMAIN rows |-> [rows[i] EXCEPT !.top1_ok = i > quick]]]

(* Cases of every family are missed, and the first causes of some are not  *)
(* found; or a single case fails otherwise.                                *)
Cases(m, n, k, l, second, last) ==
  Family(<<"phase_c", "multi_cause", "discovery">>, 9, m, second)
    \o Family(<<"phase_c", "interaction">>, 8, n, second)
    \o Family(<<"p7", "specified_slice">>, 7, k, 0)
    \o Family(<<"p7", "adtributor", "discovery">>, 2, l, 0)
    \o last

Quiet(case) == Right(case, <<"phase_c", "weak_signal", "no_anomaly">>)
Trap        == Quiet("C20_cvr_no_anomaly_noise")

RegressionEvaluations ==
  {Regression(Cases(m, n, k, l, second, <<Trap, Quiet("other")>>), quick) :
     m, n, k \in 0..2, l \in 0..1, second \in {0, 1, 3}, quick \in {0, 4}}
  \cup
  {Regression(Cases(0, 1, 0, 0, 0, <<trap, last>>), 0) :
     trap \in {Trap, Alarmed(Trap), Quiet("other")}, last \in FlawsOf(Quiet("other"))}

(* Two cases that a prior may or may not help with, and may pollute.       *)
Remembered(case) ==
  LET row == Right(case, <<"memory_treatment", "discovery">>)
  IN  {[r EXCEPT !.memory_read = read] : read \in BOOLEAN,
         r \in {row, Missed(row), [row EXCEPT !.memory_pollution_ok = FALSE]}}

MemoryEvaluations ==
  {[suite |-> "memory-treatment", enabled |-> <<a, b>>, disabled |-> <<c, d>>] :
     a, c \in Remembered("M01"), b, d \in Remembered("M02")}

MCEvaluations == RegressionEvaluations \cup MemoryEvaluations

(* A question is asked, or an evaluation of questions sums up.             *)
Unasked ==
  /\ f = CHOOSE q \in Questions : TRUE
  /\ phase = "unasked" /\ stored = {} /\ sets = <<>> /\ errors = {}
  /\ e4 = NoSet /\ erank = NoSet /\ truth = NoTruth /\ score = NoScore

MCInit == \/ Init /\ evaluation = NoEvaluation /\ met = Open
          \/ Unasked /\ AcceptanceInit

Asking    == Next /\ UNCHANGED avars
Summing   == SumUp /\ UNCHANGED vars

MCSpec == MCInit /\ [][Asking \/ Summing]_<<vars, avars>>

(* The judgements on runs and on evaluations of runs.                      *)
JudgementsAreEarned == RewardIsEarned /\ MeasuresAgree /\ AcceptanceIsEarned
===============================================================================
