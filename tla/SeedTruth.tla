------------------------------- MODULE SeedTruth -------------------------------
(***************************************************************************)
(* The data and the labels of the profiles smoke and regression:           *)
(* metric_rca/data/anomaly_injection.py, the loop of _insert_business_facts *)
(* and the rows of _insert_ground_truth in data/seed_data.py, and what     *)
(* services/anomaly_service.py says of these data.                         *)
(*                                                                         *)
(* Days are numbered from the first of the 60.  Factors are in 1/One.      *)
(* The noise of a cell, 0 to 6 visitors, counts with each of its values;   *)
(* a refund counts with its probability.                                   *)
(***************************************************************************)
EXTENDS Integers, Sequences, FiniteSets, FiniteSetsExt

Target == 59  Quiet == 58  Borderline == 57  Spike == 56  LaggedObserve == 55
Interaction == 54  Lagged == 53  MultiCause == 52  MultiCauseCvr == 51  Residual == 50

One == 10000
Times(a, b) == (a * b) \div One

Channels   == [organic |-> 100, paid_ads |-> 135, social |-> 92, affiliate |-> 72]
Devices    == [mobile |-> 125, desktop |-> 78]
Categories == [electronics |-> 118, fashion |-> 95, home |-> 84]
Warehouses == [tokyo |-> 0, osaka |-> 1]

Price      == <<129, 219, 69, 99, 149, 89, 119, 49, 79>>
Products   == DOMAIN Price
CategoryOf(p) == IF p <= 3 THEN "electronics" ELSE IF p <= 6 THEN "fashion" ELSE "home"

Weekday(day)  == (day + 1) % 7
Weekly(day)   == IF Weekday(day) < 5 THEN 110 ELSE 86
Seasonal(day) == 1000 + (day % 14) * 6

(* What is injected: on a day, into the cells with an element of a         *)
(* dimension, a factor for the visitors and one for the buyers.            *)
Shock(day, dimension, element, uv, pay) ==
  [day |-> day, dimension |-> dimension, element |-> element, uv |-> uv, pay |-> pay]

TrafficMultiplier ==
  {Shock(Borderline, "channel", "paid_ads", 8800, 11500),
   Shock(Spike, "channel", "paid_ads", 25000, 23000),
   Shock(Borderline, "channel", "organic", 9500, One),
   Shock(Quiet, "channel", "organic", 9450, One),
   Shock(Target, "channel", "paid_ads", 3800, 3500),
   Shock(Target, "channel", "social", 4200, 4000),
   Shock(Target, "channel", "organic", 2200, One),
   Shock(Target, "device", "mobile", One, 5500),
   Shock(Target, "category", "electronics", One, 6200),
   Shock(Target, "channel", "affiliate", One, 4500),
   Shock(Target, "product", 3, One, 3500)}

(* Slip: the first of its two days is forgotten.                           *)
MultiCauseTrafficSlip == {Shock(LaggedObserve, "channel", "paid_ads", 5500, One)}

MultiCauseTraffic ==
  {Shock(day, "channel", "paid_ads", 5500, One) : day \in {MultiCause, LaggedObserve}}

LaggedTraffic == {Shock(LaggedObserve, "channel", "social", 3500, One)}

WeakSignal ==
  {Shock(day, "channel", "affiliate", 8200, 8500) : day \in {MultiCause, LaggedObserve}}

CvrSuppressor == {Shock(MultiCauseCvr, "channel", "social", One, 3500),
                  Shock(MultiCauseCvr, "channel", "organic", One, 7000)}

ResidualTraffic == {Shock(Residual, "channel", "paid_ads", 2500, One)}

Shocks == TrafficMultiplier \cup MultiCauseTraffic \cup LaggedTraffic \cup WeakSignal
            \cup CvrSuppressor \cup ResidualTraffic

(* The cell of the interaction has factors of its own.                     *)
InteractionMultiplier(day, channel, category) ==
  IF day # Interaction THEN [uv |-> One, pay |-> One]
  ELSE IF channel = "paid_ads" /\ category = "electronics" THEN [uv |-> 200, pay |-> 200]
  ELSE [uv  |-> IF channel = "paid_ads" THEN 5000 ELSE One,
        pay |-> IF category = "electronics" THEN 8000 ELSE One]

(* Orders are 3% or half of their amount, and refunded, in %.              *)
OrderAmount(day, p) ==
  CASE day = Target /\ (CategoryOf(p) = "fashion" \/ p = 2) -> 3
    [] day = Residual /\ CategoryOf(p) = "fashion"          -> 50
    [] OTHER                                                -> 100

RefundRate(day, p) ==
  CASE day = Target /\ p = 1                      -> 95
    [] day = Target /\ CategoryOf(p) = "fashion"  -> 42
    [] OTHER                                      -> 4

Complaints(day, p) ==
  CASE day = Target /\ p = 1                          -> 18
    [] day = Target /\ CategoryOf(p) = "electronics"  -> 10
    [] day = Target /\ CategoryOf(p) = "fashion"      -> 8
    [] OTHER                                          -> IF p = 1 THEN 2 ELSE 1

Support(day, p) ==
  CASE day = Target /\ p = 1                    -> 3
    [] day = Target /\ CategoryOf(p) # "home"   -> 4
    [] OTHER                                    -> IF p = 1 THEN 10 ELSE 8

(* In tenths of an hour.                                                   *)
StockoutHours(day, category, warehouse) ==
  LET index == Warehouses[warehouse]
  IN  CASE category = "electronics" /\ day \in {MultiCause, LaggedObserve} -> 120
        [] day = Target /\ category = "electronics" -> 155 + 10 * index
        [] day = Target /\ index = 1                -> 130
        [] OTHER                                    -> 5 + index

-------------------------------------------------------------------------------
(* The facts of a day.                                                     *)

InCell(s, p, channel, device) ==
  s.element = CASE s.dimension = "channel"  -> channel
                [] s.dimension = "device"   -> device
                [] s.dimension = "category" -> CategoryOf(p)
                [] s.dimension = "product"  -> p

(* The factors of a cell, all multiplied.                                  *)
Factors(day, p, channel, device) ==
  FoldSet(LAMBDA s, f : [uv |-> Times(s.uv, f.uv), pay |-> Times(s.pay, f.pay)],
          InteractionMultiplier(day, channel, CategoryOf(p)),
          {s \in Shocks : s.day = day /\ InCell(s, p, channel, device)})

(* Visitors in 1/100 before the noise: traffic_base is 82.                 *)
UvBase(day, p, channel, device) ==
  (((((((82 * Weekly(day) * Seasonal(day)) \div 1000) * Channels[channel]) \div 100)
    * Devices[device]) \div 100) * Categories[CategoryOf(p)]) \div 100

Uv(base, factors, noise) ==
  Max({1, (Times(base, factors.uv) + 100 * noise) \div 100})

BaseCvr(device) == IF device = "desktop" THEN 82 ELSE 69

Pay(day, p, device, uv, factors) ==
  Max({IF day = Target /\ CategoryOf(p) = "electronics" THEN 1 ELSE 0,
       (uv * BaseCvr(device) * factors.pay) \div (1000 * One)})

Noise == 0..6

Sum(Op(_), S) == MapThenSumSet(Op, S)

(* Visitors and buyers of a product, for all its cells and all noises.     *)
Traffic(day, p) ==
  LET cells == (DOMAIN Channels) \X (DOMAIN Devices)
      factors == [x \in cells |-> Factors(day, p, x[1], x[2])]
      uvs == [x \in cells |-> [n \in Noise |->
                Uv(UvBase(day, p, x[1], x[2]), factors[x], n)]]
  IN  [uv  |-> Sum(LAMBDA x : Sum(LAMBDA n : uvs[x][n], Noise), cells),
       pay |-> Sum(LAMBDA x : Sum(LAMBDA n : Pay(day, p, x[2], uvs[x][n], factors[x]), Noise),
                   cells)]

(* The values of the metrics on a day; the rates in 1/One.                 *)
Facts(day) ==
  LET traffic  == [p \in Products |-> Traffic(day, p)]
      Amount(p) == (traffic[p].pay * Price[p] * OrderAmount(day, p)) \div 100
      Refund(p) == (Amount(p) * RefundRate(day, p)) \div 100
      uv       == Sum(LAMBDA p : traffic[p].uv, Products)
      gmv      == Sum(Amount, Products)
      refunds  == Sum(Refund, Products)
      complaints == Sum(LAMBDA p : Complaints(day, p), Products)
      tickets  == complaints + Sum(LAMBDA p : Support(day, p), Products)
      stockout == Sum(LAMBDA p : Sum(LAMBDA w : StockoutHours(day, CategoryOf(p), w),
                                     DOMAIN Warehouses), Products)
  IN  [gmv            |-> gmv,
       net_gmv        |-> gmv - refunds,
       uv             |-> uv,
       pay_cvr        |-> (Sum(LAMBDA p : traffic[p].pay, Products) * One) \div uv,
       refund_rate    |-> ((refunds \div 100) * One) \div (gmv \div 100),
       stockout_rate  |-> (stockout * One) \div (18 * 240),
       complaint_rate |-> (complaints * One) \div tickets]

-------------------------------------------------------------------------------
(* The detector: a value is anomalous when it is 15% and two standard      *)
(* deviations off the mean of the four days before of the same weekday.    *)
Baseline(day) == {day - 7 * k : k \in 1..4}
LabelledDays == {Target, Quiet, Borderline, Spike, LaggedObserve, Interaction, MultiCause,
         MultiCauseCvr, Residual}
History == [day \in LabelledDays \cup UNION {Baseline(d) : d \in LabelledDays} |-> Facts(day)]

VARIABLES
  facts,   \* what the database answers: the values of the metrics, by day
  label    \* the label that is compared with it

(* How far a day is off the mean of the baseline of another, in 1/1000.    *)
OffMean(d, day, metric) ==
  (facts[d][metric] * 1000) \div (Sum(LAMBDA b : facts[b][metric], Baseline(day)) \div 4)
    - 1000

IsAnomaly(day, metric) ==
  LET off      == OffMean(day, day, metric)
      variance == Sum(LAMBDA b : OffMean(b, day, metric) * OffMean(b, day, metric),
                      Baseline(day)) \div 4
  IN  (off >= 150 \/ off <= -150) /\ off * off >= 4 * variance

-------------------------------------------------------------------------------
(* The labels; cases that are labelled alike are one label.  A cause is    *)
(* <<type, dimension, element>>.  The weights of a label's causes, and so  *)
(* which of them is said to be the dominant one, are left out: nothing     *)
(* below compares the strength of two causes.                              *)

Label(day, metric, causes) == [day |-> day, metric |-> metric, causes |-> causes]
Of(type, dimension, element) == <<type, dimension, element>>
Drop(channel)   == Of("campaign_traffic_drop", "channel", channel)
Unsold(channel) == Of("conversion_drop", "channel", channel)
NoStock         == Of("stockout", "category", "electronics")
Bad(dimension, element) == Of("complaint_or_quality_issue", dimension, element)
Crossed(dimension, element) == Of("interaction_channel_category", dimension, element)

FirstCases ==
  {Label(Target, "gmv", <<Drop("paid_ads")>>), Label(Target, "gmv", <<NoStock>>),
   Label(Target, "pay_cvr", <<Of("conversion_drop", "device", "mobile")>>),
   Label(Target, "refund_rate", <<Bad("product", 1)>>), Label(Quiet, "gmv", <<>>)}

(* C06 to C17.                                                             *)
GmvAndRateCases ==
  {Label(Target, "gmv", <<Of("aov_drop", "product", 2)>>),
   Label(Target, "gmv", <<Drop("organic")>>),
   Label(Target, "gmv", <<Of("aov_drop", "category", "fashion")>>),
   Label(Target, "gmv", <<Drop("affiliate")>>),
   Label(Target, "gmv", <<Of("stockout", "product", 3)>>),
   Label(Target, "net_gmv", <<Bad("product", 1)>>),
   Label(Target, "net_gmv", <<Drop("paid_ads")>>),
   Label(Target, "refund_rate", <<Bad("category", "fashion")>>),
   Label(Target, "stockout_rate", <<Of("stockout", "warehouse", "osaka")>>),
   Label(Target, "complaint_rate", <<Bad("category", "electronics")>>)}

(* C18 to C28.                                                             *)
DiscoveryCases ==
  {Label(Target, "pay_cvr", <<Unsold("affiliate")>>), Label(Quiet, "pay_cvr", <<>>),
   Label(Borderline, "gmv", <<>>), Label(Target, "uv", <<Drop("organic")>>),
   Label(Spike, "gmv", <<Drop("paid_ads")>>)}

(* MC01 to MC08.                                                           *)
MultiCauseCases ==
  {Label(MultiCause, "gmv", <<Drop("paid_ads"), NoStock, Drop("affiliate")>>),
   Label(LaggedObserve, "uv", <<Drop("paid_ads"), Drop("social"), Drop("affiliate")>>),
   Label(MultiCauseCvr, "pay_cvr", <<Unsold("social"), Unsold("organic")>>),
   Label(MultiCause, "gmv", <<Drop("affiliate"), Unsold("affiliate")>>),
   Label(LaggedObserve, "gmv", <<Drop("social"), NoStock, Drop("paid_ads")>>),
   Label(MultiCause, "net_gmv", <<Drop("paid_ads"), NoStock, Unsold("affiliate")>>),
   Label(LaggedObserve, "uv", <<Drop("social"), Drop("affiliate"), Drop("paid_ads")>>)}

(* IX01 to M01.                                                            *)
InteractionAndResidualCases ==
  {Label(Interaction, "gmv", <<Crossed("channel", "paid_ads")>>),
   Label(Interaction, "uv", <<Crossed("channel", "paid_ads")>>),
   Label(Interaction, "gmv", <<Crossed("category", "electronics")>>),
   Label(LaggedObserve, "gmv", <<Drop("social")>>),
   Label(LaggedObserve, "uv", <<Drop("social")>>),
   Label(MultiCause, "gmv", <<Drop("affiliate")>>),
   Label(Residual, "gmv", <<Drop("paid_ads"), Of("aov_drop", "category", "fashion")>>)}

GroundTruth == FirstCases \cup GmvAndRateCases \cup DiscoveryCases \cup MultiCauseCases
                 \cup InteractionAndResidualCases

-------------------------------------------------------------------------------
NoLabel == Label(0, "none", <<>>)

TruthInit == facts = History /\ label \in GroundTruth

-------------------------------------------------------------------------------
(* What a label promises.                                                  *)

(* The detector sees an anomaly exactly where a label says so, although    *)
(* the days on which something is injected lie in each other's baselines.  *)
DetectorAgrees == IsAnomaly(label.day, label.metric) <=> label.causes # <<>>

ElementOf(p, dimension) == IF dimension = "category" THEN CategoryOf(p) ELSE p

(* A cause was injected: into the element that is named, on that day, of   *)
(* that kind and downwards where the kind is a drop.                       *)
Injected(day, cause) ==
  LET type == cause[1]  dimension == cause[2]  element == cause[3]
      Here(s) == s.day = day /\ s.dimension = dimension /\ s.element = element
      products == {p \in Products : ElementOf(p, dimension) = element}
      places == IF dimension = "warehouse" THEN (DOMAIN Categories) \X {element}
                ELSE {CategoryOf(p) : p \in products} \X (DOMAIN Warehouses)
  IN  CASE type = "campaign_traffic_drop" -> \E s \in Shocks : Here(s) /\ s.uv < One
        [] type = "conversion_drop" -> \E s \in Shocks : Here(s) /\ s.pay < One
        [] type = "aov_drop" -> \A p \in products : OrderAmount(day, p) < 100
        [] type = "stockout" ->
             \A x \in places : StockoutHours(day, x[1], x[2]) > StockoutHours(Quiet, x[1], x[2])
        [] type = "complaint_or_quality_issue" ->
             \A p \in products : /\ Complaints(day, p) > Complaints(Quiet, p)
                                 /\ RefundRate(day, p) >= RefundRate(Quiet, p)
        [] type = "interaction_channel_category" ->
             day = Interaction /\ \E c \in DOMAIN Channels, k \in DOMAIN Categories :
               /\ element \in {c, k}
               /\ InteractionMultiplier(day, c, k).uv
                    < Times(InteractionMultiplier(day, c, "home").uv,
                            InteractionMultiplier(day, "organic", k).uv)

(* The two labels that name a drop of traffic where there is none (see     *)
(* the README): C11, for affiliate loses buyers and no visitors, and C24,  *)
(* for the traffic of paid_ads is raised by 2.5.                           *)
NotOfTheirData == {Label(Target, "gmv", <<Drop("affiliate")>>),
                   Label(Spike, "gmv", <<Drop("paid_ads")>>)}

(* The detector (anomaly_service.py) sees an anomaly on the day and metric *)
(* of a label exactly when the label names a cause, and every cause of     *)
(* every label but the two above was injected by anomaly_injection.py on   *)
(* that day, into that element and in the direction of its type.           *)
LabelsFitTheData ==
  label # NoLabel =>
    /\ DetectorAgrees
    /\ label \notin NotOfTheirData =>
         \A i \in DOMAIN label.causes : Injected(label.day, label.causes[i])
===============================================================================
