------------------------------- MODULE MCOffline -------------------------------
(* The programs that run beside the service, one at a time: `make seed`    *)
(* (Makefile:46), which is metric_rca.data.scenario_seed for the profile   *)
(* scenario and metric_rca.data.seed_data for every other, the labels of   *)
(* the latter against its data, the direct evaluation runner               *)
(* (Makefile:64), which runs the service in its own process, and           *)
(* `make grpo-export`, which makes a training set of a cycle.              *)
EXTENDS SeedDatabase, SeedTruth, ScenarioSeed, EvalRunner, GrpoExport

-------------------------------------------------------------------------------
(* The inputs of ScenarioSeed: sets of scenarios, most of them with one    *)
(* thing that is wrong, a catalog that lacks something, and two seeds.     *)
Catalog ==
  [values |-> [channel |-> <<"paid", "organic">>, product |-> <<"p1", "p2">>,
               device |-> <<"mobile">>, campaign |-> <<"search", "brand", "seo">>,
               category |-> <<"c1", "c2">>, geo |-> <<"east", "west">>],
   category |-> [p1 |-> "c1", p2 |-> "c2"],
   campaign |-> [search |-> "paid", brand |-> "paid", seo |-> "organic"]]

BadCatalogs ==
  {[Catalog EXCEPT !.category["p2"] = "c3"],
   [Catalog EXCEPT !.campaign["seo"] = "paid"],
   [Catalog EXCEPT !.values["geo"] = <<"east", "east">>]}

Op(field, do, value, offset, scope) ==
  [field |-> field, do |-> do, value |-> value, offset |-> offset, scope |-> scope]
Scale(field, value) == Op(field, "multiply", value, 0, "target")
ShockOf(id, type, selector, operations) ==
  [id |-> id, type |-> type, selector |-> selector, operations |-> operations]
Cause(dimension, element, weight) ==
  [dimension |-> dimension, element |-> element, weight |-> weight,
   chain |-> <<"E1", "E2", "E_rank">>]
Control(selector) == [selector |-> selector, metric |-> "gmv", most |-> 140]

Paid    == [channel |-> {"paid"}]
Organic == [channel |-> {"organic"}]

TrafficDrop ==
  [id |-> "traffic", day |-> 0, metric |-> "gmv", direction |-> "drop", anomaly |-> TRUE,
   shocks |-> <<ShockOf("less", "traffic", Paid,
                      <<Scale("uv", 40), Scale("sessions", 40), Scale("orders", 40)>>)>>,
   causes |-> <<Cause("channel", "paid", 100)>>,
   controls |-> <<Control(Organic)>>, offsets |-> Offsets, effect |-> 300, selector |-> Paid]

(* Two shocks, on rows that the scenario above shocks, too.                *)
Prices ==
  [TrafficDrop EXCEPT !.id = "prices",
     !.shocks = <<ShockOf("dear", "other", [product |-> {"p2"}],
                        <<Scale("orders", 60), Scale("unit_price", 110)>>),
                  ShockOf("fewer", "other", [product |-> {"p2"}, channel |-> {"paid"}],
                        <<Scale("orders", 70)>>)>>,
     !.causes = <<Cause("product", "p2", 60), Cause("category", "c2", 40)>>,
     !.controls = <<Control([product |-> {"p1"}])>>,
     !.selector = [product |-> {"p2"}]]

SeasonalDip ==
  [TrafficDrop EXCEPT !.id = "seasonal", !.direction = "no_anomaly", !.anomaly = FALSE,
     !.causes = <<>>, !.effect = 150,
     !.shocks = <<ShockOf("season", "traffic", Paid,
       <<Op("orders", "multiply", 80, 0, "target_and_baseline")>>)>>]

LaggedEffect ==
  [TrafficDrop EXCEPT !.id = "lagged", !.day = 1,
     !.shocks = <<ShockOf("spend", "other", Paid, <<Op("spend", "multiply", 20, -2, "target")>>),
                  ShockOf("later", "other", Paid, <<Scale("orders", 50)>>)>>]

Good == {<<TrafficDrop, Prices>>, <<Prices, SeasonalDip>>, <<SeasonalDip, LaggedEffect, Prices>>}

(* Refused when they are loaded, or before anything is written.            *)
With(s) == <<TrafficDrop, s>>
Unreadable ==
  {<<>>, <<TrafficDrop, TrafficDrop>>,
   With([Prices EXCEPT !.shocks = <<>>]),
   With([Prices EXCEPT !.causes[1].element = "p9"]),
   With([Prices EXCEPT !.causes[1].weight = 50]),
   With([Prices EXCEPT !.causes[1].chain = <<>>]),
   With([Prices EXCEPT !.direction = "no_anomaly", !.anomaly = FALSE]),
   With([Prices EXCEPT !.shocks[2].id = "dear"]),
   With([Prices EXCEPT !.metric = "aov"])}

(* Refused on the way.                                                     *)
Wrong ==
  {With([Prices EXCEPT !.shocks[2].selector = [channel |-> {"paid"}, campaign |-> {"seo"}]]),
   With([Prices EXCEPT !.shocks[1].operations[1].value = 2000]),
   With([Prices EXCEPT !.shocks[1].operations[1].field = "color"]),
   With([Prices EXCEPT !.metric = "visits"]),
   With([Prices EXCEPT !.controls = <<Control([channel |-> {"paid"}, campaign |-> {"seo"}])>>]),
   With([Prices EXCEPT !.controls = <<Control([product |-> {"p2"}])>>]),
   With([Prices EXCEPT !.effect = 900]),
   With([Prices EXCEPT !.shocks[1].type = "traffic", !.shocks[2].type = "traffic"])}

Input(scenarios, catalog, seed) ==
  [scenarios |-> scenarios, catalog |-> catalog, seed |-> seed, legible |-> TRUE]

MCInputs ==
  {Input(set, Catalog, 1) : set \in Good \cup Unreadable \cup Wrong}
    \cup {Input(<<TrafficDrop, Prices>>, Catalog, 2)}
    \cup {Input(<<TrafficDrop, Prices>>, catalog, 1) : catalog \in BadCatalogs}
    \cup {[Input(<<TrafficDrop>>, Catalog, 1) EXCEPT !.legible = FALSE]}

-------------------------------------------------------------------------------
(* The programs.                                                           *)

VARIABLE program   \* what is run

Training == INSTANCE MCTraining
MCCycles == Training!MCCycles

MCSchemas == {{}, ToSet(EvidenceUpgrades) \cup {<<"sql_audit", "audit_key">>}}

truth      == <<facts, label>>

NoTruth    == facts = <<>> /\ label = NoLabel
NoTraining == /\ cycle = <<>> /\ shown = 0 /\ whole = 0 /\ export = Off
              /\ output = <<>> /\ manifest = <<>> /\ exports = 0
NoDatabase == Init /\ local /\ stored = NoRows /\ missing = {}

MCInit ==
  /\ ScenarioInit /\ RunnerInit
  /\ \/ program = "seed_data" /\ Init /\ NoTruth /\ NoTraining
     \/ program = "labels" /\ NoDatabase /\ TruthInit /\ NoTraining
     \/ program \in {"scenario_seed", "runner"} /\ NoDatabase /\ NoTruth /\ NoTraining
     \/ program = "exporter" /\ NoDatabase /\ NoTruth /\ ExportInit

SeedData     == program = "seed_data" /\ Next
                  /\ UNCHANGED <<program, truth, svars, runner, grpo>>
CompileData  == program = "scenario_seed" /\ ScenarioNext
                  /\ UNCHANGED <<program, truth, vars, runner, grpo>>
Evaluation   == program = "runner" /\ RunnerNext
                  /\ UNCHANGED <<program, truth, svars, vars, grpo>>
ExportData   == program = "exporter" /\ ExportNext
                  /\ UNCHANGED <<program, truth, svars, vars, runner>>

MCNext == SeedData \/ CompileData \/ Evaluation \/ ExportData

MCSpec == MCInit /\ [][MCNext]_<<program, truth, svars, vars, runner, grpo>>
===============================================================================
