----------------------------- MODULE ScenarioSeed -----------------------------
(***************************************************************************)
(* `make seed` with the profile scenario (metric_rca/data/scenario_seed.py *)
(* and warehouse_writer.py): a set of scenarios is compiled into files of  *)
(* one directory, the manifest last.  The files of earlier compilations,   *)
(* of other scenarios, with another seed, or cut short, are still there.   *)
(*                                                                         *)
(* First what the compiler computes: the checks of the catalog and of the  *)
(* scenarios, the baseline rows, the shocks that are composed onto them,   *)
(* the metrics that are derived, the labels, and the quality gates.        *)
(*                                                                         *)
(* Days are integers.  Shares, rates and multipliers are in %, ratios in   *)
(* 1/1000.  Of the fields those that a metric depends on are kept.  A file *)
(* is its content; the hash of a file, too.                                *)
(***************************************************************************)
EXTENDS Integers, Sequences, FiniteSets, SequencesExt, FiniteSetsExt

CONSTANTS
  ShockTypes,          \* the shock types there are (21 in the code)
  SecondaryDimensions, \* the dimensions that are chosen by hash
  Inputs,              \* bound: what is compiled
  MaxCompiles          \* bound: how often something is compiled

(* What is read of an input as a list is one.                              *)
ASSUME InputsAssumption ==
  \A input \in Inputs :
    /\ input.scenarios \in Seq(ToSet(input.scenarios))
    /\ \A s \in ToSet(input.scenarios) :
         /\ s.shocks \in Seq(ToSet(s.shocks))
         /\ \A shock \in ToSet(s.shocks) : shock.operations \in Seq(ToSet(shock.operations))

VARIABLES
  files,     \* the directory, a function from the paths that are there
  todo,      \* the files the compilation will write
  result,    \* its result once they are written; "none" when nothing is compiled
  compiles   \* how often something was compiled

svars == <<files, todo, result, compiles>>

ScenarioInit == files = <<>> /\ todo = <<>> /\ result = "none" /\ compiles = 0

-------------------------------------------------------------------------------
Entity              == <<"channel", "product", "device">>
RequiredDimensions  == ToSet(Entity) \cup {"campaign", "category"} \cup SecondaryDimensions

(* A catalog has the values of its dimensions, in order, the category of   *)
(* its products and the channel of its campaigns.                          *)
ValueIds(catalog, dimension) == ToSet(catalog.values[dimension])

CatalogAccepted(catalog) ==
  /\ RequiredDimensions \subseteq DOMAIN catalog.values
  /\ \A d \in DOMAIN catalog.values :
       catalog.values[d] # <<>> /\ IsInjective(catalog.values[d])
  /\ \A p \in ValueIds(catalog, "product") :
       catalog.category[p] \in ValueIds(catalog, "category")

-------------------------------------------------------------------------------
(* A scenario: day, metric, direction, anomaly, shocks, causes, controls,  *)
(* effect and selector.  A selector is a function from dimensions to       *)
(* values.                                                                 *)

Offsets == <<-7, -14, -21, -28>>

SelectorKnown(selector, catalog) ==
  \A d \in DOMAIN selector :
    /\ d \in DOMAIN catalog.values
    /\ selector[d] # {} /\ selector[d] \subseteq ValueIds(catalog, d)

ShockParsed(shock, catalog) ==
  /\ shock.type \in ShockTypes /\ shock.operations # <<>>
  /\ \A i \in DOMAIN shock.operations :
       /\ shock.operations[i].do \in {"multiply", "add", "set"}
       /\ shock.operations[i].scope \in {"target", "target_and_baseline"}
  /\ SelectorKnown(shock.selector, catalog)

CauseParsed(cause, catalog) ==
  cause.dimension \in DOMAIN catalog.values
    /\ cause.element \in ValueIds(catalog, cause.dimension)

ScenarioParsed(s, catalog) ==
  /\ s.shocks # <<>>
  /\ \A i \in DOMAIN s.shocks : ShockParsed(s.shocks[i], catalog)
  /\ \A i \in DOMAIN s.causes : CauseParsed(s.causes[i], catalog)
  /\ \A i \in DOMAIN s.controls : SelectorKnown(s.controls[i].selector, catalog)
  /\ SelectorKnown(s.selector, catalog)

SumOf(Op(_), seq) == FoldLeft(LAMBDA sum, x : sum + Op(x), 0, seq)

(* What is checked before the chains of the causes.                        *)
Weighed(s) ==
  /\ s.direction \in {"drop", "rise", "spike", "no_anomaly"}
  /\ s.anomaly <=> s.causes # <<>>
  /\ s.causes # <<>> => SumOf(LAMBDA c : c.weight, s.causes) = 100
  /\ \A i \in DOMAIN s.causes : s.causes[i].weight > 0

ChainFits(chain) == chain # <<>> /\ chain[1] = "E1" /\ Last(chain) = "E_rank"

(* The first and the last of an empty chain are asked for: that is not a   *)
(* typed error.                                                            *)
ChainMissing(s) ==
  /\ Weighed(s)
  /\ \E i \in DOMAIN s.causes : /\ s.causes[i].chain = <<>>
                               /\ \A j \in 1..(i - 1) : ChainFits(s.causes[j].chain)

ScenarioValid(s) ==
  /\ Weighed(s)
  /\ \A i \in DOMAIN s.causes : ChainFits(s.causes[i].chain)
  /\ s.offsets = Offsets
  /\ s.effect \in 0..2000
  /\ IsInjective([i \in DOMAIN s.shocks |-> s.shocks[i].id])

(* ScenarioSet.load.                                                       *)
Loaded(set, catalog) ==
  IF \/ set = <<>>
     \/ \E i \in DOMAIN set : ~ScenarioParsed(set[i], catalog)
     \/ ~IsInjective([i \in DOMAIN set |-> set[i].id]) THEN "refused"
  ELSE IF \E i \in DOMAIN set :
            /\ ChainMissing(set[i]) /\ \A j \in 1..(i - 1) : ScenarioValid(set[j])
       THEN "crashed"
  ELSE IF \E i \in DOMAIN set : ~ScenarioValid(set[i]) THEN "refused" ELSE "ok"

RelevantDates(s) ==
  {s.day} \cup {s.day + o : o \in ToSet(s.offsets)}
    \cup UNION {{s.day + o.offset : o \in ToSet(s.shocks[i].operations)} : i \in DOMAIN s.shocks}

-------------------------------------------------------------------------------
(* The baseline: a row for every day, channel, product and device.  The    *)
(* other dimensions of a row depend on the seed and the entity, its        *)
(* numbers also on the day; Unit stands for the hash.                      *)

Unit(seed, n) == (seed * 7 + n * 5) % 11

Pick(values, seed, n) == values[(Unit(seed, n) % Len(values)) + 1]

CampaignsOf(catalog, channel) ==
  SelectSeq(catalog.values["campaign"], LAMBDA c : catalog.campaign[c] = channel)

BaselineRow(catalog, seed, day, entity) ==
  LET number == CHOOSE i \in DOMAIN catalog.values["channel"] :
                  catalog.values["channel"][i] = entity[1]
      noise == Unit(seed, day + number)
      sessions == 1000 * number + noise
      orders == sessions \div 10
      price == 200 + (noise % 3)
  IN  [day       |-> day,
       at        |-> [d \in RequiredDimensions |->
                        CASE d = "channel"  -> entity[1]
                          [] d = "product"  -> entity[2]
                          [] d = "device"   -> entity[3]
                          [] d = "category" -> catalog.category[entity[2]]
                          [] d = "campaign" ->
                               Pick(CampaignsOf(catalog, entity[1]), seed, number)
                          [] OTHER          -> Pick(catalog.values[d], seed, number)],
       is        |-> [uv |-> sessions + 5, sessions |-> sessions, orders |-> orders,
                      unit_price |-> price, promotion_discount |-> 0,
                      refund_amount |-> orders, stockout_hours |-> 1,
                      complaints |-> 1, spend |-> 10 * number],
       log       |-> <<>>]

Entities(catalog) == ValueIds(catalog, "channel") \X ValueIds(catalog, "product")
                       \X ValueIds(catalog, "device")

CampaignsCovered(catalog) ==
  \A c \in ValueIds(catalog, "channel") : CampaignsOf(catalog, c) # <<>>

(* From the first to the last day that any scenario looks at.              *)
BaselineRows(set, catalog, seed) ==
  LET days == UNION {RelevantDates(set[i]) : i \in DOMAIN set}
  IN  {BaselineRow(catalog, seed, day, entity) :
         day \in Min(days)..Max(days), entity \in Entities(catalog)}

-------------------------------------------------------------------------------
(* The shocks.                                                             *)

Fields == {"uv", "sessions", "orders", "unit_price", "promotion_discount", "refund_amount",
           "stockout_hours", "complaints", "spend"}

SelectorMatches(row, selector) == \A d \in DOMAIN selector : row.at[d] \in selector[d]

OperationDates(s, o) ==
  {s.day + o.offset}
    \cup (IF o.scope = "target_and_baseline"
          THEN {s.day + o.offset + b : b \in ToSet(s.offsets)} ELSE {})

OperationValid(o) ==
  /\ o.field \in Fields
  /\ o.do = "multiply" => o.value >= 0
  /\ o.field = "promotion_discount" /\ o.do = "set" => o.value \in 0..99

Applied(value, o) == CASE o.do = "multiply" -> (value * o.value) \div 100
                       [] o.do = "add"      -> value + o.value
                       [] o.do = "set"      -> o.value

LogEntry(shock, o, before) ==
  [shock |-> shock.id, field |-> o.field, do |-> o.do, value |-> o.value,
   before |-> before, after |-> Applied(before, o)]

Hits(row, s, shock, o) ==
  row.day \in OperationDates(s, o) /\ SelectorMatches(row, shock.selector)

Operate(rows, s, shock, o) ==
  {IF ~Hits(row, s, shock, o) THEN row
   ELSE [row EXCEPT !.is[o.field] = Applied(@, o),
                    !.log = Append(@, LogEntry(shock, o, row.is[o.field]))] : row \in rows}

OperationFails(rows, s, shock, o) ==
  LET hit == {row \in rows : Hits(row, s, shock, o)}
  IN  ~OperationValid(o) \/ hit = {} \/ \E row \in hit : Applied(row.is[o.field], o) < 0

(* The operations of a scenario with their shocks, one after the other.    *)
Operations(s) ==
  FlattenSeq([i \in DOMAIN s.shocks |->
    [j \in DOMAIN s.shocks[i].operations |-> <<s.shocks[i], s.shocks[i].operations[j]>>]])

RelevantRows(baseline, s) == {row \in baseline : row.day \in RelevantDates(s)}

OperateUnlessFailed(c, s, shock, o) ==
  IF ~c.ok \/ OperationFails(c.rows, s, shock, o) THEN [c EXCEPT !.ok = FALSE]
  ELSE [c EXCEPT !.rows = Operate(@, s, shock, o)]

OperateAll(rows, s) ==
  LET operations == Operations(s)
      after[k \in 0..Len(operations)] ==
        IF k = 0 THEN [ok |-> TRUE, rows |-> rows]
        ELSE OperateUnlessFailed(after[k - 1], s, operations[k][1], operations[k][2])
  IN  after[Len(operations)]

WithBaseline(c, baseline) == [ok |-> c.ok, rows |-> c.rows, baseline |-> baseline]

(* Slip: the rows are copied, but their logs are shared with the baseline. *)
LogShared(row, rows) ==
  LET copies == {r \in rows : r.day = row.day /\ r.at = row.at}
  IN  IF copies = {} THEN row ELSE [row EXCEPT !.log = (CHOOSE r \in copies : TRUE).log]

ComposeSlip(baseline, s) ==
  LET c == OperateAll(RelevantRows(baseline, s), s)
  IN  WithBaseline(c, {LogShared(row, c.rows) : row \in baseline})

(* The rows of a scenario, and the baseline as the next scenario finds it. *)
Compose(baseline, s) == WithBaseline(OperateAll(RelevantRows(baseline, s), s), baseline)

-------------------------------------------------------------------------------
(* The metrics.                                                            *)

Gmv(row) == (row.is.orders * row.is.unit_price * (100 - row.is.promotion_discount)) \div 100

Derivable(row) ==
  /\ row.is.promotion_discount < 100
  /\ row.is.orders <= row.is.sessions
  /\ row.is.refund_amount <= Gmv(row)
  /\ row.is.stockout_hours <= 24

Share(a, b) == IF b = 0 THEN 0 ELSE (a * 10000) \div b

Metrics == {"gmv", "net_gmv", "uv", "orders", "spend", "complaints", "pay_cvr", "aov",
            "refund_rate", "stockout_rate", "complaint_rate", "campaign_roi"}

Selected(rows, day, selector) ==
  {row \in rows : row.day = day /\ SelectorMatches(row, selector)}

Aggregate(rows, metric, day, selector) ==
  LET selected == Selected(rows, day, selector)
      Sum(field) == MapThenSumSet(LAMBDA row : row.is[field], selected)
      gmv == MapThenSumSet(Gmv, selected)
  IN  CASE metric = "gmv"            -> gmv
        [] metric = "net_gmv"        -> gmv - Sum("refund_amount")
        [] metric = "pay_cvr"        -> Share(Sum("orders"), Sum("sessions"))
        [] metric = "aov"            -> Share(gmv, Sum("orders"))
        [] metric = "refund_rate"    -> Share(Sum("refund_amount"), gmv)
        [] metric = "stockout_rate"  -> Share(Sum("stockout_hours"), 24 * Cardinality(selected))
        [] metric = "complaint_rate" -> Share(Sum("complaints"), Sum("orders"))
        [] metric = "campaign_roi"   -> Share(gmv, Sum("spend"))
        [] OTHER                     -> Sum(metric)

(* It fails for an unknown metric, and where no row is selected.           *)
Comparable(rows, metric, s, selector) ==
  /\ metric \in Metrics
  /\ \A day \in {s.day} \cup {s.day + o : o \in ToSet(s.offsets)} :
       Selected(rows, day, selector) # {}

(* The target day against the mean of its baseline days, in 1/1000.        *)
Ratio(value, total, n) == IF total = 0 THEN 0 ELSE ((n * value - total) * 1000) \div total

DeltaRatio(rows, metric, s, selector) ==
  Ratio(Aggregate(rows, metric, s.day, selector),
        SumOf(LAMBDA o : Aggregate(rows, metric, s.day + o, selector), s.offsets),
        Len(s.offsets))

-------------------------------------------------------------------------------
(* The cases and the gates.                                                *)

(* The question names the metric; two metrics have the name of a term that *)
(* no question may contain.                                                *)
Unmentionable == {"aov", "stockout_rate"}

PublicCases(set) == [i \in DOMAIN set |-> <<"GC", i>>]
PublicCasesValid(set) == \A i \in DOMAIN set : set[i].metric \notin Unmentionable

TruthOfScenario(s, i, seed, rows) ==
  [case |-> <<"GC", i>>, scenario |-> s.id, day |-> s.day, metric |-> s.metric,
   anomaly |-> s.anomaly, causes |-> s.causes, controls |-> s.controls, seed |-> seed,
   ratio |-> DeltaRatio(rows, s.metric, s, s.selector)]

IsEffect(ratio, s) ==
  CASE s.direction = "drop"       -> ratio <= -s.effect
    [] s.direction = "no_anomaly" -> ratio < s.effect /\ -ratio < s.effect
    [] OTHER                      -> ratio >= s.effect

EffectValid(s, rows) == IsEffect(DeltaRatio(rows, s.metric, s, s.selector), s)

ControlsValid(s, rows) ==
  \A i \in DOMAIN s.controls :
    DeltaRatio(rows, s.controls[i].metric, s, s.controls[i].selector)
      \in (-s.controls[i].most)..s.controls[i].most

ControlsComparable(s, rows) ==
  \A i \in DOMAIN s.controls :
    Comparable(rows, s.controls[i].metric, s, s.controls[i].selector)

(* validate_generated_dataset, of the rows of each scenario.               *)
QualityValid(set, rows) ==
  /\ ShockTypes = UNION {{set[i].shocks[j].type : j \in DOMAIN set[i].shocks} : i \in DOMAIN set}
  /\ \A i \in DOMAIN set : /\ EffectValid(set[i], rows[i])
                           /\ ControlsValid(set[i], rows[i])
                           /\ set[i].controls # <<>>

-------------------------------------------------------------------------------
(* The compilation of a set of scenarios.                                  *)

File(path, content) == [path |-> path, content |-> content]
RowsOf(id)  == <<"observations", id>>
TruthOf(id) == <<"ground_truth", id>>
Report    == <<"data_quality_report">>
Manifest  == <<"manifest">>
Temporary == <<"tmp">>

(* A scenario, composed, is refused when its rows cannot be derived or     *)
(* compared.                                                               *)
AddScenario(c, s, composed, truth) ==
  IF \/ ~c.ok \/ ~composed.ok
     \/ \E row \in composed.rows : ~Derivable(row)
     \/ ~Comparable(composed.rows, s.metric, s, s.selector)
  THEN [c EXCEPT !.ok = FALSE]
  ELSE [c EXCEPT !.baseline = composed.baseline,
                 !.rows = Append(@, composed.rows),
                 !.truths = Append(@, truth),
                 !.todo = @ \o <<File(RowsOf(s.id), composed.rows),
                                 File(TruthOf(s.id), truth)>>]

AddComposed(c, s, i, seed, composed) ==
  AddScenario(c, s, composed, TruthOfScenario(s, i, seed, composed.rows))

NoScenario(input) ==
  [ok |-> TRUE, baseline |-> BaselineRows(input.scenarios, input.catalog, input.seed),
   rows |-> <<>>, truths |-> <<>>,
   todo |-> <<File(<<"baseline">>, <<input.catalog, input.seed>>),
              File(<<"catalog_snapshot">>, input.catalog),
              File(<<"scenario_spec_snapshot">>, input.scenarios)>>]

(* The scenarios, one after the other.                                     *)
Scenarios(input) ==
  LET set == input.scenarios
      after[i \in 0..Len(set)] ==
        IF i = 0 THEN NoScenario(input)
        ELSE AddComposed(after[i - 1], set[i], i, input.seed, Compose(after[i - 1].baseline, set[i]))
  IN  after[Len(set)]

Compilation(end, list) == [end |-> end, todo |-> list]

(* What stands for the manifest until it is written.                       *)
ManifestOf(input) == [scenarios |-> input.scenarios, seed |-> input.seed]

CaseFiles(set, truths) ==
  <<File(<<"eval_cases_public">>, PublicCases(set)), File(<<"eval_cases_private">>, truths),
    File(<<"eval_case_manifest">>, <<PublicCases(set), truths>>)>>

AfterReport(input, done, valid) ==
  IF valid
  THEN Compilation("ok", done \o <<File(Report, TRUE), File(Manifest, ManifestOf(input))>>)
  ELSE Compilation("refused", done \o <<File(Report, FALSE)>>)

AfterScenarios(input, c) ==
  IF \E row \in c.baseline : ~Derivable(row) THEN Compilation("refused", <<>>)
  ELSE IF ~c.ok THEN Compilation("refused", c.todo)
  ELSE IF \E i \in DOMAIN c.rows : ~ControlsComparable(input.scenarios[i], c.rows[i])
       THEN Compilation("refused", c.todo \o CaseFiles(input.scenarios, c.truths))
  ELSE AfterReport(input, c.todo \o CaseFiles(input.scenarios, c.truths),
                   QualityValid(input.scenarios, c.rows))

LoadedInput(input) ==
  IF ~input.legible \/ ~CatalogAccepted(input.catalog) THEN "refused"
  ELSE Loaded(input.scenarios, input.catalog)

(* compile_scenario_dataset of [scenarios, catalog, seed, legible]: the    *)
(* files it writes, in order, and its end.  Nothing is written for an      *)
(* input that cannot be read.                                              *)
Compile(input) ==
  IF LoadedInput(input) # "ok" THEN Compilation(LoadedInput(input), <<>>)
  ELSE IF ~CampaignsCovered(input.catalog) \/ ~PublicCasesValid(input.scenarios)
       THEN Compilation("refused", <<>>)
  ELSE AfterScenarios(input, Scenarios(input))

-------------------------------------------------------------------------------
Compilations == {Compile(input) : input \in Inputs}

BeginCompile ==
  /\ result = "none" /\ compiles < MaxCompiles
  /\ \E c \in Compilations : todo' = c.todo /\ result' = c.end
  /\ compiles' = compiles + 1
  /\ UNCHANGED files

(* Every file is replaced as a whole.  The manifest lists the files that   *)
(* are in the directory, whoever wrote them.                               *)
Put(path, content) ==
  files' = [p \in DOMAIN files \cup {path} |-> IF p = path THEN content ELSE files[p]]

Listed == [p \in DOMAIN files \ {Manifest} |-> files[p]]

WriteFile ==
  /\ todo # <<>>
  /\ LET f == Head(todo)
     IN  Put(f.path, IF f.path = Manifest
                     THEN [of |-> f.content, files |-> Listed] ELSE f.content)
  /\ todo' = Tail(todo)
  /\ UNCHANGED <<result, compiles>>

EndCompile == /\ result # "none" /\ todo = <<>>
              /\ result' = "none"
              /\ UNCHANGED <<files, todo, compiles>>

(* The disk is full, or the process dies, which leaves the file it was at  *)
(* under a name of its own.                                                *)
Break ==
  /\ todo # <<>>
  /\ \/ UNCHANGED files
     \/ Put(Temporary, compiles)
  /\ todo' = <<>> /\ result' = "none"
  /\ UNCHANGED compiles

ScenarioNext == BeginCompile \/ WriteFile \/ EndCompile \/ Break

ScenarioSpec == ScenarioInit /\ [][ScenarioNext]_svars

-------------------------------------------------------------------------------
(* The log of a row leads to its values: what an entry leaves is what the  *)
(* next entry of the field finds, and what the row has in the end; and it  *)
(* has no entry of another scenario.                                       *)
LogsExplain(rows, s) ==
  \A row \in rows : \A i \in DOMAIN row.log :
    LET entry == row.log[i]
        later == {j \in DOMAIN row.log : j > i /\ row.log[j].field = entry.field}
    IN  /\ \E j \in DOMAIN s.shocks : s.shocks[j].id = entry.shock
        /\ entry.after = IF later = {} THEN row.is[entry.field] ELSE row.log[Min(later)].before

(* A manifest whose hashes hold vouches for the whole data set, whatever   *)
(* was compiled before and after it, and however that ended: the files of  *)
(* all its scenarios are there, of the seed it names; every label is what  *)
(* the rows beside it say, in the direction that was declared, and the     *)
(* rows are explained by their own scenario; and every public case has     *)
(* its private truth.                                                      *)
ManifestVouches ==
  Manifest \in DOMAIN files =>
    LET manifest == files[Manifest]
        set == manifest.of.scenarios
        holds == \A p \in DOMAIN manifest.files :
                   p \in DOMAIN files /\ files[p] = manifest.files[p]
    IN  holds =>
          /\ \A i \in DOMAIN set :
               LET s == set[i]
                   rows  == files[RowsOf(s.id)]
                   truth == files[TruthOf(s.id)]
               IN  /\ {RowsOf(s.id), TruthOf(s.id)} \subseteq DOMAIN files
                   /\ truth.seed = manifest.of.seed /\ truth.causes = s.causes
                   /\ truth.ratio = DeltaRatio(rows, s.metric, s, s.selector)
                   /\ EffectValid(s, rows) /\ ControlsValid(s, rows)
                   /\ LogsExplain(rows, s)
                   /\ files[<<"eval_cases_public">>][i] = truth.case
                   /\ files[<<"eval_cases_private">>][i] = truth
          /\ Len(files[<<"eval_cases_public">>]) = Len(set)
===============================================================================
