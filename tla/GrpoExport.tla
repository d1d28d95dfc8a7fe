------------------------------ MODULE GrpoExport ------------------------------
(***************************************************************************)
(* The export of a Predict-Test-Verify cycle into a training set           *)
(* (metric_rca/evals/grpo_exporter.py, grpo_schema.py, grpo_manifest.py).  *)
(*                                                                         *)
(* The cycle goes on while it is exported: a round is a directory at first *)
(* and has its artifacts later.  The exporter reads the rounds one after   *)
(* the other, then writes five files, each atomically, the manifest last;  *)
(* it may die anywhere and be started again, with other rounds.            *)
(***************************************************************************)
EXTENDS Rewards

CONSTANTS
  Cycles,      \* bound: the cycles, sequences of rounds
  MaxExports   \* bound: how often a cycle is exported

(* A cycle is a sequence, what is read of its rounds as a list is one, and *)
(* their metrics are numbers.                                              *)
ASSUME CyclesAssumption ==
  \A c \in Cycles :
    /\ c \in Seq(ToSet(c))
    /\ \A n \in DOMAIN c :
         /\ c[n].predictions \in Seq(ToSet(c[n].predictions))
         /\ c[n].tasks # NoTasks => c[n].tasks.rows \in Seq(ToSet(c[n].tasks.rows))
         /\ \A m \in DOMAIN c[n].metrics : c[n].metrics[m] \in Int

VARIABLES
  cycle,    \* all the rounds the cycle will have
  shown,    \* how many of them have a directory
  whole,    \* how many of them have their artifacts
  export,   \* the exporter: [pc, listed, read, layers]
  output,   \* the output directory, a function from the files that are there
  manifest, \* what manifest.json says, or NoManifest
  exports   \* how often it was started

grpo == <<cycle, shown, whole, export, output, manifest, exports>>

NoManifest == <<>>

Controller == "layer1_controller"
SubAgent   == "layer2_sub_agent"
CodingFix  == "layer3_coding_fix"
Positives  == "positive_records"

(* The files in the order they are written; TrajectoryLayer has the first. *)
Layers    == <<Controller, SubAgent, CodingFix>>
FileOrder == <<Controller, SubAgent, CodingFix, Positives>>

NoLayers == [l \in ToSet(Layers) |-> <<>>]
Off      == [pc |-> "off", listed |-> <<>>, read |-> 0, layers |-> NoLayers]

ExportInit ==
  /\ cycle \in Cycles /\ shown = 0 /\ whole = 0
  /\ export = Off /\ output = <<>> /\ manifest = NoManifest /\ exports = 0

-------------------------------------------------------------------------------
(* The records of a round.  about is what a record is about: the           *)
(* prediction, the case of a task, the round before.                       *)

RecordOf(layer, round, kind, about, divergence, reward) ==
  [layer |-> layer, round |-> round, kind |-> kind, about |-> about,
   divergence |-> divergence, reward |-> reward]

MetricsBefore(n, before) == IF before = 0 THEN <<>> ELSE cycle[before].metrics

(* _controller_record; the round before is the one that was read before,   *)
(* 0 when there is none.                                                   *)
ControllerRecord(n, before) ==
  RecordOf(Controller, n, "controller", before, Null,
    ControllerReward(MetricsBefore(n, before), cycle[n].metrics, cycle[n].met, cycle[n].rules,
      \/ cycle[n].selected \in {Null} \cup CategoriesOf(cycle[n])
      \/ cycle[n].green))

(* _runner_trajectory_artifacts and _validate_task_trajectory_manifest.    *)
TasksAreValid(tasks) ==
  tasks # NoTasks /\ tasks.own /\ tasks.stated = Len(tasks.rows)

TaskRecords(n) ==
  [i \in DOMAIN cycle[n].tasks.rows |->
     RecordOf(SubAgent, n, "product_task", i, Null, TaskReward(cycle[n].tasks.rows[i]))]

(* Slip: a later row for the same prediction replaces the earlier one.     *)
GapsAreValidSlip(gaps) == \A g \in ToSet(gaps) : g.divergence \in Divergences

(* _validated_gap_rows: there is one row for a case and an aspect.         *)
GapsAreValid(gaps) ==
  /\ \A g \in ToSet(gaps) : g.divergence \in Divergences
  /\ \A i, j \in DOMAIN gaps :
       gaps[i].case = gaps[j].case /\ gaps[i].aspect = gaps[j].aspect => i = j

(* The artifact gap_report.json of a round.                                *)
GapsOf(n) == AnalyzeGaps(cycle[n].predictions, cycle[n].cases)

(* gaps_by_key.get, the last of the rows with the key.                     *)
GapFor(p, gaps) ==
  gaps[Max({i \in DOMAIN gaps : gaps[i].case = p.case /\ gaps[i].aspect = p.aspect})]

PredictionRecord(n, p, divergence) ==
  RecordOf(SubAgent, n, "prediction", p, divergence, PredictionReward(divergence, p.cites))

PredictionRecords(n, gaps) ==
  [i \in DOMAIN cycle[n].predictions |->
     PredictionRecord(n, cycle[n].predictions[i],
                      GapFor(cycle[n].predictions[i], gaps).divergence)]

(* _actionable_diagnosis and _git_diff: a fix has something it is to fix   *)
(* and a diff.                                                             *)
FixIsValid(n, before) ==
  /\ cycle[n].fix # {}
  /\ ActionableOf(cycle[before]) # <<>>
  /\ \A row \in ToSet(ActionableOf(cycle[before])) : row.case # Null /\ row.files # {}

CodingFixRecord(n, before) ==
  RecordOf(CodingFix, n, "coding_fix", before, Null,
    CodingFixReward(AssessCodingFix(cycle[before], cycle[n], TargetsOf(cycle[before]),
                                    cycle[n].fix, ProposedOf(cycle[before]))))

(* A fix is looked at when a round was read before it.                     *)
HasFix(n, before) == before # 0 /\ cycle[n].fix # NoCommit

(* The records are made without an error.                                  *)
RoundIsValid(n, before) ==
  /\ TasksAreValid(cycle[n].tasks)
  /\ GapsAreValid(GapsOf(n))
  /\ HasFix(n, before) => FixIsValid(n, before)

RecordsOf(n, before) ==
  [l \in ToSet(Layers) |->
     CASE l = Controller -> <<ControllerRecord(n, before)>>
       [] l = SubAgent   -> TaskRecords(n) \o PredictionRecords(n, GapsOf(n))
       [] l = CodingFix  -> IF HasFix(n, before) THEN <<CodingFixRecord(n, before)>> ELSE <<>>]

(* _validate_layer_contract: what a record of a layer is about.            *)
KeepsContract(r) ==
  CASE r.layer = Controller -> r.kind = "controller"
    [] r.layer = SubAgent   -> r.kind \in {"product_task", "prediction"}
    [] r.layer = CodingFix  -> r.kind = "coding_fix"

(* TrajectoryRecord.validate                                               *)
RecordIsValid(r) ==
  r.round >= 1 /\ KeepsContract(r) /\ RewardIsValid(r.reward, r.layer)

(* validate_record_dict, of the record as a dictionary that may come from  *)
(* anywhere.                                                               *)
RecordDictIsValid(r) ==
  /\ DOMAIN r = {"layer", "round", "kind", "about", "divergence", "reward"}
  /\ DOMAIN r.reward = {"total", "eligible", "fix"}
  /\ r.layer \in ToSet(Layers) /\ r.round \in Int /\ r.reward.eligible \in BOOLEAN
  /\ RecordIsValid(r)

(* as_dict validates every record before it is kept.                       *)
RecordsAreValid(layers) ==
  \A l \in DOMAIN layers : \A r \in ToSet(layers[l]) : RecordIsValid(r)

-------------------------------------------------------------------------------
(* The cycle.                                                              *)

CreateRound ==
  /\ shown = whole /\ shown < Len(cycle) /\ shown' = shown + 1
  /\ UNCHANGED <<cycle, whole, export, output, manifest, exports>>

(* Its predictions have passed validate_predictions by then.               *)
FinishRound ==
  /\ whole < shown /\ ArePredictions(cycle[shown].predictions) /\ whole' = shown
  /\ UNCHANGED <<cycle, shown, export, output, manifest, exports>>

-------------------------------------------------------------------------------
(* The exporter.                                                           *)

ExportIsOver == {"off", "failed", "exported"}

Continue(next) ==
  export' = next /\ UNCHANGED <<cycle, shown, whole, output, manifest, exports>>

FailExport == Continue([export EXCEPT !.pc = "failed"])

(* export_cycle lists the rounds from from_round to to_round that have a   *)
(* directory.                                                              *)
StartExport ==
  /\ export.pc \in ExportIsOver /\ exports < MaxExports /\ exports' = exports + 1
  /\ \E from \in DOMAIN cycle : \E to \in from..Len(cycle) :
       LET last   == IF to < shown THEN to ELSE shown
           listed == [i \in 1..(last - from + 1) |-> from + i - 1]
       IN  export' = [Off EXCEPT !.pc = IF listed = <<>> THEN "failed" ELSE "reading",
                                 !.listed = listed]
  /\ UNCHANGED <<cycle, shown, whole, output, manifest>>

(* _load_round and the records of the round.                               *)
Reads == export.pc = "reading" /\ export.read < Len(export.listed)
ReadsRound  == export.listed[export.read + 1]
ReadsBefore == IF export.read = 0 THEN 0 ELSE export.listed[export.read]

Extend(layers, records) == [l \in DOMAIN layers |-> layers[l] \o records[l]]

IsReadable(n, before) ==
  /\ n <= whole /\ RoundIsValid(n, before)
  /\ RecordsAreValid(RecordsOf(n, before))

RefuseRound == Reads /\ ~IsReadable(ReadsRound, ReadsBefore) /\ FailExport

ReadRound ==
  /\ Reads /\ IsReadable(ReadsRound, ReadsBefore)
  /\ Continue([export EXCEPT !.read = @ + 1,
                             !.layers = Extend(@, RecordsOf(ReadsRound, ReadsBefore))])

AllRecords(layers) == layers[Controller] \o layers[SubAgent] \o layers[CodingFix]

(* A positive example of a training set.                                   *)
IsPositive(r) == r.reward.eligible /\ r.reward.total > 0

PositivesOf(layers) ==
  LET records == AllRecords(layers)
  IN  FlattenSeq([i \in DOMAIN records |->
        IF IsPositive(records[i]) THEN <<records[i]>> ELSE <<>>])

(* Slip: the files of an earlier export are appended to.                   *)
ContentOfSlip(file) ==
  IF file = Positives THEN PositivesOf(export.layers)
  ELSE (IF file \in DOMAIN output THEN output[file] ELSE <<>>) \o export.layers[file]

ContentOf(file) ==
  IF file = Positives THEN PositivesOf(export.layers)
  ELSE export.layers[file]

(* The next file to be written; the program counter is the file written    *)
(* last.                                                                   *)
NextFile ==
  IF export.pc = "reading" /\ export.read = Len(export.listed) THEN 1
  ELSE IF export.pc \in ToSet(FileOrder)
  THEN 1 + Max({i \in DOMAIN FileOrder : FileOrder[i] = export.pc})
  ELSE 0

(* write_jsonl_atomic                                                      *)
WriteOutput ==
  /\ NextFile \in DOMAIN FileOrder
  /\ LET file == FileOrder[NextFile]
     IN  /\ output' = [f \in DOMAIN output \cup {file} |-> IF f = file THEN ContentOf(file)
                                                         ELSE output[f]]
         /\ export' = [export EXCEPT !.pc = file]
  /\ UNCHANGED <<cycle, shown, whole, manifest, exports>>

(* _reward_bucket                                                          *)
Bucket(r) ==
  CASE r.reward.total > 0 -> "positive"
    [] r.reward.total < 0 -> "negative"
    [] OTHER              -> "zero"

(* build_manifest: what is counted is what is in memory, what is hashed is *)
(* what is on disk.  It validates the records again and refuses an overfit *)
(* prediction that is positive.                                            *)
ManifestSays(layers, hashed) ==
  [hashes    |-> hashed,
   counts    |-> [l \in DOMAIN layers |-> Len(layers[l])],
   histogram |-> [b \in {"positive", "negative", "zero"} |->
                    Cardinality({i \in DOMAIN AllRecords(layers) :
                                   Bucket(AllRecords(layers)[i]) = b})],
   positive  |-> Len(PositivesOf(layers))]

HasOverfitPositive(layers) ==
  \E r \in ToSet(AllRecords(layers)) : r.divergence = Overfit /\ r.reward.eligible

WriteManifest ==
  /\ NextFile = Len(FileOrder) + 1
  /\ \A r \in ToSet(AllRecords(export.layers)) : RecordDictIsValid(r)
  /\ ~HasOverfitPositive(export.layers)
  /\ manifest' = ManifestSays(export.layers, output)
  /\ export' = [export EXCEPT !.pc = "exported"]
  /\ UNCHANGED <<cycle, shown, whole, output, exports>>

(* It is killed, or a write fails.                                         *)
Die == export.pc \notin ExportIsOver /\ Continue(Off)

ExportNext ==
  \/ CreateRound \/ FinishRound
  \/ StartExport \/ ReadRound \/ RefuseRound \/ WriteOutput \/ WriteManifest \/ Die

ExportSpec == ExportInit /\ [][ExportNext]_grpo

-------------------------------------------------------------------------------
(* What a user of the dataset may check.                                   *)

(* _validate_files: the files are those that were hashed.                  *)
FilesMatch == manifest # NoManifest /\ manifest.hashes = output

(* The layers as they are on disk.                                         *)
Exported == [l \in ToSet(Layers) |-> output[l]]

(* validate_manifest, of the records of the layers.                        *)
ManifestMatches(layers) ==
  /\ manifest = ManifestSays(layers, output)
  /\ \A r \in ToSet(AllRecords(layers)) : RecordDictIsValid(r)
  /\ ~HasOverfitPositive(layers)

-------------------------------------------------------------------------------
(* Properties.                                                             *)

Written(file) == IF file \in DOMAIN output THEN ToSet(output[file]) ELSE {}

(* A prediction is judged by its own divergence, never by that of another  *)
(* prediction for the same case and aspect: exporter, analysis and         *)
(* validation agree on what identifies a prediction only because the       *)
(* exporter refuses rows with the same key (grpo_exporter.py:418), which   *)
(* neither the analysis nor the validation of predictions does.            *)
GradesAreTheirOwn ==
  \A r \in Written(SubAgent) \cup Written(Positives) :
    r.kind = "prediction" =>
      r.divergence = GapOf(r.about, cycle[r.round].cases).divergence

(* The cases that two rounds have in common.                               *)
Common(before, after) == DOMAIN before.cases \cap DOMAIN after.cases

(* A positive example of a fix repaired all that its diagnosis named, a    *)
(* positive example of a fix or of a decision broke nothing that both      *)
(* rounds measured, and a positive prediction came true                    *)
(* (docs/ptv/05-grpo-bridge.md:40, :75 and :81).                           *)
Repaired(before, after) ==
  \A c \in TargetsOf(before) :
    /\ c \in Common(before, after)
    /\ ~CasePassed(before.cases[c]) /\ CasePassed(after.cases[c])

BrokeNothing(before, after) ==
  /\ \A m \in DOMAIN before.metrics \cap DOMAIN after.metrics :
       after.metrics[m] >= before.metrics[m]
  /\ \A c \in Common(before, after) : CasePassed(before.cases[c]) => CasePassed(after.cases[c])

IsEarned(r) ==
  CASE r.kind = "coding_fix" -> /\ Repaired(cycle[r.about], cycle[r.round])
                                /\ BrokeNothing(cycle[r.about], cycle[r.round])
    [] r.kind = "controller" ->
         r.about # 0 => Fallen(cycle[r.about].metrics, cycle[r.round].metrics) = {}
    [] r.kind = "prediction" -> r.about.cites /\ r.divergence = Correct
    [] OTHER -> TRUE

PositivesAreEarned == \A r \in Written(Positives) : IsEarned(r)

(* A dataset whose files its manifest vouches for is of one export: it has *)
(* the records it counts and its positive examples are those of its        *)
(* layers, whatever earlier exports, of other rounds or cut short, left    *)
(* behind; and an export that ends well leaves such a dataset              *)
(* (docs/ptv/05-grpo-bridge.md:128).                                       *)
DatasetIsWhole ==
  /\ export.pc = "exported" => FilesMatch
  /\ FilesMatch =>
       /\ DOMAIN output = ToSet(FileOrder) /\ ManifestMatches(Exported)
       /\ output[Positives] = PositivesOf(Exported)

(* The training set teaches what happened.                                 *)
ExamplesAreEarned == GradesAreTheirOwn /\ PositivesAreEarned
===============================================================================
