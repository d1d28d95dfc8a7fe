------------------------------- MODULE PtvRound -------------------------------
(***************************************************************************)
(* The rounds of a Predict-Test-Verify cycle on disk, and the commands of  *)
(* its controller (metric_rca/evals/ptv_runner.py, ptv_controller.py,      *)
(* ptv_artifacts.py).  A round is a directory.  The commands are given one *)
(* at a time and in any order; run-round gives those of one round in their *)
(* order.  The two processes of run-parallel and the analyst of run-round  *)
(* have sessions of their own: they outlive a controller that is           *)
(* interrupted, and may write while a later command is at work.            *)
(***************************************************************************)
EXTENDS PtvRules

CONSTANTS
  Rounds,       \* 1..n
  Preparations, \* of each round: the commits and the round it confirms
  Rows,         \* what the predictions of each round may say
  Sound,        \* those with whole, well-reasoned and honest predictions
  Evals,        \* the results the evaluation of each round may have
  Diagnoses,    \* the fixes the diagnosis of each may ask for, for all gaps or not
  Selectable,      \* the categories the controller may choose for each
  MaxStages,    \* bound: how often run-parallel is called
  MaxDiagnoses  \* bound: how often an analyst is started

ASSUME RoundsAssumption == Rounds \subseteq Nat \ {0}

Commands == {"prediction", "eval"}

VARIABLES
  file,        \* of each round: its files
  written,     \* and the stage when its commands last wrote (mtime)
  made,        \* the rounds whose directory exists
  at,          \* what the controller does next
  round,       \* the round it works on
  held,        \* what it has computed and not yet written
  late,        \* history: the diagnosis was replaced since finalize read it
  stages,      \* how often run-parallel was called
  diagnoses,   \* how often an analyst was started
  overtaken,   \* history: the rounds whose last manifest was written late
  child,       \* the two processes of the stage, as the controller knows them
  signalled,   \* those that were terminated
  orphans      \* processes whose controller is gone

disk       == <<file, written, made>>
controller == <<at, round, held, late>>
history    == <<stages, diagnoses, overtaken>>
processes  == <<child, signalled, orphans>>
vars == <<disk, controller, history, processes>>

Outputs   == {"predictions", "source"}
Execution == Outputs \cup {"log", "barrier", "eval", "gaps", "diagnosis", "optimization",
                           "summary", "anticheat", "manifest"}
Names     == Execution \cup {"meta", "lineage"}

NoFile  == [absent |-> TRUE]
Nothing == [nothing |-> TRUE]
There(n, name) == file[n][name] # NoFile
Idle == at = "idle"

Rest  == at' = "idle" /\ round' = 0 /\ held' = Nothing /\ late' = FALSE
Alone == child' = [c \in Commands |-> "none"] /\ signalled' = {}
GoTo(step, content) == at' = step /\ held' = content /\ UNCHANGED <<round, late>>
WorkOn(n, step, content) == at' = step /\ round' = n /\ held' = content /\ late' = FALSE

Put(n, name, content) == file' = [file EXCEPT ![n][name] = content]
Save(name, content) == Put(round, name, content) /\ UNCHANGED <<written, made>>

Init ==
  /\ file = [n \in Rounds |-> [name \in Names |-> NoFile]]
  /\ written = [n \in Rounds |-> [c \in Commands |-> 0]]
  /\ made = {}
  /\ at = "idle" /\ round = 0 /\ held = Nothing /\ late = FALSE
  /\ stages = 0 /\ diagnoses = 0 /\ overtaken = {}
  /\ child = [c \in Commands |-> "none"]
  /\ signalled = {} /\ orphans = {}

-------------------------------------------------------------------------------
(* prepare-round.                                                          *)

(* create_round: nothing of a run is there, and metadata that is there     *)
(* says the same.                                                          *)
Preparable(n, confirms) ==
  /\ \A name \in Execution : ~There(n, name)
  /\ There(n, "meta") => file[n]["meta"].confirms = confirms

Prepare(n) ==
  /\ Idle
  /\ \E p \in Preparations[n] :
       /\ LineageIsValid(p.lineage) /\ p.confirms < n /\ Preparable(n, p.confirms)
       /\ Put(n, "meta", [confirms |-> p.confirms])
       /\ WorkOn(n, "lineage", p.lineage)
  /\ made' = made \cup {n}
  /\ UNCHANGED <<written, history, processes>>

(* Arguments are refused after the directory was made.                     *)
PrepareRefused(n) ==
  /\ Idle
  /\ made' = made \cup {n}
  /\ UNCHANGED <<file, written, controller, history, processes>>

WriteLineage ==
  /\ at = "lineage"
  /\ Save("lineage", held)
  /\ Rest
  /\ UNCHANGED <<history, processes>>

-------------------------------------------------------------------------------
(* run-parallel: run_parallel_prediction_and_eval.                         *)

RunParallel(n) ==
  /\ Idle /\ stages < MaxStages
  /\ stages' = stages + 1
  /\ made' = made \cup {n}
  /\ WorkOn(n, "start", Nothing)
  /\ UNCHANGED <<file, written, diagnoses, overtaken, processes>>

(* _start opens the log, which replaces an earlier one.                    *)
StartPrediction ==
  /\ at = "start"
  /\ Save("log", [opened |-> TRUE])
  /\ child' = [child EXCEPT !["prediction"] = "running"]
  /\ GoTo("start-eval", Nothing)
  /\ UNCHANGED <<history, signalled, orphans>>

StartEval ==
  /\ at = "start-eval"
  /\ child' = [child EXCEPT !["eval"] = "running"]
  /\ GoTo("poll", Nothing)
  /\ UNCHANGED <<disk, history, signalled, orphans>>

(* A command cannot be started: what was started is terminated.            *)
StartFails ==
  /\ at \in {"start", "start-eval"}
  /\ GoTo("failing", Nothing)
  /\ signalled' = {c \in Commands : child[c] = "running"}
  /\ UNCHANGED <<disk, history, child, orphans>>

(* What a command writes to round n is as new as the last stage started.   *)
Writes(c, n) ==
  /\ \/ c = "prediction" /\ \E rows \in Rows[n] : Put(n, "predictions", [rows |-> rows])
     \/ c = "eval" /\ \E eval \in Evals[n] : Put(n, "source", eval)
  /\ written' = [written EXCEPT ![n][c] = stages]

(* A command writes what it was asked for, or not, and ends.  Nothing      *)
(* notices before the next poll.                                           *)
Over(c, exit) ==
  /\ child[c] = "running"
  /\ Writes(c, round) \/ UNCHANGED <<file, written>>
  /\ child' = [child EXCEPT ![c] = exit]
  /\ UNCHANGED made

(* Slip: the barrier is reached by the command that ends first.            *)
ReapSlip(c) ==
  /\ at = "poll"
  /\ Over(c, "zero")
  /\ GoTo("barrier", Nothing)
  /\ UNCHANGED <<history, signalled, orphans>>

(* poll sees that a command ended with zero.                               *)
Reap(c) ==
  /\ at = "poll"
  /\ Over(c, "zero")
  /\ GoTo(IF \A d \in Commands : child'[d] = "zero" THEN "barrier" ELSE "poll", Nothing)
  /\ UNCHANGED <<history, signalled, orphans>>

(* A command has failed: its peer is terminated.                           *)
ReapFailure(c) ==
  /\ at = "poll"
  /\ Over(c, "nonzero")
  /\ signalled' = {d \in Commands : child'[d] = "running"}
  /\ GoTo("failing", Nothing)
  /\ UNCHANGED <<history, orphans>>

(* _terminate: SIGTERM, and SIGKILL after five seconds.                    *)
Terminated(c) ==
  /\ at = "failing"
  /\ Over(c, "nonzero")
  /\ UNCHANGED <<controller, history, signalled, orphans>>

(* The peers are waited for, and the failure is raised.                    *)
RaiseFailure ==
  /\ at = "failing"
  /\ \A c \in Commands : child[c] # "running"
  /\ Rest /\ Alone
  /\ UNCHANGED <<disk, history, orphans>>

WriteBarrier ==
  /\ at = "barrier"
  /\ Save("barrier", [stage |-> stages])
  /\ Rest /\ Alone
  /\ UNCHANGED <<history, orphans>>

-------------------------------------------------------------------------------
(* analyze and the analyst.                                                *)

(* validate_round_outputs_fresh: what the two commands made is not older   *)
(* than the stage of the barrier.                                          *)
Fresh(n) ==
  /\ \A name \in Outputs : There(n, name)
  /\ \A c \in Commands : written[n][c] >= file[n]["barrier"].stage

(* canonicalize_eval_artifacts copies the result of the evaluation.        *)
Analyze(n) ==
  /\ Idle
  /\ There(n, "meta") /\ There(n, "barrier") /\ Fresh(n)
  /\ Put(n, "eval", file[n]["source"])
  /\ WorkOn(n, "gaps", Nothing)
  /\ UNCHANGED <<written, made, history, processes>>

(* An analyst more.                                                        *)
NewAnalyst == diagnoses < MaxDiagnoses /\ diagnoses' = diagnoses + 1

(* run-round then starts the analyst.                                      *)
WriteGaps ==
  /\ at = "gaps" /\ There(round, "predictions")
  /\ LET gaps == [predictions |-> file[round]["predictions"], eval |-> file[round]["eval"]]
     IN  /\ Save("gaps", gaps)
         /\ \/ Rest /\ UNCHANGED diagnoses
            \/ GoTo("analyst", gaps) /\ NewAnalyst
  /\ UNCHANGED <<stages, overtaken, processes>>

(* An analyst explains the gaps, all of them or not.                       *)
Explains(n, gaps) ==
  /\ \E d \in Diagnoses[n] :
       Put(n, "diagnosis", [on |-> gaps, left |-> d.left, whole |-> d.whole])
  /\ UNCHANGED <<written, made>>

(* Between analyze and finalize an analyst is called by hand.              *)
Diagnose(n) ==
  /\ Idle /\ There(n, "gaps")
  /\ NewAnalyst /\ Explains(n, file[n]["gaps"])
  /\ UNCHANGED <<stages, overtaken, controller, processes>>

(* run_checked_command: the analyst of run-round ends, well or not, or     *)
(* could not be started.                                                   *)
AnalystEnds ==
  /\ at = "analyst"
  /\ Explains(round, held) \/ UNCHANGED disk
  /\ Rest
  /\ UNCHANGED <<history, processes>>

-------------------------------------------------------------------------------
(* The processes that are under way.                                       *)
AtWork == {c \in Commands : child[c] = "running"}
            \cup {c \in {"analyst"} : at = "analyst"}

(* The controller ends before its command is done: an error, an interrupt, *)
(* a crash.  What it has written stays, and what it has started goes on,   *)
(* with what it was given.                                                 *)
(* Bound: what an earlier command left behind has ended when another       *)
(* leaves something behind.                                                *)
Break ==
  /\ ~Idle
  /\ orphans' = IF AtWork = {} THEN orphans
                ELSE {[command |-> c, round |-> round, given |-> held] : c \in AtWork}
  /\ Rest /\ Alone
  /\ UNCHANGED <<disk, history>>

(* A process without a controller writes its output, or does nothing more. *)
(* An analyst may have read the gaps at its start or now, and finalize may *)
(* have read the diagnosis before.                                         *)
OrphanWrites ==
  \E o \in orphans :
    /\ \/ /\ o.command \in Commands
          /\ Writes(o.command, o.round)
          /\ UNCHANGED <<made, late>>
       \/ /\ o.command = "analyst"
          /\ \E gaps \in {o.given, file[o.round]["gaps"]} : Explains(o.round, gaps)
          /\ late' = (late \/ (o.round = round /\ at \in {"summary", "integrity", "manifest"}))
    /\ orphans' = orphans \ {o}
    /\ UNCHANGED <<at, round, held, history, child, signalled>>

-------------------------------------------------------------------------------
(* finalize.                                                               *)

(* _load_previous_rounds: what is read of a round before, and of all of    *)
(* them in their order.                                                    *)
RecordOf(m) ==
  [selected |-> file[m]["optimization"].selected,
   left     |-> file[m]["optimization"].left,
   eval     |-> file[m]["summary"].eval,
   contract |-> file[m]["optimization"].basis["eval"].contract,
   lineage  |-> file[m]["lineage"]]

Before(n) == {m \in made : m < n}

HistoryIsThere(n) ==
  \A m \in Before(n), name \in {"summary", "optimization", "lineage", "eval"} : There(m, name)

History(n) ==
  LET before == SelectSeq([m \in 1..(n - 1) |-> m], LAMBDA m : m \in made)
  IN  [i \in DOMAIN before |-> RecordOf(before[i])]

(* The last of them, which this one may confirm.                           *)
Confirms(n) ==
  IF Before(n) = {} THEN 0
  ELSE LET m == Max(Before(n))
       IN  IF TwoGreen(file[n]["eval"], file[n]["lineage"], RecordOf(m)) THEN m ELSE 0

(* What the summaries of a round are computed from.                        *)
Basis(n) == [name \in {"eval", "gaps", "diagnosis", "lineage"} |-> file[n][name]]

(* build_round_summaries: the rules let the selection pass, and a round    *)
(* without a selection is green.                                           *)
Finalize(n) ==
  /\ Idle
  /\ \A name \in DOMAIN Basis(n) : There(n, name)
  /\ HistoryIsThere(n)
  /\ \E choice \in {None} \cup Selectable[n], decision \in {None, "keep"}, confirmation \in BOOLEAN :
       LET before == History(n)
           eval   == file[n]["eval"]
           found  == file[n]["diagnosis"].left
       IN \E selected \in Selections(choice, found) :
           /\ selected = None => eval.green
           /\ Allowed(before, found, Regressed(before, eval), selected, decision)
           /\ Put(n, "optimization", [selected |-> selected, left |-> found, basis |-> Basis(n)])
           /\ WorkOn(n, "summary",
                     [summary |-> [eval |-> eval, basis |-> Basis(n), confirms |-> Confirms(n)],
                      confirmation |-> confirmation])
  /\ UNCHANGED <<written, made, history, processes>>

WriteSummary ==
  /\ at = "summary"
  /\ Save("summary", held.summary)
  /\ GoTo("integrity", [confirmation |-> held.confirmation])
  /\ UNCHANGED <<history, processes>>

(* A diagnosis of other gaps may cover these by chance.                    *)
MayCover(n) == file[n]["diagnosis"].on = file[n]["gaps"] => file[n]["diagnosis"].whole
MayMiss(n)  == file[n]["diagnosis"].on = file[n]["gaps"] => ~file[n]["diagnosis"].whole

Recent(n) ==
  LET rounds == SelectSeq([i \in 1..n |-> i], LAMBDA m : m >= n - 2 /\ There(m, "optimization"))
  IN  [i \in DOMAIN rounds |-> file[rounds[i]]["optimization"].selected]

(* validate_round_integrity, the diagnosis aside: no finding.              *)
Clean(n) ==
  LET rows == file[n]["predictions"]
  IN  /\ rows.rows \in Sound
      /\ (n - 1) \in made =>
           /\ ~Stale(rows, file[n - 1]["predictions"], held.confirmation)
           /\ ~CommitIsWrong(file[n]["lineage"], file[n - 1]["lineage"], held.confirmation)
      /\ ~Stalled(Recent(n))

(* The report is written whether there are findings or not.                *)
Judge ==
  /\ at = "integrity"
  /\ There(round, "predictions")
  /\ (round - 1) \in made => There(round - 1, "predictions") /\ There(round - 1, "lineage")
  /\ \E valid \in BOOLEAN :
       /\ valid => Clean(round) /\ MayCover(round)
       /\ ~valid => ~Clean(round) \/ MayMiss(round)
       /\ Save("anticheat", [valid |-> valid, on |-> file[round]["optimization"],
                             rows |-> file[round]["predictions"]])
       /\ IF valid THEN GoTo("manifest", Nothing) ELSE Rest
  /\ UNCHANGED <<history, processes>>

(* Slip: the manifest leaves out what was written by hand.                 *)
SnapshotSlip(n) == [name \in Names \ {"manifest", "diagnosis"} |-> file[n][name]]

(* write_artifact_manifest: the hashes of all files.                       *)
Snapshot(n) == [name \in Names \ {"manifest"} |-> file[n][name]]

WriteManifest ==
  /\ at = "manifest"
  /\ Save("manifest", Snapshot(round))
  /\ Rest
  /\ overtaken' = IF late THEN overtaken \cup {round} ELSE overtaken \ {round}
  /\ UNCHANGED <<stages, diagnoses, processes>>

(* verify: every file of the manifest is there as it was, and no finding.  *)
Verifies(n) ==
  /\ There(n, "manifest")
  /\ \A name \in DOMAIN file[n]["manifest"] :
       LET content == file[n]["manifest"][name]
       IN  content # NoFile => file[n][name] = content
  /\ There(n, "anticheat") /\ file[n]["anticheat"].valid

-------------------------------------------------------------------------------
Controller ==
  \/ WriteLineage
  \/ StartPrediction \/ StartEval \/ StartFails \/ RaiseFailure \/ WriteBarrier
  \/ WriteGaps \/ WriteSummary \/ Judge \/ WriteManifest

Next ==
  \/ \E n \in Rounds : \/ Prepare(n) \/ PrepareRefused(n) \/ RunParallel(n)
                       \/ Analyze(n) \/ Diagnose(n) \/ Finalize(n)
  \/ Controller
  \/ \E c \in Commands : Reap(c) \/ ReapFailure(c) \/ Terminated(c)
  \/ AnalystEnds \/ OrphanWrites \/ Break

Spec == Init /\ [][Next]_vars

(* The controller goes on, and what is killed ends; nothing else has to:   *)
(* a command may run for ever.                                             *)
FairSpec == /\ Spec
            /\ WF_vars(Controller)
            /\ \A c \in Commands : WF_vars(c \in signalled /\ Terminated(c))

-------------------------------------------------------------------------------
(* Properties.                                                             *)

(* docs/ptv/02-workflow.md:84: the barrier is written only when both       *)
(* commands exited with zero.                                              *)
BarrierMeansBoth ==
  [][\A n \in Rounds :
       file'[n]["barrier"] # file[n]["barrier"] => \A c \in Commands : child[c] = "zero"]_vars

(* docs/ptv/02-workflow.md:64: as soon as one command fails, the stage     *)
(* comes to its end, although the other command might run for ever.        *)
FailureEndsTheStage ==
  at = "failing" ~> Idle

(* The barrier is one: it is passed by both commands or by none.           *)
StageIsABarrier == BarrierMeansBoth /\ FailureEndsTheStage

(* The commits a confirmation rests on stand: however the rounds are run   *)
(* and finalized again, a round that is said to confirm an earlier one has *)
(* evaluated the same commit, and neither has a fix after its evaluation.  *)
ConfirmedCommitStands ==
  \A n \in Rounds :
    LET m == file[n]["summary"].confirms
    IN  There(n, "summary") /\ m # 0 =>
          /\ m < n
          /\ file[m]["lineage"].eval = file[n]["lineage"].eval
          /\ file[m]["lineage"].post = None /\ file[n]["lineage"].post = None

(* A round that verifies is as it was judged: its summaries were computed  *)
(* together and from the evaluation, gaps and commits that are there, and  *)
(* it is these summaries that were found to break no rule, whatever was    *)
(* interrupted or run again in between.  They are computed from the        *)
(* diagnosis that is there as well, except where an analyst whose          *)
(* controller was interrupted replaced the diagnosis between a finalize's  *)
(* reading it (ptv_summary.py:69) and its manifest: finalize reads it      *)
(* again for the checks and hashes what it finds then.  (The predictions   *)
(* may be others, if a command was left running.)                          *)
VerifiedIsAsJudged ==
  \A n \in Rounds : Verifies(n) =>
    /\ file[n]["summary"].basis = file[n]["optimization"].basis
    /\ \A name \in DOMAIN Basis(n) :
         (name = "diagnosis" => n \notin overtaken) =>
           file[n]["optimization"].basis[name] = file[n][name]
    /\ file[n]["anticheat"].on = file[n]["optimization"]
===============================================================================
