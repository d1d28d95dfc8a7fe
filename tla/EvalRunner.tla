------------------------------ MODULE EvalRunner ------------------------------
(***************************************************************************)
(* The direct evaluation runner (metric_rca/evals/runner.py).  Runs are    *)
(* made in the process itself, under ids that are derived from the ids of  *)
(* the evaluation and of the case; their rows outlive the process.  The    *)
(* evaluation may be started again under its id.  (That the pool tells its *)
(* cases in order is what EvalPool is about; here they are told in order.) *)
(***************************************************************************)
EXTENDS Integers, FiniteSets

CONSTANTS
  N,             \* number of cases
  Concurrency,   \* settings.eval_concurrency
  MaxAttempts,   \* settings.eval_llm_max_attempts
  MaxProcesses   \* bound: how often the evaluation is started

(* load_cases refuses an empty file, and Settings fewer attempts than one. *)
ASSUME CasesAssumption    == N \in Nat \ {0}
ASSUME AttemptsAssumption == MaxAttempts \in Nat \ {0}

Cases  == 1..N
Passes == {"memory", "case"}

VARIABLES
  process,   \* how many processes have been started
  main,      \* where the main thread is
  pass,      \* the pass it is in
  task,      \* of each case: its future in this pass
  attempt,   \* the attempt it is at
  told,      \* the number of cases told in this pass
  score,     \* of each pass and case: the run whose rows were scored
  row,       \* table agent_run, by run id
  owner,     \* the process that last ran the run
  summary,   \* the row of the evaluation
  dataset    \* the process that wrote the dataset, 0 if none did

work   == <<task, attempt>>
tables == <<row, owner>>
ended  == <<summary, dataset>>
runner == <<process, main, pass, work, told, score, tables, ended>>

NoRun  == <<>>
RunIds == Passes \X Cases \X (1..MaxAttempts)

(* _attempt_run_id: a run id of its own for each pass, case and attempt,   *)
(* but not for each process.                                               *)
RunId(c) == <<pass, c, attempt[c]>>

Live(c) == task[c] \in {"queued", "inserted", "running", "reading", "pause"}

RunnerInit ==
  /\ process = 0 /\ main = "off" /\ pass = "memory"
  /\ task = [c \in Cases |-> "none"] /\ attempt = [c \in Cases |-> 1]
  /\ told = 0
  /\ score = [p \in Passes |-> [c \in Cases |-> NoRun]]
  /\ row = [r \in RunIds |-> "absent"] /\ owner = [r \in RunIds |-> 0]
  /\ summary = [process |-> 0, cases |-> 0, complete |-> FALSE, dataset |-> FALSE]
  /\ dataset = 0

-------------------------------------------------------------------------------
(* The main thread.                                                        *)

RunnerIsOver == {"off", "met", "missed", "failed", "dead"}
Exited == main \in RunnerIsOver /\ \A c \in Cases : ~Live(c)

StartProcess ==
  /\ Exited /\ process < MaxProcesses
  /\ process' = process + 1
  /\ main' = "begin" /\ pass' = "memory"
  /\ task' = [c \in Cases |-> "none"] /\ attempt' = [c \in Cases |-> 1]
  /\ told' = 0
  /\ score' = [p \in Passes |-> [c \in Cases |-> NoRun]]
  /\ UNCHANGED <<tables, ended>>

Abort == /\ main' = "failed"
         /\ task' = [c \in Cases |-> IF task[c] = "queued" THEN "none" ELSE task[c]]

SummaryOf(complete, withDataset) ==
  [process |-> process, cases |-> Cardinality({c \in Cases : score["case"][c] # NoRun}),
   complete |-> complete, dataset |-> withDataset]

(* _persist_eval_summary is a system write without retries; its failure    *)
(* ends the evaluation, and may have taken effect.                         *)
Persist(s, to) ==
  \/ summary' = s /\ main' = to /\ UNCHANGED task
  \/ summary' \in {summary, s} /\ Abort

PersistFirst ==
  /\ main = "begin"
  /\ Persist(SummaryOf(FALSE, FALSE), "cases")
  /\ UNCHANGED <<process, pass, attempt, told, score, tables, dataset>>

(* A case is handed to the pool while fewer than Concurrency of them are   *)
(* on their way.                                                           *)
Submit ==
  /\ main = "cases"
  /\ Cardinality({c \in Cases : Live(c)}) < Concurrency
  /\ \E c \in Cases :
       /\ task[c] = "none" /\ \A d \in 1..(c - 1) : task[d] # "none"
       /\ task' = [task EXCEPT ![c] = "queued"]
  /\ UNCHANGED <<process, main, pass, attempt, told, score, tables, ended>>

(* _notify_memory_case and _notify_case: the next case in order is told,   *)
(* and the progress is stored.                                             *)
Tell ==
  /\ main = "cases" /\ told < N /\ task[told + 1] = "scored"
  /\ told' = told + 1
  /\ score' = [score EXCEPT ![pass][told + 1] = RunId(told + 1)]
  /\ main' = "progress"
  /\ UNCHANGED <<process, pass, work, tables, ended>>

StoreProgress ==
  /\ main = "progress"
  /\ Persist(SummaryOf(FALSE, FALSE), "cases")
  /\ UNCHANGED <<process, pass, attempt, told, score, tables, dataset>>

(* result() raises what the thread raised.                                 *)
Raise ==
  /\ main = "cases" /\ \E c \in Cases : task[c] = "raised"
  /\ Abort
  /\ UNCHANGED <<process, pass, attempt, told, score, tables, ended>>

EndPass ==
  /\ main = "cases" /\ told = N
  /\ IF pass = "memory"
     THEN /\ pass' = "case" /\ told' = 0 /\ UNCHANGED main
          /\ task' = [c \in Cases |-> "none"] /\ attempt' = [c \in Cases |-> 1]
     ELSE main' = "summary" /\ UNCHANGED <<pass, told, work>>
  /\ UNCHANGED <<process, score, tables, ended>>

(* The complete summary, without the dataset.                              *)
StoreComplete ==
  /\ main = "summary"
  /\ Persist(SummaryOf(TRUE, FALSE), "dataset")
  /\ UNCHANGED <<process, pass, attempt, told, score, tables, dataset>>

(* write_grpo_dataset fails, or writes its files.                          *)
WriteDataset ==
  /\ main = "dataset"
  /\ \/ dataset' = process /\ main' = "declare" /\ UNCHANGED task
     \/ Abort /\ UNCHANGED dataset
  /\ UNCHANGED <<process, pass, attempt, told, score, tables, summary>>

(* The summary once more, with the dataset; then the thresholds.           *)
Declare ==
  /\ main = "declare"
  /\ \E to \in {"met", "missed"} : Persist(SummaryOf(TRUE, TRUE), to)
  /\ UNCHANGED <<process, pass, attempt, told, score, tables, dataset>>

-------------------------------------------------------------------------------
(* A thread: _run_case_with_retries, _read_artifacts, score_case.          *)

MoveTo(c, to) == task' = [task EXCEPT ![c] = to]
Alone == UNCHANGED <<process, main, pass, told, score, ended>>

(* TraceWriter.start_run: see StartsFrom of RunService.                    *)
LetIn(s) == s \in {"absent", "fresh"}

(* Slip: a run that is there as a success is not made again.               *)
InsertRunSlip(c) ==
  /\ task[c] \in {"queued", "pause"}
  /\ IF row[RunId(c)] = "success"
     THEN MoveTo(c, "reading") /\ UNCHANGED tables
     ELSE /\ row' = [row EXCEPT ![RunId(c)] = "fresh"]
          /\ owner' = [owner EXCEPT ![RunId(c)] = process]
          /\ MoveTo(c, "inserted")
  /\ UNCHANGED attempt /\ Alone

(* run_rca begins with the row of the run; one that is there turns the     *)
(* run away with SYSTEM_TABLE_WRITE_FAILED, which is not transient.        *)
InsertRun(c) ==
  /\ task[c] \in {"queued", "pause"}
  /\ IF LetIn(row[RunId(c)])
     THEN /\ row' = [row EXCEPT ![RunId(c)] = "fresh"]
          /\ owner' = [owner EXCEPT ![RunId(c)] = process]
          /\ MoveTo(c, "inserted")
     ELSE /\ MoveTo(c, "raised")
          /\ UNCHANGED <<row, owner>>
  /\ UNCHANGED attempt /\ Alone

(* The context is set, and the run goes on.                                *)
Work(c) ==
  /\ task[c] = "inserted"
  /\ row' = [row EXCEPT ![RunId(c)] = "open"]
  /\ MoveTo(c, "running")
  /\ UNCHANGED <<attempt, owner>> /\ Alone

(* A success is durable.                                                   *)
Succeed(c) ==
  /\ task[c] = "running"
  /\ row' = [row EXCEPT ![RunId(c)] = "success"]
  /\ MoveTo(c, "reading")
  /\ UNCHANGED <<attempt, owner>> /\ Alone

MayRetry(c) == attempt[c] < MaxAttempts

(* A failure that may pass is answered, before or after the context is     *)
(* set; the row is settled if it can be.  The case is run once more under  *)
(* the next id.                                                            *)
FailForNow(c) ==
  /\ task[c] \in {"inserted", "running"} /\ MayRetry(c)
  /\ row' \in {row, [row EXCEPT ![RunId(c)] = "failed"]}
  /\ attempt' = [attempt EXCEPT ![c] = attempt[c] + 1] /\ MoveTo(c, "pause")
  /\ UNCHANGED owner /\ Alone

(* Any other failure, or an exception.                                     *)
FailForGood(c) ==
  /\ task[c] \in {"inserted", "running"}
  /\ row' \in {row, [row EXCEPT ![RunId(c)] = "failed"]}
  /\ MoveTo(c, "raised")
  /\ UNCHANGED <<attempt, owner>> /\ Alone

(* The rows are read, unless that fails, and scored.                       *)
Read(c) ==
  /\ task[c] = "reading"
  /\ \/ row[RunId(c)] = "success" /\ MoveTo(c, "scored")
     \/ MoveTo(c, "raised")
  /\ UNCHANGED <<attempt, tables>> /\ Alone

(* The process dies; its rows stay as they are.                            *)
Crash ==
  /\ ~Exited
  /\ main' = "dead" /\ task' = [c \in Cases |-> "none"]
  /\ UNCHANGED <<process, pass, attempt, told, score, tables, ended>>

MainStep == \/ PersistFirst \/ Submit \/ Tell \/ StoreProgress \/ Raise \/ EndPass
            \/ StoreComplete \/ WriteDataset \/ Declare

Thread(c) == \/ InsertRun(c) \/ Work(c) \/ Succeed(c) \/ FailForNow(c) \/ FailForGood(c)
             \/ Read(c)

RunnerNext == StartProcess \/ MainStep \/ Crash \/ \E c \in Cases : Thread(c)

RunnerSpec == RunnerInit /\ [][RunnerNext]_runner

-------------------------------------------------------------------------------
(* Properties.                                                             *)

(* A score is that of a run which this very process has made, which ended  *)
(* as a success, in the pass and for the case it stands for; although the  *)
(* rows of earlier processes are there under the same ids.                 *)
ScoresAreOwn ==
  \A p \in Passes, c \in Cases : score[p][c] # NoRun =>
    /\ score[p][c][1] = p /\ score[p][c][2] = c
    /\ row[score[p][c]] = "success"
    /\ owner[score[p][c]] = process

(* A run of a case that went before the one that was scored is not a       *)
(* success: no result is thrown away for a later one.                      *)
NothingIsRunAgain ==
  \A p \in Passes, c \in Cases : score[p][c] # NoRun =>
    \A k \in 1..(score[p][c][3] - 1) :
      row[<<p, c, k>>] # "success" /\ owner[<<p, c, k>>] = process

(* The stored evaluation names a dataset only after it was written, and is *)
(* complete only when every case had its score.                            *)
DatasetIsThere ==
  /\ summary.dataset => dataset >= summary.process
  /\ summary.complete => summary.cases = N

(* What a stored evaluation stands for.                                    *)
EvaluationIsTrue == ScoresAreOwn /\ NothingIsRunAgain /\ DatasetIsThere
===============================================================================
