# MetricRCA in TLA+

MetricRCA answers questions such as "why did gmv drop yesterday". A question is
parsed into an intent, the intent is compiled into a typed plan of analysis
actions, the plan is executed against a warehouse, every result becomes a row
of evidence, and a report is projected from the persisted rows. Beside it, the
repository evaluates the diagnoses over files of cases, drives cycles of
prediction, evaluation and repair, exports these as training data, and seeds the
warehouse. This directory holds a TLA+ model of that deterministic core, TLC
configurations that check it on small instances, and proofs that TLAPS checks
for every instance. Paths such as `runtime/plan_executor.py` are below
`src/metric_rca/`.

## Inventory

| Component | State it keeps | Operations | Correct when |
|---|---|---|---|
| Intent planner `services/intent_planner.py`, metric service `services/metric_service.py` | attempts of one parse | parse, validate | what the user named is what is planned |
| Plan compiler `runtime/plan_compiler.py`, policies `business/policy_registry.py`, aliases `runtime/evidence_identity.py` | none | `compile(intent, hints, budget)` | plans are complete, their evidence is all used, memory does not change the question |
| Query spec, renderer, guard `guardrails/` | none | build, render, guard | every statement of a plan passes all gates and is answered in full |
| Action gate `runtime/action_gate.py` | reads the counters, the graph and E1 | `validate` | nothing out of scope, out of order or beyond the budget runs |
| Plan executor `runtime/plan_executor.py`, `runtime/execution_contract.py` | counters of `RunContext`, in-memory evidence graph, position in the plan | `execute` | each statement is charged once, evidence is published in order and traced, budgets hold, it ends |
| Tools `runtime/sdk_tools.py`, `agent/tools/`, `runtime/ranking.py` | evidence rows of the run | seven tools | they use only what the plan says, write one row, declare their SQL truthfully |
| Contribution sets `runtime/contribution_set_builder.py`, ranking `runtime/ranking.py`, `services/` | none | attribution, merge, rank | merged sets cite stored evidence, a confirmed cause is not outranked |
| Reflection `agent/reflection.py`, report `reporting/projector.py` | none | verify, project | only evidence refutes a diagnosis; what is accepted can be reported |
| Run service `runtime/run_service.py` | status of the run | parse, read priors, compile, execute, reflect, report, remember, create task, finish | every run ends in a final status that agrees with its rows |
| Repository `repositories/metric_repository.py` | tables `agent_run`, `evidence`, `sql_audit`, `trace_step`, `operation_task`, `memory_record` | audited queries, idempotent writes with retries | a statement that ran is audited, a retried write takes effect once |
| Trace writer `observability/trace.py` | next sequence number per run | start, context, step, finish | steps are numbered in order, a finished run stays finished |
| Memory `runtime/memory_service.py`, `memory/memory_repo.py` | versioned memory records | read priors, write verified case, write failure, view of a run | newer records come first, priors suit the question |
| Evaluation client `evals/client.py`, runner `evals/runner.py`, `evals/scorer.py` | pool of running cases, progress, stored evaluation | run cases, retry, score, accept | each case is run once at a time, told in order, and scored by its own run |
| Predict-Test-Verify `evals/ptv_*.py`, predictions `evals/prediction.py` | processes, the files of the rounds | prepare, run in parallel, analyse, diagnose, finalize, verify | the barrier stands for two successes, a verified round is as it was judged |
| Training export `evals/grpo_*.py` | files of a dataset | export | examples are earned, a manifest vouches for one export |
| Seed data `data/` | the warehouse, the files of the scenarios | seed, compile scenarios | readers see the data of one seed, labels are true of the data |
| HTTP API `api/` | none | create a run, read its pages, store evaluations | a page that says success shows the report |
| Agent factory, model adapters `agent/`, `adapters/` | | | not modelled |

How they interact. A run is one call of `RunService.run` on one thread; there is no
lock and no callback in it. All sharing goes through the database, where each helper
call is a transaction of its own. The run, its rows and its executor are keyed by a
fresh `run_id`, so two runs meet only in memory records. Concurrency exists between
runs (memory), in the two evaluation runners (a pool of threads each, with callbacks
in the main thread), between an evaluation client and a server whose runs outlive
their requests, in the Predict-Test-Verify controller (two processes and an analyst,
each in a session of its own, that may outlive it), between the page of a run and the
run, between an export and the cycle it exports, and between seeders and the running
program. What is hard in the core is failure between two database calls, writes that
are reported as failed but took effect, and the agreement of components (compiler,
gate, tools, specification, renderer, guard, ranking, reflection, scorer) that each
have their own idea of scope, aliases, columns and cost. The hazards with their lines
are in `PROJECT.json`.

## Modules

| Module | Models | Kind |
|---|---|---|
| `RcaPlan` | aliases and their prefixes, actions, plans, the SQL they cost, `plan_validator.py` | operators |
| `PolicyRegistry` | signal policies, discovery rules, lanes, allowed dimensions | operators |
| `Guardrails` | specifications, statements, renderer, guard, gates of the repository, the data they find | operators |
| `PlanCompiler` | `compile` with all its branches, memory hints, budgets | operators |
| `QuestionParsing` | what planner and metric service make of an answer of the model | operators |
| `PlanCompilation` | a question is parsed in up to three attempts, priors are read, the intent is compiled | state machine |
| `ActionGate` | the checks of `ActionGate.validate` in their order, and `resolve_action_execution` | operators |
| `PlanRun` | what executing a plan promises | abstract specification |
| `PlanExecutor` | `execute` with the tools, against a failing database | state machine |
| `CompiledRun` | the compiler's plans in the executor | composition |
| `RunLifecycle` | what the service promises of a run | abstract specification |
| `RunService` | a call of `RunService.run` from its first write to its answer, crashes, ids used again, the page of a run | state machine |
| `StoredOnce` | what a write to a system table promises | abstract specification |
| `SystemWrite` | `MetricRepository._write` with retries and idempotency checks | state machine |
| `MemoryStore` | the records of a metric, and the runs that read and write them | state machine |
| `ContributionSets` | attribution, lane sets, merge | operators |
| `Ranking` | Adtributor weights and every rule of `rank_root_causes` | operators |
| `Reflection` | `verify_reflection` on the stored rows | operators |
| `Scoring` | projector, scorer, the judges of reward and dataset | operators |
| `Verdict` | the facts of a question taken through all of these | state machine |
| `Acceptance` | what an evaluation sums up, and the thresholds of both runners | state machine of one step |
| `EvalInOrder` | what an evaluation promises | abstract specification |
| `EvalPool` | the evaluation over HTTP: threads, retries, timeouts, late requests, crashes | state machine |
| `EvalRunner` | the direct runner, whose runs have derived ids | state machine |
| `PtvRules` | the rules of the controller over a history of rounds | operators |
| `PtvRound` | the commands over the files of the rounds, with their processes | state machine |
| `Rewards` | divergences of predictions; rewards of decisions, tasks, predictions and fixes | operators |
| `GrpoExport` | the export of a cycle that goes on | state machine |
| `SeedDatabase` | `make seed` on the database, with schema upgrades and several seeders | state machine |
| `SeedTruth` | the rows and labels of a profile, day by day, and the detector on them | state machine of one step |
| `ScenarioSeed` | checks, rows, shocks, metrics and gates of scenarios; their compilation into files | state machine |
| `PlanExecutorProofs` | theorems about `PlanExecutor`, `CompiledRun`, `PlanCompiler` and `PlanCompilation` | proofs |
| `SystemWriteProofs`, `EvalPoolProofs`, `RunServiceProofs`, `PtvRoundProofs`, `MemoryStoreProofs` | theorems about the module of that name | proofs |
| `OfflineProofs` | theorems about `EvalRunner`, `GrpoExport`, `SeedDatabase` and `ScenarioSeed` | proofs |
| `NaturalSets` | lemmas: minima and maxima of sets of naturals, sequences and their concatenation, induction, what `FlattenSeq` is made of | proofs |
| `MC...` | small values of the constants | model checking |

```
RcaPlan <- PolicyRegistry <- PlanCompiler, Guardrails
PlanCompiler <- QuestionParsing; QuestionParsing, Guardrails <- PlanCompilation <- MCPlanCompilation
RcaPlan <- ActionGate; ActionGate, PolicyRegistry <- PlanExecutor
                                     PlanRun <- PlanExecutor (INSTANCE)
PlanCompiler, PlanExecutor <- CompiledRun <- MCCompiledRun
CompiledRun, PlanCompilation, NaturalSets <- PlanExecutorProofs
PlanCompiler <- ContributionSets <- Ranking <- Reflection <- Scoring <- Verdict
Rewards <- Acceptance, GrpoExport, MCTraining; Verdict, Acceptance <- MCVerdict
RunLifecycle <- RunService (INSTANCE) <- RunServiceProofs
StoredOnce   <- SystemWrite (INSTANCE) <- SystemWriteProofs
EvalInOrder  <- EvalPool (INSTANCE) <- EvalPoolProofs
PtvRules <- PtvRound <- MCPtvRound, PtvRoundProofs
MemoryStore <- MCMemoryStore; MemoryStore, NaturalSets <- MemoryStoreProofs
EvalRunner, GrpoExport, SeedDatabase, ScenarioSeed, NaturalSets <- OfflineProofs
SeedDatabase, SeedTruth, ScenarioSeed, EvalRunner, GrpoExport <- MCOffline, with MCTraining as INSTANCE
```

### Correspondence

*Aliases* (`E3_ch_campaign`) are sequences of tokens (`<<"E3", "ch",
"campaign">>`), because the code only compares them for equality or for "is a
prefix up to an underscore". An *action* is a record of its arguments; "writes"
is the alias the tool allocates, which differs from the declared one where
`fetch_related_signal` appends the element. A *plan* is a record of target,
scope, mode, actions and budget. A *statement* (`Guardrails`) is the set of
tables, columns, joins, groups and days that the guard and the database look at.

*Executor.* `plan`, `pos` and `pc` are the position in the loop of `execute`;
`ctx` the counters of `RunContext`; `graph` the in-memory `EvidenceGraph`;
`evidence` and `audit` the rows of the tables; `before`, `issued` and `result`
the local variables of one turn; `trace` the trace rows; `outcome` the returned
`ExecutionResult`, or an exception ("raised"). One turn of the loop is a
sequence of steps, one per database call, so that each can fail on its own:

| `pc` | Actions | Code |
|---|---|---|
| load | `Load` | `EvidenceGraph.from_repository` |
| gate | `GateAllows`, `GateDenies`, `Succeed` | gate, `_fail_with_trace`, end of the loop |
| before | `CountBefore` | `_sql_audit_count` |
| tool | `ToolBegins`, `RenderRaises` | arguments, evidence checks, specification, rendering |
| query | `QueryRuns`, `QueryFails`, `AuditWriteFails` | `execute_plan` with its audit row |
| judge | `JudgeAccepts`, `JudgeRejects` | what the tool concludes from the rows |
| rerank | `RerankE4`, `RerankFails` | `_update_e4_summary` |
| persist | `Persist`, `PersistFails` | `create_evidence` |
| after | `Account...` | second audit count, resolution, `record_allowed_action`, trace, budget, publication, stop |
| any read | `ReadRaises` | a read that raises; nothing catches it |

The three outcomes of a write are: done; reported as failed and not done;
reported as failed and done all the same (an error on commit).

*Question.* `PlanCompilation` keeps the question as the facts that the code reads
in its text by regular expressions (which metric, values and days are named),
and lets the model answer anything on each attempt. `AskAgain`, `AnswerIsFinal`
and `ServiceRefuses` are the ends of one attempt.

*Run service.* For each run id, `pc` is the statement of `run` that the latest
call is at, `status`, `code` and `priors` are its local variables, `mode` its
memory settings, `seq` the trace writer's next number, and `answer` what it
returned, an exception ("raised") included. `row`, `found`, `task`, `traced` and
`memory` are the tables, reduced to what later steps tell apart: evidence, for
instance, to whether a report can be projected from it. Planning and execution
are one step each (`CompilePlan`, `Execute`), with every end that `PlanExecutor`
allows. `Crash` stops a call anywhere; `Start` may use its id again. Each write is
one step with the three outcomes above. `SystemWrite` opens this step up: what
it calls a failure is "undone" or "lost", what it acknowledges is "done".
`page` is what `get_run` or `create_run` has read of a run so far, one request at a
time (a request changes nothing that another could see).

*System write.* One write is followed through its attempts: `pc` is the place in
the loop of `_write`, `error` how the exception of the attempt was classified,
`row` the row it is about, `onItsWay` a commit whose reply was lost and that may
still take effect; as long as it may, the lock on the row lets no other
statement pass. `doubt` is a history variable that no guard reads.

*Memory.* A run reads the layers in the order of `After`, one transaction each
(`ReadLayer`), judges the hits, and later reads the next version, fixes the time
of creation (`Stamp`) and inserts, each a step of its own. `FreezeLegacyLayers`
is the maintenance that may run in between.

*Verdict.* A question is the record of its facts (`ContributionSets`): by how much
each element moved, its surprise, and what the signals of the lanes say. The
steps of the state machine are the tools of a plan and the statements of `run`
after it, which hand on `sets`, the E4 row and the E_rank row.

*Evaluations.* In `EvalPool` and `EvalRunner`, `main` is where the main thread is,
`task` the future of each case, `told` the order in which the callback saw them.
`live` counts the runs that the server still has of a case, whoever waits for them,
and `late` holds the requests that timed out but may still take effect.

*Predict-Test-Verify.* A round is a function from the names of its files to their
contents, of which `PtvRound` keeps what the rules read; `held` is what the
command under way has computed and not yet written, and `at` the statement it is at.
`child` and `signalled` are the two processes of `run-parallel`; the analyst of
`run-round` is at work while `at` is "analyst". `Break` interrupts the controller and
leaves what is at work behind in `orphans`; `OrphanWrites` is such a process writing
its output, whatever command is under way by then. `late` and `overtaken` are history
variables: they remember that a diagnosis was replaced while a finalize that had read
it went on, and of which rounds the manifest was written then. No guard reads them.

*Seed and export.* In `SeedDatabase` a transaction is `erased` and `added`, by
table, until a commit or the implicit commit of an `ALTER TABLE`; a table that a
transaction has used is locked for others. `waiting` and `counts` are the lists of
rows and the row counts of the load, which is a sequence of statements: a day adds a
row to each list, and a list is inserted when it is long enough, or at the end. In
`ScenarioSeed`
`files`, and in `GrpoExport` `output`, are the files on disk; a hash is the content
itself.

*Slips.* Some definitions are preceded by a variant marked "Slip", which is the
same code with a plausible mistake in it. Specifications never use them; with
one put in the place of the original, the property that is listed for it in
`PROJECT.json` is violated. They document what each property can detect.

## Runs

| Run | Module | States | About |
|---|---|---|---|
| PlanExecutor | `MCCompiledRun` | 15 971 | compiled plans under every fault of the database |
| PlanCompilation | `MCPlanCompilation` | 42 274 | questions, answers and what is planned |
| RunService | `RunService` | 26 746 | answers, rows, tasks, memory and trace of a run |
| SystemWrite | `SystemWrite` | 949 | one write and its retries |
| MemoryStore | `MCMemoryStore` | 993 966 | runs that share memory |
| Verdict | `MCVerdict` | 28 249 | which causes lead, which diagnoses are refuted, rewarded, accepted |
| EvalPool | `EvalPool` | 150 112 | the evaluation over HTTP |
| PtvRound | `MCPtvRound` | 1 010 637 | two rounds of a cycle |
| Offline | `MCOffline` | 1 104 294 | seed, labels, scenarios, direct runner, export, one program at a time |
| MemoryOnlyReorders | `MCPlanCompilation` | violation | finding 1 |
| FailuresAreTyped | `MCCompiledRun` | violation | finding 2 |
| MemoryOfFailures | `RunService` | violation | finding 3 |

Each has a configuration of its name: `tlc -config PlanExecutor.cfg MCCompiledRun`.

**PlanExecutor.** `LedgerIsAudit`: the query counter is the number of audited
statements between actions and at every typed end, although tools that fail
declare less than they ran. `BudgetHonoured`: a run overruns its query budget
only inside the one action that uses it up, and then does not succeed.
`SuccessIsComplete`, `EvidenceIsTraced`: trace, graph and rows agree, and the one
rewrite of a row, that of E4, is only ever separated from its E_rank row by an
exception. `CompiledPlansNeverMisfire`: no plan of a coherent intent fails for a
reason that lies in the plan. `LanesAreIsolated`: a row is made from exactly the
rows the plan names, although required aliases match whole families.
`ImplementsPlanRun`: the executor refines `PlanRun`, under the mapping stored =
the rows, published = the graph. `Terminates`: it always ends.

**PlanCompilation.** `PlansCarryThrough`: nothing is gathered in vain (each row of
a plan is used by a later action, down to the report), and each statement of a
plan passes the specification, the renderer, the guard and the repository, and
finds every row it asks for within its limit. `NothingAskedIsIgnored`: what the
user named is planned, whatever the model answers. `MemoryKeepsTheQuestion`:
memory changes neither what is asked nor a scoped plan.

**RunService.** `SuccessIsDurable`: a success that was answered can be rebuilt
from the rows alone, with its task and its memory, and a page that says success
shows its report and its task, although its reads are transactions of their own
and the run goes on in between. `TraceIsNumbered`: no two
trace rows of a run get one number, although a row whose write was reported as
failed may be there. `LessonsAreEarned`: memory and tasks agree with the rows.
`CallsReturn`: a call comes back unless its process dies. `ImplementsRunLifecycle`:
rows are opened once, settled at most once, and a success is only answered by the
call that settles the row.

**SystemWrite.** `AcknowledgedIsStored`: `_write` returns only if the row is
there, and no later commit can change it. `FailureIsExact`: a checked write
fails only without effect, unless the confirming read failed or came while a
commit was still on its way. `Returns`, `ImplementsStoredOnce`.

**MemoryStore.** `PriorsAreSound`: although versions are read in one transaction
and written in another, and two runs may take the same one, no read puts a record
behind one that its writer had seen; and a prior suits the question, has not
expired, is no lesson and carries no answer. `ViewIsOfItsTime`: the page of a run
shows its own record, nothing that others created after it started, and every prior
that was there by then, although rows are moved to other layers later and what the
run has read is only known from its trace.

**Verdict.** `OnlySignalsOrCoverageRefute`: the ranked set of a plan that ran to
its end is whole, so that the reflection can only object to what the signals say
or to how little is explained, and the projector reports what it accepted.
`CausesAreSound`: a selection that a stored signal confirms is never given up
for one that none confirms, and the causes of a report are distinct.
`JudgementsAreEarned`: the reward follows the diagnosis alone, the measures of the
scorer (recall, precision, coverage, traceability) agree with it, and an accepted
evaluation has earned it: in every scenario family, without traps, and with
memory that did no harm.

**EvalPool.** `OneRunAtATime`: a case is sent again only after a run that is known
to be over. `ServerIsNotOverrun`: one start has at most as many runs on the server as
it has threads, those whose requests timed out and those of both passes included; so a
case must not be submitted in the place of one that failed, whose thread is free while
its run goes on. `SummaryHasItsRows`: each case that the stored summary counts has a
stored row, and none is counted before the memory pass is whole, with late requests
and a second start. The row may be that of an earlier start, whose request took effect
late. `ImplementsEvalInOrder`, `Ends`.

**PtvRound.** `StageIsABarrier`: the barrier is written only for two successes,
and a failure ends the stage although the other command may hang.
`ConfirmedCommitStands`: however rounds are run and finalized again, a round that
confirms an earlier one has evaluated its commit. `VerifiedIsAsJudged`: in a round that
verifies both summaries are of one set of files, those files are the ones that are
there, and it is these summaries that were judged. One case is excepted by name,
because the code allows it: an analyst that an interrupted `run-round` left behind
replaces the diagnosis between the steps of a later finalize (see below).

**Offline.** `DataIsOfOneSeed`, `SuccessRebuilds`: readers see the complete data of
one seed or none, and a seed that ends well has replaced everything and reports the
right row counts. `LabelsFitTheData`: the detector sees an anomaly exactly where a
label names a cause, and each cause of every label but those of C11 and C24 was
injected on that day, into that element and in the direction of its type. How strong
the causes of one label are, and so which of them dominates, is not compared.
`ManifestVouches`: a manifest whose hashes hold vouches for a whole and consistent set
of scenarios. `EvaluationIsTrue`: a score is that of a run this process made, no
result is thrown away, and a dataset is named only once it is there.
`ExamplesAreEarned`, `DatasetIsWhole`: positive examples did what the documentation
says of them, and a dataset is that of one export.

### Bounds

The plans are not made up: `MCCompiledRun` compiles them. Its intents cover all
eleven question families, unscoped, with one filter on each of the five
dimensions, with a dimension and element pair, and with the two filters of the
interaction families; the product-first strategy; the memory hints that change
a plan; the default budget (8 steps, 20 queries, depth 3) and three tight ones
that make each limit bite. They yield 40 different plans, each mode and each
branch of the compiler among them. The longest have 24 actions, so no bound on
the number of steps is needed: the executor walks through a finite plan and all
its counters are bounded by it. Two elements ("a", "b") are enough because code
only compares elements for equality. The one date and the one metric of a plan
are enough because the compiler copies both to each action; that they could
differ is only defended against by the gate.

`PlanCompilation` takes more intents, 11 families x 2 strategies x 13 scopes,
and questions that name a metric, values or a day in every way the code tells
apart; five hint lists: a preferred dimension that is not drilled, one that is, a
preferred signal that fits or does not, a weak hint, a hint of another metric.

`RunService` has one run whose id is used twice (`MaxCalls`) and at most two trace
rows per execution (`MaxTraced`): runs share nothing but memory, a second call
meets whatever a first one can leave behind, and two rows are enough to confuse
their numbers. Finding 3 needs two runs, one call each. `SystemWrite` has the ten
attempts of the repository. `MemoryStore` has two runs that write and one that
reads, three instants (`MaxTime`) and three seeds, one of each sort that is treated
differently.

`Verdict` has two elements in every dimension with equal baselines, moves of a few
sizes on each side of the thresholds, five metrics, and one question of ten
elements for the limits of the lists: 1865 questions. `Acceptance` adds 1644
evaluations: of 28 cases, as many as the thresholds of the regression suite need
to be missed by one case, and of two with and without memory.

`EvalPool` has three cases and two threads, so that a case waits, one ends before its
turn, and the pool is refilled; two attempts and two processes, so that a retry and a
second start happen. `EvalRunner` has two of each. `PtvRound` has two rounds, two
stages and two starts of an analyst in all (`MaxStages`, `MaxDiagnoses`): confirmation
looks back one green round, and a second run of a command meets what the first left. A
process that is left behind writes once, and what one command left has ended when
another leaves something; one is enough to write between any two steps of a later
command. `SeedDatabase` has two seeders, three days with batches of two rows, and the
two tables that the program writes to while seeders run; `MaxTries` and `BatchSize`
stand for 30 and 5 000. `SeedTruth` takes every day, dimension and label of the
profiles smoke and regression. `ScenarioSeed` compiles 24 sets of scenarios twice into
one directory, `GrpoExport` exports 1 112 cycles twice.

### Fairness

`FairSpec` of the executor adds weak fairness of the whole next-state relation: it
is a loop on one thread that waits for nothing but its database calls, and each
of these returns or raises. No particular outcome of a call is assumed: runs in
which every call fails are included. Deadlock checking is off where the system
ends; that it only stops when it is done is `Terminates`.

`RunService` assumes weak fairness of the steps of each run, for the same reason,
but neither that a call is made nor that a process dies or lives. `SystemWrite`
assumes it of its loop; a commit on its way need not land. `EvalPool` assumes it of
the main thread and of each worker thread, whose requests are answered or time
out; nothing is assumed of the server, whose runs may hang. `PtvRound` assumes
that the controller goes on and that a killed process ends; a command may run for
ever. The other specifications state safety only.

## Findings

1. *Memory changes evidence* (`MemoryOnlyReorders`). The contract says that memory
   hits may only influence drilldown priority. `_policy_with_memory_hints`
   (`runtime/plan_compiler.py:753`) builds a new policy and forgets the declared
   lanes: with a hint an unscoped gmv_drop gathers three lanes of evidence
   instead of six, and an unscoped net_gmv_drop compiles, which is an error
   without the hint. What does hold is `MemoryKeepsTheQuestion`.
2. *An untyped failure* (`FailuresAreTyped`). A gmv question that names a channel
   as its scope and narrows it by a category filter passes the specification's
   checks, but its campaign signal is rendered from `fact_campaign`, which has no
   category: a `KeyError` (`guardrails/renderer.py:186`) leaves tool, executor and
   run service.
3. *Memory of failures* (`MemoryOfFailures`). The case of a run is written to
   memory before its task and its final status (`runtime/run_service.py:129`). If
   one of these fails, or the process dies, other runs read a prior from a run
   that never succeeded, which `docs/reference/decisions.md` (lines 1072 to 1084)
   rules out, and for this very reason.

### Observed, without a run

These were met while the models were written. The code is modelled as it is, and
the properties above are stated so that they hold of it.

* *A failure with a report.* If the write that finishes a successful run is
  reported as failed but took effect, the call is answered as failed and the
  stored row says succeeded; `create_run` (`api/routes.py:71`) then sends the
  status of the one with the report of the other (`docs/reference/decisions.md:2097`).
* *Memory reads.* An unscoped question reads records of any scope
  (`runtime/memory_service.py:223`), and a scoped one also those without filters,
  where the documentation lets it read only hits of its own scope (decisions.md:990
  and 1005). A record written between the start of a run and its read is a prior of
  the run, but not on its page (`repositories/metric_repository.py:1083`), which
  should show what the run could use (decisions.md:1257).
* *Memory judged.* The scorer compares the filters of a hit with the scope of the
  run (`evals/scorer.py:513`), but the trace that it reads them from does not have
  them (`_memory_hit_audit`, `runtime/memory_service.py:265`): each hit of a run, other
  than a semantic one, counts as pollution if its question is scoped, and none does
  if it is not.
* *Questions.* A pair of dimension and element that contradicts its own filter
  passes `_validate_explicit_dimension_filters` (`services/metric_service.py:284`), and
  the compiler plans by the filters alone.
* *Statements.* With four baseline days a `LIMIT` of 1000 holds 250 elements; the
  stress profile has 240 products. A larger catalog would be cut silently,
  smallest values first.
* *Ranking.* The interaction ranking may promote a candidate whose own signal was
  read for another element, and a promoted interaction pairs without its E3; the
  reflection then refuses the run. `_has_matching_signal_evidence` ignores the type
  of the signal, and the reflection whether it is anomalous. A share of a candidate
  may exceed 1. The first cause is judged differently by dataset and task reward.
* *Evaluation.* An interrupted evaluation stays "running" (`evals/runner.py:927`,
  decisions.md:1093 and 1120). The tag `phase_c` is not ignored
  (`evals/runner.py:820`), so that four families count as one, in which one failure of
  eight passes the gate. The gate on memory does not look at intent, safety of
  statements or traceability of the pass with memory.
* *Seed.* The comment at the transaction (`data/seed_data.py:157`) promises all or
  nothing; a failure after an `ALTER TABLE` leaves the warehouse empty (`SeedIsAtomic`
  in `SeedDatabase` states the promise). Case `C11_gmv_promo_end_falloff` is labelled
  a drop of campaign traffic, but only paying users are reduced, and
  `C24_gmv_positive_spike` one of `paid_ads` (`data/seed_data.py:1430`), whose traffic
  is raised by 2.5 (`data/anomaly_injection.py:48`); both are excepted in
  `LabelsFitTheData`. Under the larger profiles many labelled anomalies are none to
  the detector. MC02 and MC07 name different dominant causes for one metric on one
  day. Two compilations at once could let one manifest list the other's files.
* *Predict-Test-Verify.* Two green rounds in a row do not look at the checks of the
  earlier one (`docs/ptv/02-workflow.md`, section 8.5). A barrier survives a failed
  second run. Rounds are ordered by name, wrongly from round 100 on. Finalizing an
  earlier round again can leave three equal selections in a row or a stale
  confirmation. An untyped `OSError` or an interrupt in `_start` leaves commands
  running. The analyst of `run-round` (`evals/ptv_runner.py:209`) is started in a
  session of its own (`evals/ptv_controller.py:193`) and `run_checked_command` does
  not end it when the controller is interrupted. A finalize reads `diagnosis.jsonl`
  for the summaries (`evals/ptv_summary.py:69`), again for the checks
  (`evals/ptv_anti_cheat.py:365`), and a third time to hash it
  (`evals/ptv_artifacts.py:425`); an analyst that writes in between leaves a round
  that verifies with summaries of another diagnosis.
* *Export.* The decision of the first exported round has no earlier round to fall
  below and counts as a positive example with no measured effect
  (`docs/ptv/05-grpo-bridge.md`, section 3). Cases that are missing after a fix count
  neither as recovered nor as regressed. The runner's dataset files are not atomic:
  an old manifest with equal counts passes. A secret-named key with a nested value
  raises a `TypeError` that nothing catches.

## Proofs

`PlanExecutorProofs` proves, for every set `Plans` that satisfies
`PlansAssumption` (actions form a sequence, budgets are natural numbers):

* `TypeCorrect`: `Spec => []TypeOK`
* `LedgerCorrect`: `Spec => []LedgerIsAudit`
* `BudgetsCorrect`: `Spec => []BudgetHonoured`

None of the three is inductive. That an action stays within the budget is known
when the gate lets it pass and used when it is charged, many steps later, so the
invariant `Inv` adds `InFlight`: while an action is under way the verdict of the
gate still holds of the counters, `ctx.step` is `pos - 1`, and the statements
issued never exceed the cost of the action (`SqlCost`, at most six and none for
an action that is not a data action, lemma `Costs`). The argument then is:
`before` is below the budget when a data action begins, hence the audit is at
most five above it when it ends (`AuditBound`); the audited difference is what
`Charge` adds, so the counter equals the audit again (`Charged`). The 22 actions
fall into three groups: steps inside a tool (lemma `ToolStep`), steps that end
the run (lemma `EndStep`), and the few that move between actions.

With `ShapeAssumption` in addition (only the first action detects, and E_rank is what
a ranking writes, and nothing else):

* `SuccessesAreComplete`, `TracesAccountForEvidence`: `SuccessIsComplete` and
  `EvidenceIsTraced` always hold
* `RefinesPlanRun`: `Spec => PlanRun!Spec`, under the mapping of `PlanExecutor`

What a success needs is gathered turn by turn. `Progress` says that the evidence is
that of the actions before `pos`, in their order, with the row of the action under
way from the moment it is written, and graph and trace those of the actions before
`pos`; `Ranking` that the one row that is rewritten, E4, carries a ranking when E_rank
is there, and otherwise only if E_rank is about to be or an exception came between.

Two theorems are about plans as the compiler makes them, under assumptions on the
plans that are stated in `CompiledRun` and that TLC evaluates for the plans of the run:

* `LanesAreKeptApart`: `LanesAreIsolated` always holds, if the aliases of the lanes
  are apart (`LanesAssumption`). The gate hands a tool every row whose alias starts
  with a required one, so what a tool could be given is a question of all aliases
  written so far, which `Progress` and `Ranking` tell.
* `PlansNeverMisfire`: `CompiledPlansNeverMisfire` always holds. `RunnableAssumption`
  says that each action of a plan finds the rows it names among those that earlier
  actions write, in scope and renderable; it says nothing of a run. That this is enough
  takes `Soundness`: nothing has been published but rows of earlier actions, each with
  the dimension of its action (`Described`); a tool declares the statements that were
  audited, and fails with an error of the data (`Counted`); and a plan that
  merges lanes has used at most what its actions so far were estimated to need
  (`Affordable`), which, by `BudgetAssumption`, the budget allows. That the estimate
  of a part does not exceed that of the whole is by induction (`EstimatesGrow`).

`CompiledPlansFit` closes the circle from the compiler: for every set of intents
and memory hints and any natural budgets, a plan that `Compile` returns without an
error satisfies what `PlansAssumption`, `ShapeAssumption` and `BudgetAssumption` ask.
The branches of the compiler build their lists of actions by `FlattenSeq`, a recursive
definition, so that what holds of each part (`AreSteps`) is carried to the whole by an
induction over sequences; the budget of a plan that merges lanes is enlarged at the end
to what its actions are estimated to need. That compiled plans satisfy `LanesAssumption`
and `RunnableAssumption` is not proved, but evaluated by TLC for the plans of the run.

`WhatIsAskedIsPlanned` proves `NothingAskedIsIgnored` of `PlanCompilation`, for every
set of questions and answers (`NamedAssumption`: the values that a question names are
values of supported dimensions; `AnswersAssumption`: an answer is a record of its
fields). `AskingInv` says which answers an intent may come from and that the plan is
that of the intent, and the lemma `PlanIsAboutScope` that each value an intent names
is what some action of its plan is about, whichever policy it is compiled by.

`HintsNeverTouchTheQuestion` proves `MemoryKeepsTheQuestion` for every set of
questions, answers and lists of hints (`HintsAssumption`: hints and their dimensions
come in lists). A hint replaces the lanes that a policy declares by one for each
dimension, so what has to be shown is that the plan made of them is never refused
where that without the hint was accepted. `BroadPolicies` goes through the registry: a
policy drills one dimension, and then the hint makes the same policy of it, or two or
three, each of which has a signal. `FitsAfter` is what makes a plan valid piece by
piece: each action requires only what was produced before it and produces something
new; the anomaly check, the drilldowns, each lane (`OpenLaneFits`) and the merge with
the rank fit one after the other (`FittingJoined`), because no two dimensions share an
alias (`AliasesApart`). The drilldowns keep their places since nothing else drills
(`BroadDrills`).

`SystemWriteProofs` proves, for every positive `MaxAttempts`, `TypeCorrect`,
`AcknowledgementsAreTrue`, `FailuresAreExact`, and `RefinesStoredOnce`, the step
simulation of `StoredOnce`. `Inv` is inductive because it says what the retries
rely on: a commit is only on its way to a row on which it can still be made (so an
insert on its way has not met a row), and without doubt no attempt starts, and the
loop does not give up, after an attempt that had an effect.

`EvalPoolProofs` proves, for any number of cases, threads, attempts and processes,
`TypeCorrect`, `CasesRunOnce`, `ServersAreNotOverrun`, `SummariesHaveRows`, and
`EvalIsInOrder`, the refinement of `EvalInOrder`. `IInv` adds to the types where a
future may be at each place of the main thread (`PoolInv`), that a run is live only
where a thread awaits it or has given it up (`LiveInv`), that what was told is a
prefix of the cases, and the memory pass whole before the baseline (`ToldInv`),
that every summary, those of late requests included, is backed by rows (`RowsInv`), and
that never more futures are outstanding than there are threads, and fewer where a case
may be submitted (`SlotsInv`). Each run on the server is of such a future, and the
runs of the memory pass are over before the other pass begins, so that `SlotsInv`
bounds what the server has.

`RunServiceProofs` proves, for every set of run ids, any number of calls and traces
of any length, `SuccessesAreDurable`, `TracesAreNumbered`, `LessonsAreSound`,
`EndedRunsAreFinal` and `RefinesRunLifecycle`. `IInv` says for each run that a call
under way has an open row and no answer (`RowInv`), that the next number is that of
the next trace row until the execution has ended (`TraceInv`), what may be
remembered at which statement (`LessonInv`), and what a success has collected on
its way (`SuccessInv`). Runs are independent (`OthersKeep`), so that each action is
considered for its own run only. For the pages, `SuccessesAreDurable` adds that a row
that says success has its report beside it even if nobody was told so (`StoredInv`),
and that what a page has read of such a run is still there (`PageInv`), because
what has ended does not change (`EndedStays`). It is stated of `ServedSpec`, with
pages; the others are stated of `Spec`, the calls alone, which `ServedSpec`
implements (`ServedRuns`).

`PtvRoundProofs` proves, for every set of numbered rounds (`RoundsAssumption`),
`BarriersMeanBoth` (the first half of `StageIsABarrier`), `VerifiedRoundsAreAsJudged`
and `ConfirmationsStand`. A verification looks at files that were written by several
commands, each of which may be repeated, so the invariants say of each file what it
still has in common with those it was computed from, but for a diagnosis that was
replaced meanwhile (`AsJudged`, with `late` and `overtaken`), what a command holds that it
has not written yet, and that the commits of both rounds of a confirmation are not
written again (`Confirmations`).

`MemoryStoreProofs` proves, for every set of runs, any questions and seeds
(`QuestionAssumption`, `SeedsAssumption`) and any length of time, `PriorsAreInOrder`
and `ViewsAreOfTheirTime`. That no read puts a record behind one that its writer had
seen follows from versions, although these collide: `Sound` says that a record has a
higher version than every record of its layer it has seen (`Newer`), and that a draft
has too, between the read of the version and the insert, whatever is inserted in
between; and that the hits of a run are in order of version within each layer, of
layers that it has read. Maintenance, which moves rows to another layer, breaks none
of this because nobody has seen these. `AllSuit` and `AllTraced` carry what was true
when a prior was judged to the moment when it matters.

`OfflineProofs` proves, of `EvalRunner` for any number of cases, threads, attempts
and starts (`CasesAssumption`, `AttemptsAssumption`), `RunnerTypeCorrect` and
`EvaluationsAreTrue`, and of `GrpoExport`, for any set of cycles, `DatasetsAreWhole`.
`RunnerInv` says what each thread has found and tried (`ThreadOf`), which run a score
is of (`ScoreOf`), which cases have one when how many were told (`ToldInOrder`), and
what the main thread has done before it stores a summary (`Ending`). `ExportInv` says
that the files written so far are those of the export under way, and that a manifest
vouches for the files of one valid export (`IsAnExport`), whatever else is there.

Of `SeedDatabase` it proves, for any number of seeders and days, any batch size and
anything that the schema lacks (`SeedersAssumption`: the names of the other sources
of rows are no seeders; `DaysAssumption`), `SeedsAreWhole` and
`SeedsReplaceEverything`. First come facts about the transaction as a sequence
(`TransactionFacts`: 17 deletes, 21 looks at the schema, then loads;
`AllKeysAreLoaded`, `ListsAreFlushed`). `SeedInv` then says what a seeder has deleted
at each statement (`Place`: everything, or nothing since an `ALTER TABLE` committed
it), that rows and counts agree and no key is lost between a list and a batch
(`Collected`, `NoneLost`), that the tables of two transactions are disjoint
(`Apart`), that a transaction which was cut in two inserts only into tables without
seeded rows, because any other insert is a duplicate key (`Clean`), and that nothing
of what a seeder found when it began comes back once it is deleted (`Past`).

Of what is exported and compiled it proves, for every set of cycles
(`CyclesAssumption`) and of inputs (`InputsAssumption`), `ExamplesTeachTheTruth` and
`ManifestsVouch`. A record of a dataset was computed from a cycle that has gone on
since; the invariant follows each record back to the round, decision or fix it is of,
and its reward to the facts of that. `VouchInv` says that what lies under the names of
a manifest is of one compilation as long as its hashes hold, although a compilation
writes its files one at a time over those of the one before; that such a compilation
is consistent follows from what its gates have refused (`EveryInputIsCompiled`).

Induction is a fact about a set in these proofs (`InductionOverNat`: a set that has 0,
and n + 1 with each n, has all naturals), since a theorem with an operator for a
parameter cannot be applied to a formula. It serves for recursive functions and, by
way of lengths, for `FlattenSeq`.

Only model-checked:

* `Terminates`, `Returns`, `CallsReturn`, `Ends` and the second half of
  `StageIsABarrier`, which need fairness and ENABLED.
* `PlansCarryThrough` of compiled plans: its second half is about the rendered
  statements, the tables of the renderer and the guard row by row; and that compiled
  plans satisfy `LanesAssumption` and `RunnableAssumption`, which is a walk over every
  policy with every scope.
* `OnlySignalsOrCoverageRefute`, `CausesAreSound` and `JudgementsAreEarned`, which are
  about what folds over sequences of shares and scores amount to.
* `LabelsFitTheData`, which is about the figures of the seed: there are finitely many,
  and TLC goes through all of the profiles smoke and regression.

## Abstractions

* The numbers a tool computes are left out of the executor: a tool accepts what it
  read or rejects it (`DATA_REJECTED` stands for the codes of the individual tools), a
  detection says "anomaly" or "no_anomaly", a selection picks one element. `Verdict`
  has the numbers, in whole percents over equal baselines.
* `PLAN_INVALID` stands for the errors of the plan validator,
  `EVIDENCE_ALREADY_EXISTS` for those of the tools that refuse to overwrite.
* Not reachable in a run of the service and left out: `BUDGET_CONFIG_INVALID`,
  `SQL_AUDIT_UNAVAILABLE`, `RUN_NOT_FOUND` and `RUN_CONTEXT_MISMATCH` (the row of
  the run is created and set by the caller), the replay of a row that exists
  already (a run starts without rows and each alias is written once), the scope
  error of `_add_evidence`.
* A write of `SystemWrite` that updates has its row; the service updates no other.
* `QuestionParsing` has one error for a day that cannot be asked for.
* In `ScenarioSeed` the content of the baseline file is its catalog and seed; its
  days follow from the scenarios. Content that tells less apart lets more manifests
  pass, so `ManifestVouches` says more.
* Two calls with one run id at the same time are left out: the API draws a
  fresh id for every call, and callers of `run_rca` who name an id choose their own.
* In `RunService` a parse, a compilation, a reflection, or a projection is accepted
  or refused; a refused one leads where its code leads.
* Syntax and length limits of identifiers, errors of metric metadata,
  `element_selection`, factor graphs and wording are left out.
* The statistics of the detector are facts of a question in `Verdict`; `SeedTruth`
  computes them on the seeded data. Recall and precision are computed by
  `Scoring` for one run, and given facts of an evaluation in `Acceptance`.
* In a round of the cycle, a file is what the rules read of it; the anti-cheat
  report is one predicate, but for the rules that look at other rounds.

## Not modelled

* Agent factory and model adapters: glue to agent frameworks outside of the
  deterministic path. The language model is external; what a parse may return is
  the set of all answers.
* The text of prompts, SQL, reports and redaction; regular expressions.
* HTTP handlers that make a single read, the frontend.
* The larger seed profiles and the figures of campaigns, which only enlarge the
  same computation.
* `tmp/`, at the top of the repository, holds other projects and vendored tools,
  beside `metric_rca`.

## Plan

Done: question, compiler, guardrails, gate, executor and their composition; the run
service and its lifecycle; system writes; memory; contribution sets to scores and
their verdict; both evaluation runners and their acceptance; the
Predict-Test-Verify controller; seed, scenarios and export; proofs about the executor
with any plans and with compiled ones, the plans of the compiler, from question to
plan, the run service, system writes, memory, both evaluation runners, the
controller, the export, the scenarios and the seed of the database.

Next, in this order:

1. That the plans of the compiler satisfy `LanesAssumption` and `RunnableAssumption`,
   policy by policy.
2. `PlansCarryThrough`, whose first half is a fact about the same pieces of a plan as
   `FitsAfter`.
3. The properties of `Verdict`, from lemmas about sums over shares.
