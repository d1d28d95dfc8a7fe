----------------------------- MODULE RunService -----------------------------
(***************************************************************************)
(* The life of a run (metric_rca/runtime/run_service.py) with its trace    *)
(* writer, its memory and its report projection, one step per call that    *)
(* may fail on its own:                                                    *)
(*   parse      the question becomes an intent                             *)
(*   context    the metric is written to the row of the run                *)
(*   priors     memory is read, and the read is traced                     *)
(*   compile    the intent becomes a plan                                  *)
(*   execute    the plan is executed, see PlanExecutor                     *)
(*   reflect    the evidence is verified                                   *)
(*   project    the report is built from the stored rows                   *)
(*   remember   a verified case is written to memory                       *)
(*   task       an operation task is created                               *)
(*   finish     the row of the run is finished as a success                *)
(*   lesson     a failure is written to memory                             *)
(*   fail       the row of the run is finished as a failure                *)
(* A call is "answered" or its process is "down"; it may be made again     *)
(* with the same run id, which run takes as an argument.                   *)
(***************************************************************************)
EXTENDS Integers, Sequences

CONSTANTS
  Runs,        \* the run ids
  MaxCalls,    \* bound: how often a run id is used
  MaxTraced    \* bound: how many trace rows an execution writes

ASSUME BoundsAssumption == MaxCalls \in Nat /\ MaxTraced \in Nat

VARIABLES
  pc,        \* where the latest call of a run is, "idle" before the first
  calls,     \* how many calls were made
  mode,      \* memory settings of the call: "off", "read" or "write"
  status,    \* what the call is about to finish the run as
  code,      \* the error code it is about to fail with
  answer,    \* what the call returned: [status, error]
  seq,       \* _next_seq_by_run of the trace writer
  priors,    \* the runs whose verified cases were read
  row,       \* table agent_run: NoRow or [status, error, context]
  found,     \* table evidence, by what can be concluded from it
  task,      \* table operation_task: is there a row of the run
  traced,    \* table trace_step: the numbers of the rows, as written
  memory,    \* table memory_record: [run, layer] of the runs' records
  page       \* what a request has read of a run so far: NoPage, or
             \* [run, at, said, status, found, task]

local   == <<calls, mode, status, code, seq, priors>>
tables  == <<row, found, task, traced, memory>>
vars    == <<pc, local, answer, tables>>

NoCode  == "none"
NoRow   == [status |-> "absent", error |-> NoCode, context |-> FALSE]
Fresh   == [status |-> "running", error |-> NoCode, context |-> FALSE]
Unanswered == [status |-> "none", error |-> NoCode]
NoPage  == [at |-> "closed"]

Successes == {"succeeded", "no_anomaly"}
Resting   == {"idle", "answered", "down"}

(* How a write ends: it is done, or reported as failed, and then it may    *)
(* have been done all the same (SystemWrite).                              *)
Writes   == {"done", "lost", "undone"}
Took(w)  == w # "undone"

(* What the evidence rows of a run amount to: nothing; one E1 that says    *)
(* "no anomaly"; some rows; all rows of the plan, with a selected          *)
(* candidate that can be reported ("complete") or cannot ("hollow").       *)
Findings == {"nothing", "normal", "some", "hollow", "complete"}

Init ==
  /\ pc     = [r \in Runs |-> "idle"]
  /\ calls  = [r \in Runs |-> 0]
  /\ mode   = [r \in Runs |-> "off"]
  /\ status = [r \in Runs |-> "running"]
  /\ code   = [r \in Runs |-> NoCode]
  /\ answer = [r \in Runs |-> Unanswered]
  /\ seq    = [r \in Runs |-> 1]
  /\ priors = [r \in Runs |-> {}]
  /\ row    = [r \in Runs |-> NoRow]
  /\ found  = [r \in Runs |-> "nothing"]
  /\ task   = [r \in Runs |-> FALSE]
  /\ traced = [r \in Runs |-> <<>>]
  /\ memory = {}
  /\ page   = NoPage

-------------------------------------------------------------------------------
(* How a call goes on and how it ends.                                     *)

GoTo(r, p) == /\ pc' = [pc EXCEPT ![r] = p]
              /\ UNCHANGED answer

Answer(r, s, e) == /\ pc' = [pc EXCEPT ![r] = "answered"]
                   /\ answer' = [answer EXCEPT ![r] = [status |-> s, error |-> e]]

(* An exception that run does not catch.                                   *)
Raise(r, e) == Answer(r, "raised", e)

(* The call is going to fail with this code.                               *)
FailWith(r, p, e) == /\ GoTo(r, p)
                     /\ code' = [code EXCEPT ![r] = e]

(* build_report_from_persisted_artifacts finds a report in the rows of a   *)
(* run, taken as a run of this status.                                     *)
Reportable(s, f, t) ==
  \/ s = "no_anomaly" /\ f = "normal" /\ ~t
  \/ s = "succeeded" /\ f = "complete"

-------------------------------------------------------------------------------
(* A call of run.                                                          *)

StartsFromUpsert(old) == TRUE

(* TraceWriter.start_run inserts the row of the run.  An insert that meets *)
(* a row takes it for its own exactly if it equals the row it would write. *)
StartsFrom(old) == old = Fresh

Start(r) ==
  /\ pc[r] \in Resting
  /\ calls[r] < MaxCalls
  /\ calls'  = [calls EXCEPT ![r] = calls[r] + 1]
  /\ \E m \in {"off", "read", "write"} : mode' = [mode EXCEPT ![r] = m]
  /\ status' = [status EXCEPT ![r] = "running"]
  /\ code'   = [code EXCEPT ![r] = NoCode]
  /\ priors' = [priors EXCEPT ![r] = {}]
  /\ \/ /\ row[r] = NoRow \/ StartsFrom(row[r])
        /\ row' = [row EXCEPT ![r] = Fresh]
        /\ seq' = [seq EXCEPT ![r] = 1]
        /\ pc'  = [pc EXCEPT ![r] = "parse"]
        /\ answer' = [answer EXCEPT ![r] = Unanswered]
     \/ /\ row' \in {row, [row EXCEPT ![r] = IF row[r] = NoRow THEN Fresh ELSE row[r]]}
        /\ Answer(r, "failed", "SYSTEM_TABLE_WRITE_FAILED")
        /\ UNCHANGED seq
  /\ UNCHANGED <<found, task, traced, memory>>

(* parse_question: typed errors are caught, others are not.                *)
Parse(r) ==
  /\ pc[r] = "parse"
  /\ \/ GoTo(r, "context") /\ UNCHANGED code
     \/ FailWith(r, "fail", "PARSE_FAILED")
     \/ Raise(r, "UNTYPED") /\ UNCHANGED code
  /\ UNCHANGED <<calls, mode, status, seq, priors, tables>>

WithContext(old) == [status |-> old.status, error |-> old.error, context |-> TRUE]

(* TraceWriter.set_run_context; its TraceWriteError is not caught.         *)
SetContext(r) ==
  /\ pc[r] = "context"
  /\ \E w \in Writes :
       /\ row' = [row EXCEPT ![r] = IF Took(w) THEN WithContext(@) ELSE @]
       /\ IF w = "done" THEN GoTo(r, "priors")
          ELSE Raise(r, "SYSTEM_TABLE_WRITE_FAILED")
  /\ UNCHANGED <<local, found, task, traced, memory>>

(* Slip: the next number is that of the row just written.                  *)
WriteStepSlip(r, w) ==
  /\ traced' = [traced EXCEPT ![r] = IF Took(w) THEN Append(@, seq[r]) ELSE @]
  /\ UNCHANGED seq

(* One row of TraceWriter.write_step, whose number is only used up when    *)
(* the write is known to be done.                                          *)
WriteStep(r, w) ==
  /\ traced' = [traced EXCEPT ![r] = IF Took(w) THEN Append(@, seq[r]) ELSE @]
  /\ seq' = [seq EXCEPT ![r] = IF w = "done" THEN @ + 1 ELSE @]

(* _read_memory_priors: verified cases of other runs become priors, while  *)
(* failures are sorted out by intent.  The read, or that it failed, is     *)
(* traced, and a TraceWriteError is not caught.                            *)
VerifiedCases == {m.run : m \in {n \in memory : n.layer = "episodic"}}

ReadPriors(r) ==
  /\ pc[r] = "priors"
  /\ \/ /\ mode[r] = "off"
        /\ GoTo(r, "compile")
        /\ UNCHANGED <<code, priors, seq, traced>>
     \/ /\ mode[r] # "off"
        /\ \E w \in Writes, readable \in BOOLEAN :
             /\ WriteStep(r, w)
             /\ \/ /\ w # "done"
                   /\ Raise(r, "SYSTEM_TABLE_WRITE_FAILED")
                   /\ UNCHANGED <<code, priors>>
                \/ /\ w = "done" /\ readable
                   /\ priors' = [priors EXCEPT ![r] = VerifiedCases]
                   /\ GoTo(r, "compile")
                   /\ UNCHANGED code
                \/ /\ w = "done" /\ ~readable
                   /\ FailWith(r, "fail", "MEMORY_READ_FAILED")
                   /\ UNCHANGED priors
  /\ UNCHANGED <<calls, mode, status, row, found, task, memory>>

(* RcaPlanCompiler.compile, see PlanCompiler.                              *)
CompilePlan(r) ==
  /\ pc[r] = "compile"
  /\ \/ GoTo(r, "execute") /\ UNCHANGED code
     \/ FailWith(r, "fail", "PLAN_NOT_COMPILED")
  /\ UNCHANGED <<calls, mode, status, seq, priors, tables>>

(* RcaPlanExecutor.execute, by what PlanExecutor guarantees: a success     *)
(* leaves all rows, "no anomaly" the E1 row, anything else any rows; every *)
(* row traced takes the next number, the last trace row may be lost.       *)
ExecutionTrace(r, n, w) ==
  /\ traced' = [traced EXCEPT ![r] =
       @ \o [i \in 1..(n + IF w = "lost" THEN 1 ELSE 0) |-> seq[r] + i - 1]]
  /\ seq' = [seq EXCEPT ![r] = @ + n]

Execute(r) ==
  /\ pc[r] = "execute"
  /\ \E n \in 0..MaxTraced, f \in Findings :
       /\ found' = [found EXCEPT ![r] = f]
       /\ \/ /\ f \in {"hollow", "complete"} /\ n > 0
             /\ ExecutionTrace(r, n, "done")
             /\ status' = [status EXCEPT ![r] = "succeeded"]
             /\ GoTo(r, "reflect") /\ UNCHANGED code
          \/ /\ f = "normal" /\ n > 0
             /\ ExecutionTrace(r, n, "done")
             /\ status' = [status EXCEPT ![r] = "no_anomaly"]
             /\ GoTo(r, "reflect") /\ UNCHANGED code
          \/ /\ \E w \in Writes : ExecutionTrace(r, n, w)
             /\ FailWith(r, "lesson", "PLAN_EXECUTION_FAILED")
             /\ UNCHANGED status
          \/ /\ ExecutionTrace(r, n, "done")
             /\ Raise(r, "UNTYPED")
             /\ UNCHANGED <<status, code>>
  /\ UNCHANGED <<calls, mode, priors, row, task, memory>>

(* Slip: the report is not projected before the case is remembered.        *)
ReflectSlip(r) ==
  /\ pc[r] = "reflect"
  /\ \/ GoTo(r, "remember") /\ UNCHANGED code
     \/ status[r] = "succeeded" /\ FailWith(r, "lesson", "REFLECTION_REPAIR_FAILED")
     \/ Raise(r, "SYSTEM_TABLE_READ_FAILED") /\ UNCHANGED code
  /\ UNCHANGED <<calls, mode, status, seq, priors, tables>>

(* The verdict of the reflection only counts for a success; reads may      *)
(* raise and are not caught.                                               *)
Reflect(r) ==
  /\ pc[r] = "reflect"
  /\ \/ GoTo(r, "project") /\ UNCHANGED code
     \/ status[r] = "succeeded" /\ FailWith(r, "lesson", "REFLECTION_REPAIR_FAILED")
     \/ Raise(r, "SYSTEM_TABLE_READ_FAILED") /\ UNCHANGED code
  /\ UNCHANGED <<calls, mode, status, seq, priors, tables>>

(* _project_report, on the rows, with the status the run is to have.       *)
Project(r) ==
  /\ pc[r] = "project"
  /\ \/ /\ Reportable(status[r], found[r], task[r])
        /\ GoTo(r, "remember") /\ UNCHANGED code
     \/ /\ ~Reportable(status[r], found[r], task[r])
        /\ FailWith(r, "lesson", "REPORT_PROJECTION_FAILED")
     \/ Raise(r, "SYSTEM_TABLE_READ_FAILED") /\ UNCHANGED code
  /\ UNCHANGED <<calls, mode, status, seq, priors, tables>>

-------------------------------------------------------------------------------
(* How a call finishes.                                                    *)

(* write_verified_case and write_reflection_failure: nothing is written    *)
(* unless memory is to be written.                                         *)
MemoryWrite(r, layer, w) ==
  IF mode[r] = "write" /\ Took(w)
  THEN memory' = memory \cup {[run |-> r, layer |-> layer]}
  ELSE UNCHANGED memory

Remember(r) ==
  /\ pc[r] = "remember"
  /\ \E w \in Writes :
       /\ MemoryWrite(r, "episodic", w)
       /\ \/ /\ w = "done" \/ mode[r] # "write"
             /\ GoTo(r, "task") /\ UNCHANGED code
          \/ /\ w # "done" /\ mode[r] = "write"
             /\ FailWith(r, "fail", "MEMORY_WRITE_FAILED")
  /\ UNCHANGED <<calls, mode, status, seq, priors, row, found, task, traced>>

CreateTaskAgain(r) ==
  /\ pc[r] = "task"
  /\ \/ /\ status[r] = "no_anomaly"
        /\ GoTo(r, "finish") /\ UNCHANGED task
     \/ /\ status[r] = "succeeded"
        /\ \E w \in Writes :
             /\ task' = [task EXCEPT ![r] = IF Took(w) THEN TRUE ELSE @]
             /\ GoTo(r, IF w = "done" THEN "finish" ELSE "remember")
  /\ UNCHANGED <<local, row, found, traced, memory>>

(* _create_required_tasks: there is nothing to do without an anomaly.      *)
CreateTask(r) ==
  /\ pc[r] = "task"
  /\ \/ /\ status[r] = "no_anomaly"
        /\ GoTo(r, "finish") /\ UNCHANGED task
     \/ /\ status[r] = "succeeded"
        /\ \E w \in Writes :
             /\ task' = [task EXCEPT ![r] = IF Took(w) THEN TRUE ELSE @]
             /\ IF w = "done" THEN GoTo(r, "finish")
                ELSE Answer(r, "failed", "RUN_FINALIZATION_FAILED")
  /\ UNCHANGED <<local, row, found, traced, memory>>

(* TraceWriter.finish_run.                                                 *)
FinishRow(r, s, e, w) ==
  row' = [row EXCEPT ![r] =
            IF Took(w) THEN [status |-> s, error |-> e, context |-> @.context] ELSE @]

(* Slips: the success is answered whether or not the row was finished; a   *)
(* success that could not be finished is finished as a failure.            *)
FinishSlip(r) ==
  /\ pc[r] = "finish"
  /\ \E w \in Writes : FinishRow(r, status[r], NoCode, w)
  /\ Answer(r, status[r], NoCode)
  /\ UNCHANGED <<local, found, task, traced, memory>>

(* _finish_run of a success: the trace is read and the row is finished; if *)
(* either fails, the call fails, and nothing more is written.              *)
Finish(r) ==
  /\ pc[r] = "finish"
  /\ \E w \in Writes :
       /\ FinishRow(r, status[r], NoCode, w)
       /\ IF w = "done" THEN Answer(r, status[r], NoCode)
          ELSE Answer(r, "failed", "RUN_FINALIZATION_FAILED")
  /\ UNCHANGED <<local, found, task, traced, memory>>

(* _write_failure_memory; when that fails, its error is the error.         *)
RememberFailure(r) ==
  /\ pc[r] = "lesson"
  /\ \E w \in Writes :
       /\ MemoryWrite(r, "reflection", w)
       /\ FailWith(r, "fail", IF w = "done" \/ mode[r] # "write" THEN code[r]
                              ELSE "MEMORY_WRITE_FAILED")
  /\ UNCHANGED <<calls, mode, status, seq, priors, row, found, task, traced>>

(* _fail: the answer is the same whether or not the row could be finished. *)
Fail(r) ==
  /\ pc[r] = "fail"
  /\ \E w \in Writes : FinishRow(r, "failed", code[r], w)
  /\ Answer(r, "failed", code[r])
  /\ UNCHANGED <<local, found, task, traced, memory>>

(* The process of a call dies.                                             *)
Crash(r) ==
  /\ pc[r] \notin Resting
  /\ GoTo(r, "down")
  /\ UNCHANGED <<local, tables>>

Step(r) ==
  \/ Parse(r) \/ SetContext(r) \/ ReadPriors(r) \/ CompilePlan(r) \/ Execute(r)
  \/ Reflect(r) \/ Project(r) \/ Remember(r) \/ CreateTask(r) \/ Finish(r)
  \/ RememberFailure(r) \/ Fail(r)

Next == \E r \in Runs : Start(r) \/ Step(r) \/ Crash(r)

Spec == Init /\ [][Next]_vars

-------------------------------------------------------------------------------
(* The page of a run (metric_rca/api/routes.py), which reads the row, the  *)
(* evidence and the tasks one after the other, while the run goes on.      *)

(* get_run says what the row says; create_run says what the call answered, *)
(* unless it raised, and reads the same rows.                              *)
OpenPage(r) ==
  /\ page = NoPage /\ row[r] # NoRow
  /\ \E said \in {row[r].status} \cup
                  {a \in {answer[r].status} : pc[r] = "answered" /\ a # "raised"} :
       page' = [run |-> r, at |-> "evidence", said |-> said, status |-> row[r].status,
                found |-> "nothing", task |-> FALSE]

ReadEvidences ==
  /\ page.at = "evidence"
  /\ page' = [page EXCEPT !.at = "tasks", !.found = found[page.run]]

(* Slip: the row is read when the page is put together.                    *)
ReadTasksSlip ==
  /\ page.at = "tasks"
  /\ page' = [page EXCEPT !.at = "shown", !.task = task[page.run],
                          !.said = row[page.run].status, !.status = row[page.run].status]

ReadTasks ==
  /\ page.at = "tasks"
  /\ page' = [page EXCEPT !.at = "shown", !.task = task[page.run]]

(* The page is sent, or a read raises and an error is sent.                *)
ClosePage == page # NoPage /\ page' = NoPage

ReadPage == (\E r \in Runs : OpenPage(r)) \/ ReadEvidences \/ ReadTasks \/ ClosePage

Serve == (Next /\ UNCHANGED page) \/ (ReadPage /\ UNCHANGED vars)

ServedSpec == Init /\ [][Serve]_<<vars, page>>

(* A call is straight-line code on a thread of its own, and each of its    *)
(* database calls returns or times out.  No call need be made.             *)
FairSpec == ServedSpec /\ \A r \in Runs : WF_vars(Step(r))

-------------------------------------------------------------------------------
(* Properties.                                                             *)

(* A success that was answered is durable: the row says the same, a report *)
(* can be built from the rows alone, an anomaly has its task, and memory   *)
(* has the case if it was to be written.                                   *)
AnswersAreDurable ==
  \A r \in Runs : answer[r].status \in Successes =>
    /\ row[r] = [status |-> answer[r].status, error |-> NoCode, context |-> TRUE]
    /\ Reportable(row[r].status, found[r], task[r])
    /\ answer[r].status = "succeeded" => task[r]
    /\ mode[r] = "write" => [run |-> r, layer |-> "episodic"] \in memory

(* A page that says "success" shows the report, and the task of an         *)
(* anomaly, although the run may have ended between two of its reads: the  *)
(* row, which is finished last, is read first.  So get_run never sends     *)
(* REPORT_ARTIFACT_MISSING.                                                *)
PagesAreWhole ==
  page.at = "shown" /\ page.said \in Successes =>
    /\ page.status = page.said
    /\ Reportable(page.status, page.found, page.task)
    /\ page.said = "succeeded" => page.task

(* Whoever is told of a success, by an answer or by a page, finds it.      *)
SuccessIsDurable == AnswersAreDurable /\ PagesAreWhole

(* The trace rows of a run are numbered 1, 2, ... in the order in which    *)
(* they were written, although a write reported as failed may be there.    *)
TraceIsNumbered ==
  \A r \in Runs : \A i \in DOMAIN traced[r] : traced[r][i] = i

(* A run leaves at most one lesson: a verified case only if its rows carry *)
(* a report, a failure only if it did not end as a success.                *)
LessonsAreEarned ==
  \A m \in memory :
    IF m.layer = "episodic"
    THEN /\ found[m.run] \in {"normal", "complete"}
         /\ [m EXCEPT !.layer = "reflection"] \notin memory
    ELSE row[m.run].status \notin Successes

(* The row of a run that has ended never changes again, and neither does   *)
(* what its report is made of, however often its run id is used.           *)
Ended(r) == row[r].status \in Successes \cup {"failed"}

EndedRunsStay ==
  [][\A r \in Runs : Ended(r) => UNCHANGED <<row[r], found[r], task[r], traced[r]>>]_vars

(* Every call returns unless its process dies.                             *)
CallsReturn == \A r \in Runs : (pc[r] \notin Resting) ~> (pc[r] \in Resting)

(* The service keeps the promises of RunLifecycle.                         *)
Lifecycle == INSTANCE RunLifecycle WITH
  status <- [r \in Runs |-> row[r].status],
  answer <- [r \in Runs |-> answer[r].status]

ImplementsRunLifecycle == Lifecycle!Spec

(* docs/reference/decisions.md:1078: episodic memory "can only come from   *)
(* runs that have durably succeeded".                                      *)
LessonsComeFromSuccesses ==
  \A r \in Runs : \A q \in priors[r] : row[q].status \in Successes

===============================================================================
