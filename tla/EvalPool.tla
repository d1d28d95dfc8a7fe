------------------------------- MODULE EvalPool -------------------------------
(***************************************************************************)
(* An evaluation over HTTP (metric_rca/evals/client.py): every case is run *)
(* twice, with memory and as a baseline, by a bounded pool of threads; the *)
(* main thread takes the scores as they come, and publishes them in the    *)
(* order of the cases.  Requests fail, time out while the server goes on,  *)
(* and take effect late; a process dies; and an evaluation is started      *)
(* again under its id.                                                     *)
(* The pool of the direct runner (_run_cases of evals/runner.py) is the    *)
(* same but for its calls, see EvalRunner.                                 *)
(***************************************************************************)
EXTENDS Integers, Sequences, FiniteSets

CONSTANTS
  N,             \* number of cases
  Concurrency,   \* threads of the pool; 1 is the loop without a pool
  MaxAttempts,   \* max_attempts
  MaxProcesses   \* bound: how often the evaluation is started

ASSUME NAssumption           == N \in Nat \ {0}
ASSUME ConcurrencyAssumption == Concurrency \in Nat \ {0}
ASSUME AttemptsAssumption    == MaxAttempts \in Nat \ {0}
ASSUME ProcessesAssumption   == MaxProcesses \in Nat

Cases  == 1..N
Passes == {"memory", "case"}

VARIABLES
  process,    \* how many processes have been started
  main,       \* where the main thread is
  pass,       \* the pass it is in
  next,       \* next_index
  results,    \* the cases with a result in this pass
  told,       \* memory_scores_progress and scores_progress
  task,       \* of each case: its future and the thread that runs it
  attempt,    \* the attempts made of it in this pass
  live,       \* the runs on the server, begun by this process and not over
  summary,    \* the row of the evaluation
  rows,       \* table eval_case_result: the process whose score it holds
  late        \* requests given up by the client that the server still has

pool   == <<next, results, task, attempt, live>>
stored == <<summary, rows, late>>
vars   == <<process, main, pass, told, pool, stored>>

Futures   == {"none", "queued", "posting", "sleeping", "reading", "done", "raised",
               "taken", "cancelled"}
Summaries == [process : 0..MaxProcesses, memory : 0..N, cases : 0..N, complete : BOOLEAN]
Requests  == [kind : {"row"}, write : Cases \X (0..MaxProcesses)]
               \cup [kind : {"summary"}, write : Summaries]

NoSummary == [process |-> 0, memory |-> 0, cases |-> 0, complete |-> FALSE]
NoneTold  == [p \in Passes |-> <<>>]
NoTasks   == [c \in Cases |-> "none"]
Zero      == [c \in Cases |-> 0]

(* A future that has not been taken yet.                                   *)
Outstanding(c) == task[c] \in {"queued", "posting", "sleeping", "reading", "done", "raised"}

Told(p) == Len(told[p])

(* A future whose thread has begun and not ended.                          *)
Busy(c) == task[c] \in {"posting", "sleeping", "reading"}

Init ==
  /\ process = 0 /\ main = "off" /\ pass = "memory"
  /\ next = 1 /\ results = {} /\ told = NoneTold
  /\ task = NoTasks /\ attempt = Zero
  /\ live = [p \in Passes |-> Zero]
  /\ summary = NoSummary
  /\ rows = Zero
  /\ late = {}

-------------------------------------------------------------------------------
(* The main thread.                                                        *)

(* A process ends when its main thread and its threads have ended; its     *)
(* runs on the server are nobody's then.                                   *)
Exited == main \in {"off", "complete", "failed", "dead"} /\ \A c \in Cases :
            task[c] # "queued" /\ ~Busy(c)

Start ==
  /\ Exited /\ process < MaxProcesses
  /\ process' = process + 1
  /\ main' = "begin" /\ pass' = "memory"
  /\ next' = 1 /\ results' = {} /\ told' = NoneTold
  /\ task' = NoTasks /\ attempt' = Zero
  /\ live' = [p \in Passes |-> Zero]
  /\ UNCHANGED stored

(* The futures that no thread has begun are cancelled.                     *)
Cancelled(t) == [c \in Cases |-> IF t[c] = "queued" THEN "cancelled" ELSE t[c]]

(* Whatever is raised ends the main thread; its threads go on.             *)
Abort == main' = "failed" /\ task' = Cancelled(task)

(* Slip: the cases that have ended are counted.                            *)
SummaryOfSlip(complete) ==
  [process |-> process, memory |-> Told("memory"),
   cases |-> IF pass = "case" THEN Cardinality(results) ELSE 0, complete |-> complete]

(* The summary as _build_http_eval_output makes it.                        *)
SummaryOf(complete) == [process |-> process, memory |-> Told("memory"),
                        cases |-> Told("case"), complete |-> complete]

(* _publish_http_eval_state: the file, then the request.  It is answered,  *)
(* or fails, and the server has then handled it, never does, or will.      *)
Publish(complete) == summary' = SummaryOf(complete) /\ UNCHANGED <<rows, late>>

PublishFails(complete) ==
  /\ summary' \in {summary, SummaryOf(complete)}
  /\ late' \in {late, late \cup {[kind |-> "summary", write |-> SummaryOf(complete)]}}
  /\ UNCHANGED rows

(* The state before the first case.                                        *)
PublishFirst ==
  /\ main = "begin"
  /\ \/ Publish(FALSE) /\ main' = "fill" /\ UNCHANGED task
     \/ PublishFails(FALSE) /\ Abort
  /\ UNCHANGED <<process, pass, told, next, results, attempt, live>>

(* The first cases of a pass are submitted, as many as there are threads.  *)
Fill ==
  /\ main = "fill"
  /\ LET k == IF Concurrency < N THEN Concurrency ELSE N
     IN  /\ task' = [c \in Cases |-> IF c <= k THEN "queued" ELSE "none"]
         /\ next' = k + 1
  /\ attempt' = Zero /\ results' = {}
  /\ main' = "wait"
  /\ UNCHANGED <<process, pass, told, live, stored>>

(* Slip: a case that failed counts as scored, and the pass goes on.        *)
TakeSlip ==
  /\ main = "wait"
  /\ \E c \in Cases :
       /\ task[c] \in {"done", "raised"}
       /\ task' = [task EXCEPT ![c] = "taken"]
       /\ results' = results \cup {c}
  /\ main' = "notify"
  /\ UNCHANGED <<process, pass, told, next, attempt, live, stored>>

(* as_completed: any of the futures that are done.                         *)
Take ==
  /\ main = "wait"
  /\ \E c \in Cases :
       \/ /\ task[c] = "done"
          /\ task' = [task EXCEPT ![c] = "taken"]
          /\ results' = results \cup {c}
          /\ main' = "notify"
       \/ task[c] = "raised" /\ Abort /\ UNCHANGED results
  /\ UNCHANGED <<process, pass, told, next, attempt, live, stored>>

(* The case to be told next has its result.                                *)
NextTold == Told(pass) + 1
Due == NextTold \in results

(* Slip: what comes is told.                                               *)
NotifySlip ==
  /\ main = "notify"
  /\ \E c \in results :
       /\ \A i \in DOMAIN told[pass] : told[pass][i] # c
       /\ told' = [told EXCEPT ![pass] = Append(told[pass], c)]
  /\ main' = IF pass = "case" THEN "row" ELSE "publish"
  /\ UNCHANGED <<process, pass, pool, stored>>

(* publish_memory and publish_case: the score is added to the progress.    *)
Notify ==
  /\ main = "notify" /\ Due
  /\ told' = [told EXCEPT ![pass] = Append(told[pass], NextTold)]
  /\ main' = IF pass = "case" THEN "row" ELSE "publish"
  /\ UNCHANGED <<process, pass, pool, stored>>

(* The row of the case just told.                                          *)
WriteRow ==
  /\ main = "row"
  /\ LET c   == Told("case")
         row == [rows EXCEPT ![c] = process]
     IN  \/ rows' = row /\ main' = "publish" /\ UNCHANGED <<task, late>>
         \/ /\ rows' \in {rows, row}
            /\ late' \in {late, late \cup {[kind |-> "row", write |-> <<c, process>>]}}
            /\ Abort
  /\ UNCHANGED <<process, pass, told, next, results, attempt, live, summary>>

(* The summary; that of the last case is complete already.                 *)
PublishCase ==
  /\ main = "publish"
  /\ LET complete == Told("case") = N
     IN  \/ Publish(complete) /\ main' = "notify" /\ UNCHANGED task
         \/ PublishFails(complete) /\ Abort
  /\ UNCHANGED <<process, pass, told, next, results, attempt, live>>

(* submit_next, when no case is due.                                       *)
SubmitNext ==
  /\ main = "notify" /\ ~Due /\ next <= N
  /\ task' = [task EXCEPT ![next] = "queued"]
  /\ next' = next + 1
  /\ main' = "wait"
  /\ UNCHANGED <<process, pass, told, results, attempt, live, stored>>

(* Nothing is left to submit, and no future to wait for.                   *)
PassIsOver == /\ main = "notify" /\ ~Due /\ next > N
              /\ \A c \in Cases : ~Outstanding(c)

EndPass ==
  /\ PassIsOver
  /\ IF pass = "memory" THEN pass' = "case" /\ main' = "fill"
                        ELSE pass' = pass /\ main' = "final"
  /\ UNCHANGED <<process, told, pool, stored>>

Wait ==
  /\ main = "notify" /\ ~Due /\ next > N
  /\ \E c \in Cases : Outstanding(c)
  /\ main' = "wait"
  /\ UNCHANGED <<process, pass, told, pool, stored>>

(* The last state; missing a threshold is raised after it.                 *)
PublishLast ==
  /\ main = "final"
  /\ \/ Publish(TRUE) /\ main' = "complete" /\ UNCHANGED task
     \/ PublishFails(TRUE) /\ Abort
  /\ UNCHANGED <<process, pass, told, next, results, attempt, live>>

-------------------------------------------------------------------------------
(* A thread: _create_http_run_with_retries, _read_http_artifacts, score.   *)

AddLive(p, c, k) == live' = [live EXCEPT ![p] = [live[p] EXCEPT ![c] = live[p][c] + k]]

ThreadStep(c, from, to) == task[c] = from /\ task' = [task EXCEPT ![c] = to]
Unmoved == UNCHANGED <<process, main, pass, told, next, results, stored>>

(* A request is sent: by a free thread, or once more after a pause.        *)
Sends(c, to) ==
  \/ ThreadStep(c, "queued", to) /\ Cardinality({d \in Cases : Busy(d)}) < Concurrency
  \/ ThreadStep(c, "sleeping", to)

(* The server begins a run.                                                *)
Post(c) ==
  /\ Sends(c, "posting")
  /\ attempt' = [attempt EXCEPT ![c] = attempt[c] + 1]
  /\ AddLive(pass, c, 1)
  /\ Unmoved

(* The request never reaches the server.                                   *)
Unreachable(c) ==
  /\ Sends(c, "raised")
  /\ attempt' = [attempt EXCEPT ![c] = attempt[c] + 1]
  /\ UNCHANGED live /\ Unmoved

MayRetry(c) == attempt[c] < MaxAttempts

(* The run is over, and the answer is a success, a failure, or a failure   *)
(* that may pass.                                                          *)
Answered(c) ==
  /\ \/ ThreadStep(c, "posting", "reading")
     \/ ThreadStep(c, "posting", "raised")
     \/ MayRetry(c) /\ ThreadStep(c, "posting", "sleeping")
  /\ AddLive(pass, c, -1)
  /\ UNCHANGED attempt /\ Unmoved

(* Slip: a timeout may pass, too.                                          *)
TimesOutSlip(c) ==
  /\ IF MayRetry(c) THEN ThreadStep(c, "posting", "sleeping")
                    ELSE ThreadStep(c, "posting", "raised")
  /\ UNCHANGED <<attempt, live>> /\ Unmoved

(* The request times out or its connection breaks; the run goes on.        *)
TimesOut(c) ==
  /\ ThreadStep(c, "posting", "raised")
  /\ UNCHANGED <<attempt, live>> /\ Unmoved

(* Slip: while its rows cannot be read, the run is asked for again.        *)
ReadSlip(c) ==
  /\ \/ ThreadStep(c, "reading", "done")
     \/ ThreadStep(c, "reading", "posting")
  /\ live' = [live EXCEPT ![pass][c] = 1]
  /\ UNCHANGED attempt /\ Unmoved

(* The rows of the run are read, and scored.                               *)
Read(c) ==
  /\ \/ ThreadStep(c, "reading", "done")
     \/ ThreadStep(c, "reading", "raised")
  /\ UNCHANGED <<attempt, live>> /\ Unmoved

-------------------------------------------------------------------------------
(* The server, and the end of a process.                                   *)

(* A run nobody waits for ends.                                            *)
RunEnds ==
  /\ \E p \in Passes, c \in Cases :
       /\ live[p][c] > 0
       /\ ~(p = pass /\ task[c] = "posting")
       /\ AddLive(p, c, -1)
  /\ UNCHANGED <<process, main, pass, told, next, results, task, attempt, stored>>

(* A request that was given up takes effect.                               *)
LateRequest ==
  /\ \E q \in late :
       /\ late' = late \ {q}
       /\ IF q.kind = "row"
          THEN rows' = [rows EXCEPT ![q.write[1]] = q.write[2]] /\ UNCHANGED summary
          ELSE summary' = q.write /\ UNCHANGED rows
  /\ UNCHANGED <<process, main, pass, told, pool>>

(* The process dies, with all its threads.                                 *)
Crash ==
  /\ ~Exited
  /\ main' = "dead" /\ task' = NoTasks
  /\ UNCHANGED <<process, pass, told, next, results, attempt, live, stored>>

MainStep == \/ PublishFirst \/ Fill \/ Take \/ Notify \/ WriteRow \/ PublishCase
            \/ SubmitNext \/ EndPass \/ Wait \/ PublishLast

Thread(c) == Post(c) \/ Unreachable(c) \/ Answered(c) \/ TimesOut(c) \/ Read(c)

Next == \/ Start \/ MainStep \/ RunEnds \/ LateRequest \/ Crash
        \/ \E c \in Cases : Thread(c)

Spec == Init /\ [][Next]_vars

(* The threads of a process are scheduled, and every request is answered   *)
(* or times out.  Nothing is assumed of the server, whose runs may hang.   *)
FairSpec == Spec /\ WF_vars(MainStep) /\ \A c \in Cases : WF_vars(Thread(c))

-------------------------------------------------------------------------------
(* Properties.                                                             *)

TypeOK ==
  /\ process \in 0..MaxProcesses
  /\ main \in {"off", "begin", "fill", "wait", "notify", "row", "publish", "final",
               "complete", "failed", "dead"}
  /\ pass \in Passes
  /\ next \in 1..(N + 1)
  /\ results \subseteq Cases
  /\ told \in [Passes -> Seq(Cases)]
  /\ task \in [Cases -> Futures]
  /\ attempt \in [Cases -> 0..MaxAttempts]
  /\ live \in [Passes -> [Cases -> Nat]]
  /\ summary \in Summaries
  /\ rows \in [Cases -> 0..MaxProcesses]
  /\ late \subseteq Requests

(* A case has one run on the server at a time: it is sent again only after *)
(* a run that is known to be over, never after a timeout, when the run may *)
(* still be going on (docs/reference/decisions.md:1306).                   *)
OneRunAtATime == \A p \in Passes, c \in Cases : live[p][c] <= 1

(* The server has no more runs of a process at a time than the process has *)
(* threads, over both passes (docs/reference/decisions.md:895), although   *)
(* runs whose request timed out go on when their threads are free: no case *)
(* is submitted in the place of one that failed.                           *)
RunsOf(p) == {c \in Cases : live[p][c] > 0}

ServerIsNotOverrun ==
  Cardinality(RunsOf("memory")) + Cardinality(RunsOf("case")) <= Concurrency

(* The stored evaluation is never ahead of its stored cases: where the     *)
(* summary counts n cases, each of the first n has a row, if only one that *)
(* an earlier process scored and whose request came late; it counts cases  *)
(* only after the whole memory pass, and is complete only with all cases.  *)
SummaryHasItsRows ==
  /\ \A c \in 1..summary.cases : rows[c] > 0
  /\ summary.cases > 0 => summary.memory = N
  /\ summary.complete => summary.cases = N

(* The evaluation promises EvalInOrder.                                    *)
state == CASE main = "off"                -> "off"
           [] main = "complete"           -> "complete"
           [] main \in {"failed", "dead"} -> "failed"
           [] OTHER                       -> "on"
InOrder == INSTANCE EvalInOrder
ImplementsEvalInOrder == InOrder!Spec

(* A process that is started comes to its end, all its threads included,   *)
(* even if the server never answers.                                       *)
Ends == ~Exited ~> Exited
===============================================================================
