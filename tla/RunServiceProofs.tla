--------------------------- MODULE RunServiceProofs ---------------------------
(***************************************************************************)
(* What RunService promises, for every set of run ids, however often they  *)
(* are used and however long the traces are: a success is durable, a trace *)
(* is numbered, a lesson is earned, a run that ended stays as it is, and   *)
(* the service implements RunLifecycle.                                    *)
(***************************************************************************)
EXTENDS RunService, SequenceTheorems, TLAPS

Layers == {"episodic", "reflection"}

Has(r, layer) == [run |-> r, layer |-> layer] \in memory

Points == {"parse", "context", "priors", "compile", "execute", "reflect", "project",
           "remember", "task", "finish", "lesson", "fail"}

Statuses == {"none", "absent", "running", "succeeded", "no_anomaly", "failed", "raised"}

Codes == {"none", "UNTYPED", "PARSE_FAILED", "MEMORY_READ_FAILED", "PLAN_NOT_COMPILED",
          "PLAN_EXECUTION_FAILED", "REFLECTION_REPAIR_FAILED", "REPORT_PROJECTION_FAILED",
          "MEMORY_WRITE_FAILED", "SYSTEM_TABLE_READ_FAILED", "SYSTEM_TABLE_WRITE_FAILED",
          "RUN_FINALIZATION_FAILED"}

Answers == [status : Statuses, error : Codes]
Rows    == [status : Statuses, error : Codes, context : BOOLEAN]

(* The types of what the promises depend on.                               *)
Typed ==
  /\ pc     \in [Runs -> Points \cup Resting]
  /\ mode   \in [Runs -> {"off", "read", "write"}]
  /\ status \in [Runs -> Successes \cup {"running"}]
  /\ code   \in [Runs -> Codes]
  /\ answer \in [Runs -> Answers]
  /\ seq    \in [Runs -> Nat \ {0}]
  /\ row    \in [Runs -> Rows]
  /\ found  \in [Runs -> Findings]
  /\ task   \in [Runs -> BOOLEAN]
  /\ traced \in [Runs -> Seq(Nat)]
  /\ memory \subseteq [run : Runs, layer : Layers]

(* A call that is under way has an open row and no answer; a row without a *)
(* context has nothing beside it, and only such a row is started from.     *)
RowInv(r) ==
  /\ pc[r] \in Points => /\ row[r].status = "running"
                         /\ row[r].error = NoCode
                         /\ answer[r] = Unanswered
  /\ pc[r] \in {"parse", "context"} => ~row[r].context /\ seq[r] = 1
  /\ pc[r] \in Points \ {"parse", "context", "fail"} => row[r].context
  /\ ~row[r].context => /\ found[r] = "nothing" /\ ~task[r] /\ traced[r] = <<>>
                        /\ ~Has(r, "episodic") /\ ~Has(r, "reflection")

(* Until an execution has ended, the next number is that of the next row.  *)
TraceInv(r) ==
  /\ pc[r] \in {"parse", "context", "priors", "compile", "execute"} =>
       seq[r] = Len(traced[r]) + 1
  /\ \A i \in DOMAIN traced[r] : traced[r][i] = i

(* Nothing is remembered of a run before its report was projected or it    *)
(* has failed, and then only the one or the other.                         *)
LessonInv(r) ==
  /\ pc[r] \in Points \ {"task", "finish", "fail"} => ~Has(r, "episodic")
  /\ pc[r] \in Points \ {"fail"} => ~Has(r, "reflection")
  /\ Has(r, "episodic") => found[r] \in {"normal", "complete"} /\ ~Has(r, "reflection")
  /\ Has(r, "reflection") => row[r].status \notin Successes

(* What a success rests on is collected on the way to its finish.          *)
SuccessInv(r) ==
  /\ pc[r] \in {"reflect", "project", "remember", "task", "finish"} =>
       status[r] \in Successes
  /\ pc[r] \in {"remember", "task", "finish"} =>
       /\ Reportable(status[r], found[r], task[r])
       /\ status[r] = "no_anomaly" => ~task[r]
  /\ pc[r] \in {"task", "finish"} /\ mode[r] = "write" => Has(r, "episodic")
  /\ pc[r] = "finish" /\ status[r] = "succeeded" => task[r]
  /\ answer[r].status \in Successes =>
       /\ row[r] = [status |-> answer[r].status, error |-> NoCode, context |-> TRUE]
       /\ Reportable(row[r].status, found[r], task[r])
       /\ answer[r].status = "succeeded" => task[r]
       /\ mode[r] = "write" => Has(r, "episodic")

RunInv(r) == RowInv(r) /\ TraceInv(r) /\ LessonInv(r) /\ SuccessInv(r)

IInv == Typed /\ \A r \in Runs : RunInv(r)

-------------------------------------------------------------------------------
(* What the steps have in common.                                          *)

Same(q) ==
  /\ pc'[q] = pc[q] /\ mode'[q] = mode[q] /\ status'[q] = status[q]
  /\ answer'[q] = answer[q] /\ seq'[q] = seq[q] /\ row'[q] = row[q]
  /\ found'[q] = found[q] /\ task'[q] = task[q] /\ traced'[q] = traced[q]
  /\ Has(q, "episodic")' <=> Has(q, "episodic")
  /\ Has(q, "reflection")' <=> Has(q, "reflection")

Act(r) == Start(r) \/ Step(r) \/ Crash(r)

LEMMA Appended ==
  ASSUME NEW t \in Seq(Nat), NEW u \in Seq(Nat)
  PROVE  /\ DOMAIN t = 1..Len(t) /\ Len(t) \in Nat
         /\ DOMAIN (t \o u) = 1..(Len(t) + Len(u))
         /\ \A i \in 1..Len(t) : (t \o u)[i] = t[i]
         /\ \A i \in 1..(Len(t) + Len(u)) : i > Len(t) => (t \o u)[i] = u[i - Len(t)]
<1>1. DOMAIN t = 1..Len(t) /\ Len(t) \in Nat /\ Len(u) \in Nat
  OBVIOUS
<1>2. t \o u \in Seq(Nat) /\ Len(t \o u) = Len(t) + Len(u)
  BY ConcatProperties
<1>3. DOMAIN (t \o u) = 1..(Len(t) + Len(u))
  BY <1>2
<1>4. \A i \in 1..Len(t) : (t \o u)[i] = t[i]
  BY <1>1
<1>5. \A i \in 1..(Len(t) + Len(u)) : i > Len(t) => (t \o u)[i] = u[i - Len(t)]
  BY <1>1
<1>q. QED
  BY <1>1, <1>3, <1>4, <1>5

LEMMA ExecutionTraceEffect ==
  ASSUME Typed, NEW r \in Runs, NEW n \in Nat, NEW w, ExecutionTrace(r, n, w)
  PROVE  /\ traced' \in [Runs -> Seq(Nat)] /\ seq' \in [Runs -> Nat \ {0}]
         /\ \A q \in Runs : q # r => traced'[q] = traced[q] /\ seq'[q] = seq[q]
         /\ DOMAIN traced[r] \subseteq DOMAIN traced'[r]
         /\ \A i \in DOMAIN traced[r] : traced'[r][i] = traced[r][i]
         /\ \A i \in DOMAIN traced'[r] \ DOMAIN traced[r] :
              traced'[r][i] = seq[r] + i - Len(traced[r]) - 1
<1> DEFINE k == n + IF w = "lost" THEN 1 ELSE 0
           s == [i \in 1..k |-> seq[r] + i - 1]
<1>1. k \in Nat
  OBVIOUS
<1>2. s \in Seq(Nat) /\ Len(s) = k
  <2>1. s \in [1..k -> Nat]
    BY DEF Typed
  <2>q. QED
    BY <1>1, <2>1
<1>3. traced' = [traced EXCEPT ![r] = @ \o s] /\ seq' = [seq EXCEPT ![r] = @ + n]
  BY DEF ExecutionTrace
<1> HIDE DEF s, k
<1>4. traced'[r] = traced[r] \o s /\ traced[r] \in Seq(Nat)
  BY <1>3 DEF Typed
<1>5. /\ DOMAIN traced[r] = 1..Len(traced[r]) /\ Len(traced[r]) \in Nat
      /\ DOMAIN (traced[r] \o s) = 1..(Len(traced[r]) + k)
      /\ \A i \in 1..Len(traced[r]) : (traced[r] \o s)[i] = traced[r][i]
      /\ \A i \in 1..(Len(traced[r]) + k) :
           i > Len(traced[r]) => (traced[r] \o s)[i] = s[i - Len(traced[r])]
  BY <1>2, <1>4, Appended
<1>6. \A i \in 1..k : s[i] = seq[r] + i - 1
  BY DEF s
<1>7. traced' \in [Runs -> Seq(Nat)] /\ seq' \in [Runs -> Nat \ {0}]
  BY <1>2, <1>3, <1>4 DEF Typed
<1>8. \A i \in DOMAIN traced'[r] \ DOMAIN traced[r] :
        traced'[r][i] = seq[r] + i - Len(traced[r]) - 1
  <2> SUFFICES ASSUME NEW i \in DOMAIN traced'[r] \ DOMAIN traced[r]
               PROVE  traced'[r][i] = seq[r] + i - Len(traced[r]) - 1
    OBVIOUS
  <2>1. i - Len(traced[r]) \in 1..k
    BY <1>1, <1>4, <1>5
  <2>q. QED
    BY <1>1, <1>4, <1>5, <1>6, <2>1 DEF Typed
<1>q. QED
  BY <1>3, <1>4, <1>5, <1>7, <1>8, <1>1 DEF Typed

LEMMA WriteStepEffect ==
  ASSUME Typed, NEW r \in Runs, NEW w \in Writes, WriteStep(r, w)
  PROVE  /\ traced' \in [Runs -> Seq(Nat)] /\ seq' \in [Runs -> Nat \ {0}]
         /\ \A q \in Runs : q # r => traced'[q] = traced[q] /\ seq'[q] = seq[q]
         /\ traced'[r] = IF Took(w) THEN Append(traced[r], seq[r]) ELSE traced[r]
         /\ seq'[r] = IF w = "done" THEN seq[r] + 1 ELSE seq[r]
<1>1. traced[r] \in Seq(Nat) /\ seq[r] \in Nat \ {0}
  BY DEF Typed
<1>2. Append(traced[r], seq[r]) \in Seq(Nat)
  BY <1>1
<1>q. QED
  BY <1>1, <1>2 DEF WriteStep, Typed

LEMMA MemoryWriteEffect ==
  ASSUME Typed, NEW r \in Runs, NEW layer \in Layers, NEW w, MemoryWrite(r, layer, w)
  PROVE  /\ memory' \subseteq [run : Runs, layer : Layers]
         /\ \A q \in Runs, l \in Layers :
              Has(q, l)' <=> \/ Has(q, l)
                             \/ q = r /\ l = layer /\ mode[r] = "write" /\ Took(w)
BY DEF MemoryWrite, Typed, Layers, Has

LEMMA FinishRowEffect ==
  ASSUME Typed, NEW r \in Runs, NEW s \in Statuses, NEW e \in Codes, NEW w \in Writes,
         FinishRow(r, s, e, w)
  PROVE  /\ row' \in [Runs -> Rows]
         /\ \A q \in Runs : q # r => row'[q] = row[q]
         /\ row'[r] = IF Took(w) THEN [status |-> s, error |-> e, context |-> row[r].context]
                      ELSE row[r]
BY DEF FinishRow, Typed, Rows

(* A call moves on, or answers: no other call does.                        *)
Moves(r) ==
  /\ pc' \in [Runs -> Points \cup Resting]
  /\ answer' \in [Runs -> Answers]
  /\ code' \in [Runs -> Codes]
  /\ \A q \in Runs : q # r => pc'[q] = pc[q] /\ answer'[q] = answer[q]

LEMMA GoToMoves ==
  ASSUME Typed, NEW r \in Runs, NEW p \in Points \cup Resting, GoTo(r, p),
         code' \in [Runs -> Codes]
  PROVE  Moves(r)
BY DEF GoTo, Typed, Moves

LEMMA AnswerMoves ==
  ASSUME Typed, NEW r \in Runs, NEW s \in Statuses, NEW e \in Codes, Answer(r, s, e),
         code' \in [Runs -> Codes]
  PROVE  Moves(r)
BY DEF Answer, Typed, Resting, Answers, Moves

LEMMA FailWithMoves ==
  ASSUME Typed, NEW r \in Runs, NEW p \in {"fail", "lesson"}, NEW e \in Codes,
         FailWith(r, p, e)
  PROVE  Moves(r)
<1>1. code' \in [Runs -> Codes]
  BY DEF FailWith, Typed
<1>2. p \in Points \cup Resting
  BY DEF Points
<1>q. QED
  BY <1>1, <1>2, GoToMoves DEF FailWith

LEMMA StepMoves ==
  ASSUME Typed, NEW r \in Runs, Step(r) \/ Crash(r)
  PROVE  Moves(r)
<1>1. code \in [Runs -> Codes] /\ status[r] \in Statuses /\ code[r] \in Codes
  BY DEF Typed, Successes, Statuses
<1>2. ASSUME UNCHANGED code
      PROVE  /\ \A p \in Points \cup Resting : GoTo(r, p) => Moves(r)
             /\ \A s \in Statuses, e \in Codes : Answer(r, s, e) => Moves(r)
  BY <1>1, <1>2, GoToMoves, AnswerMoves
<1>3. \A p \in {"fail", "lesson"}, e \in Codes : FailWith(r, p, e) => Moves(r)
  BY FailWithMoves
<1>4. CASE Parse(r) \/ SetContext(r) \/ ReadPriors(r) \/ CompilePlan(r)
  BY <1>1, <1>2, <1>3, <1>4
  DEF Parse, SetContext, ReadPriors, CompilePlan, local, Raise, Points, Statuses, Codes
<1>5. CASE Execute(r) \/ Reflect(r) \/ Project(r) \/ Crash(r)
  BY <1>1, <1>2, <1>3, <1>5
  DEF Execute, Reflect, Project, Crash, local, Raise, Points, Resting, Statuses, Codes
<1>6. CASE Remember(r) \/ CreateTask(r)
  BY <1>1, <1>2, <1>3, <1>6
  DEF Remember, CreateTask, local, Points, Statuses, Codes
<1>7. CASE Finish(r) \/ RememberFailure(r) \/ Fail(r)
  BY <1>1, <1>2, <1>3, <1>7
  DEF Finish, RememberFailure, Fail, local, NoCode, Statuses, Codes
<1>q. QED
  BY <1>4, <1>5, <1>6, <1>7 DEF Step

-------------------------------------------------------------------------------
(* A step of a run keeps the types, and leaves the other runs alone.       *)

Apart(r) == \A q \in Runs : q # r => Same(q)

LEMMA StartFrame ==
  ASSUME Typed, NEW r \in Runs, Start(r)
  PROVE  Typed' /\ Apart(r)
<1>1. /\ pc' \in [Runs -> Points \cup Resting] /\ code' \in [Runs -> Codes]
      /\ \A q \in Runs : q # r => pc'[q] = pc[q]
  BY DEF Start, Typed, Answer, Points, Resting, NoCode, Codes
<1>2. /\ answer' \in [Runs -> Answers]
      /\ \A q \in Runs : q # r => answer'[q] = answer[q]
  <2>1. PICK a \in Answers : answer' = [answer EXCEPT ![r] = a]
    <3>1. Unanswered \in Answers
      BY DEF Unanswered, NoCode, Answers, Statuses, Codes
    <3>2. [status |-> "failed", error |-> "SYSTEM_TABLE_WRITE_FAILED"] \in Answers
      BY DEF Answers, Statuses, Codes
    <3>q. QED
      BY <3>1, <3>2 DEF Start, Answer
  <2>q. QED
    BY <2>1 DEF Typed
<1>3. /\ row' \in [Runs -> Rows]
      /\ \A q \in Runs : q # r => row'[q] = row[q]
  <2>1. Fresh \in Rows
    BY DEF Fresh, NoCode, Rows, Statuses, Codes
  <2>2. PICK x \in Rows : row' = [row EXCEPT ![r] = x]
    <3>1. row[r] \in Rows /\ row = [row EXCEPT ![r] = row[r]]
      BY DEF Typed
    <3>q. QED
      BY <2>1, <3>1 DEF Start
  <2>q. QED
    BY <2>2 DEF Typed
<1>4. /\ mode' \in [Runs -> {"off", "read", "write"}]
      /\ status' \in [Runs -> Successes \cup {"running"}]
      /\ seq' \in [Runs -> Nat \ {0}]
      /\ \A q \in Runs : q # r => /\ mode'[q] = mode[q] /\ status'[q] = status[q]
                                /\ seq'[q] = seq[q]
  <2>1. mode' \in [Runs -> {"off", "read", "write"}] /\ \A q \in Runs : q # r => mode'[q] = mode[q]
    BY DEF Start, Typed
  <2>2. /\ status' \in [Runs -> Successes \cup {"running"}]
        /\ \A q \in Runs : q # r => status'[q] = status[q]
    BY DEF Start, Typed
  <2>3. seq' \in [Runs -> Nat \ {0}] /\ \A q \in Runs : q # r => seq'[q] = seq[q]
    <3>1. seq' = seq \/ seq' = [seq EXCEPT ![r] = 1]
      BY DEF Start
    <3>2. seq \in [Runs -> Nat \ {0}] /\ 1 \in Nat \ {0}
      BY DEF Typed
    <3>q. QED
      BY <3>1, <3>2
  <2>q. QED
    BY <2>1, <2>2, <2>3
<1>5. UNCHANGED <<found, task, traced, memory>>
  BY DEF Start
<1>q. QED
  BY <1>1, <1>2, <1>3, <1>4, <1>5 DEF Typed, Apart, Same, Has

LEMMA StepFrame ==
  ASSUME Typed, NEW r \in Runs, Step(r) \/ Crash(r)
  PROVE  Typed' /\ Apart(r)
<1>1. Moves(r)
  BY StepMoves
<1>2. CASE Parse(r) \/ CompilePlan(r) \/ Reflect(r) \/ Project(r) \/ Crash(r)
  <2>1. UNCHANGED <<mode, status, seq, tables>>
    BY <1>2 DEF Parse, CompilePlan, Reflect, Project, Crash, local
  <2>q. QED
    BY <1>1, <2>1 DEF tables, Typed, Moves, Apart, Same, Has
<1>3. CASE SetContext(r)
  <2>1. /\ row' \in [Runs -> Rows]
        /\ \A q \in Runs : q # r => row'[q] = row[q]
    BY <1>3 DEF SetContext, WithContext, Typed, Rows
  <2>2. UNCHANGED <<mode, status, seq, found, task, traced, memory>>
    BY <1>3 DEF SetContext, local
  <2>q. QED
    BY <1>1, <2>1, <2>2 DEF Typed, Moves, Apart, Same, Has
<1>4. CASE ReadPriors(r)
  <2>1. /\ traced' \in [Runs -> Seq(Nat)] /\ seq' \in [Runs -> Nat \ {0}]
        /\ \A q \in Runs : q # r => traced'[q] = traced[q] /\ seq'[q] = seq[q]
    BY <1>4, WriteStepEffect DEF ReadPriors, Typed
  <2>2. UNCHANGED <<mode, status, row, found, task, memory>>
    BY <1>4 DEF ReadPriors
  <2>q. QED
    BY <1>1, <2>1, <2>2 DEF Typed, Moves, Apart, Same, Has
<1>5. CASE Execute(r)
  <2>1. /\ traced' \in [Runs -> Seq(Nat)] /\ seq' \in [Runs -> Nat \ {0}]
        /\ \A q \in Runs : q # r => traced'[q] = traced[q] /\ seq'[q] = seq[q]
    BY <1>5, ExecutionTraceEffect, BoundsAssumption DEF Execute
  <2>2. /\ status' \in [Runs -> Successes \cup {"running"}]
        /\ \A q \in Runs : q # r => status'[q] = status[q]
    BY <1>5 DEF Execute, Typed, Successes
  <2>3. /\ found' \in [Runs -> Findings]
        /\ \A q \in Runs : q # r => found'[q] = found[q]
    BY <1>5 DEF Execute, Typed
  <2>4. UNCHANGED <<mode, row, task, memory>>
    BY <1>5 DEF Execute
  <2>q. QED
    BY <1>1, <2>1, <2>2, <2>3, <2>4 DEF Typed, Moves, Apart, Same, Has
<1>6. CASE Remember(r) \/ RememberFailure(r)
  <2>1. PICK w \in Writes, l \in Layers : MemoryWrite(r, l, w)
    BY <1>6 DEF Remember, RememberFailure, Layers
  <2>2. /\ memory' \subseteq [run : Runs, layer : Layers]
        /\ \A q \in Runs, k \in Layers : q # r => (Has(q, k)' <=> Has(q, k))
    BY <2>1, MemoryWriteEffect
  <2>3. UNCHANGED <<mode, status, seq, row, found, task, traced>>
    BY <1>6 DEF Remember, RememberFailure
  <2>4. Typed'
    BY <1>1, <2>2, <2>3 DEF Typed, Moves
  <2>5. \A q \in Runs : q # r => Has(q, "episodic")' <=> Has(q, "episodic")
    BY <2>2 DEF Layers
  <2>6. \A q \in Runs : q # r => Has(q, "reflection")' <=> Has(q, "reflection")
    BY <2>2 DEF Layers
  <2>q. QED
    BY <1>1, <2>3, <2>4, <2>5, <2>6 DEF Moves, Apart, Same
<1>7. CASE CreateTask(r)
  <2>1. /\ task' \in [Runs -> BOOLEAN]
        /\ \A q \in Runs : q # r => task'[q] = task[q]
    BY <1>7 DEF CreateTask, Typed
  <2>2. UNCHANGED <<mode, status, seq, row, found, traced, memory>>
    BY <1>7 DEF CreateTask, local
  <2>q. QED
    BY <1>1, <2>1, <2>2 DEF Typed, Moves, Apart, Same, Has
<1>8. CASE Finish(r) \/ Fail(r)
  <2>1. PICK w \in Writes, s \in Statuses, e \in Codes : FinishRow(r, s, e, w)
    BY <1>8 DEF Finish, Fail, Typed, Successes, Statuses, Codes, NoCode
  <2>2. /\ row' \in [Runs -> Rows]
        /\ \A q \in Runs : q # r => row'[q] = row[q]
    BY <2>1, FinishRowEffect
  <2>3. UNCHANGED <<mode, status, seq, found, task, traced, memory>>
    BY <1>8 DEF Finish, Fail, local
  <2>q. QED
    BY <1>1, <2>2, <2>3 DEF Typed, Moves, Apart, Same, Has
<1>q. QED
  BY <1>2, <1>3, <1>4, <1>5, <1>6, <1>7, <1>8 DEF Step

LEMMA OthersKeep ==
  ASSUME NEW q \in Runs, RunInv(q), Same(q)
  PROVE  RunInv(q)'
BY DEF RunInv, RowInv, TraceInv, LessonInv, SuccessInv, Same, Reportable, NoCode, Unanswered

-------------------------------------------------------------------------------
(* A step of a run keeps the invariant of the run.                         *)

LEMMA Going ==
  ASSUME Typed, NEW r \in Runs
  PROVE  /\ \A p : GoTo(r, p) => pc'[r] = p /\ answer'[r] = answer[r]
         /\ \A s, e : Answer(r, s, e) => /\ pc'[r] = "answered"
                                         /\ answer'[r].status = s
         /\ \A e : Raise(r, e) => pc'[r] = "answered" /\ answer'[r].status = "raised"
         /\ \A p, e : FailWith(r, p, e) => pc'[r] = p /\ answer'[r] = answer[r]
<1>1. \A p : GoTo(r, p) => pc'[r] = p /\ answer'[r] = answer[r]
  BY DEF GoTo, Typed
<1>2. ASSUME NEW s, NEW e, Answer(r, s, e)
      PROVE  pc'[r] = "answered" /\ answer'[r].status = s
  <2>1. answer'[r] = [status |-> s, error |-> e] /\ pc'[r] = "answered"
    BY <1>2 DEF Answer, Typed
  <2>q. QED
    BY <2>1
<1>q. QED
  BY <1>1, <1>2 DEF Raise, FailWith

LEMMA StartKeeps ==
  ASSUME Typed, NEW r \in Runs, RunInv(r), Start(r)
  PROVE  RunInv(r)'
<1>1. /\ UNCHANGED <<found, task, traced, memory>>
      /\ Has(r, "episodic")' <=> Has(r, "episodic")
      /\ Has(r, "reflection")' <=> Has(r, "reflection")
  BY DEF Start, Has
<1>2. CASE /\ row[r] \in {NoRow, Fresh} /\ row'[r] = Fresh /\ seq'[r] = 1
           /\ pc'[r] = "parse" /\ answer'[r] = Unanswered
  <2>1. /\ ~row[r].context /\ row'[r].status = "running" /\ row'[r].error = NoCode
        /\ ~row'[r].context /\ answer'[r].status = "none"
    BY <1>2 DEF NoRow, Fresh, Unanswered
  <2>2. found[r] = "nothing" /\ ~task[r] /\ traced[r] = <<>>
        /\ ~Has(r, "episodic") /\ ~Has(r, "reflection")
    BY <2>1 DEF RunInv, RowInv
  <2>3. RowInv(r)'
    BY <1>1, <1>2, <2>1, <2>2 DEF RowInv, Points
  <2>4. TraceInv(r)'
    BY <1>1, <1>2, <2>2 DEF TraceInv
  <2>5. LessonInv(r)' /\ SuccessInv(r)'
    BY <1>1, <1>2, <2>1, <2>2 DEF LessonInv, SuccessInv, Successes
  <2>q. QED
    BY <2>3, <2>4, <2>5 DEF RunInv
<1>3. CASE /\ row'[r] = row[r] \/ (row[r] = NoRow /\ row'[r] = Fresh)
           /\ pc'[r] = "answered" /\ answer'[r].status = "failed"
  <2>1. row'[r].context <=> row[r].context
    BY <1>3 DEF NoRow, Fresh
  <2>2. row'[r].status \in Successes => row[r].status \in Successes
    BY <1>3 DEF Fresh, Successes
  <2>3. RowInv(r)' /\ TraceInv(r)'
    BY <1>1, <1>3, <2>1 DEF RunInv, RowInv, TraceInv, Points
  <2>4. LessonInv(r)' /\ SuccessInv(r)'
    BY <1>1, <1>3, <2>2 DEF RunInv, LessonInv, SuccessInv, Successes, Points
  <2>q. QED
    BY <2>3, <2>4 DEF RunInv
<1>4. \/ /\ row[r] \in {NoRow, Fresh} /\ row'[r] = Fresh /\ seq'[r] = 1
         /\ pc'[r] = "parse" /\ answer'[r] = Unanswered
      \/ /\ row'[r] = row[r] \/ (row[r] = NoRow /\ row'[r] = Fresh)
         /\ pc'[r] = "answered" /\ answer'[r].status = "failed"
  <2>1. CASE Answer(r, "failed", "SYSTEM_TABLE_WRITE_FAILED")
    <3>1. row'[r] = row[r] \/ (row[r] = NoRow /\ row'[r] = Fresh)
      <4>1. CASE row' = row
        BY <4>1
      <4>2. CASE (row[r] = NoRow \/ row[r] = Fresh) /\ row' = [row EXCEPT ![r] = Fresh]
        BY <4>2 DEF Typed
      <4>3. CASE row' = [row EXCEPT ![r] = IF row[r] = NoRow THEN Fresh ELSE row[r]]
        <5>1. row'[r] = IF row[r] = NoRow THEN Fresh ELSE row[r]
          BY <4>3 DEF Typed
        <5>q. QED
          BY <5>1
      <4>q. QED
        BY <4>1, <4>2, <4>3 DEF Start, StartsFrom
    <3>q. QED
      BY <2>1, <3>1, Going
  <2>2. CASE ~Answer(r, "failed", "SYSTEM_TABLE_WRITE_FAILED")
    BY <2>2 DEF Start, StartsFrom, Typed
  <2>q. QED
    BY <2>1, <2>2
<1>q. QED
  BY <1>2, <1>3, <1>4

(* Steps that only move the call on, or end it.                            *)
LEMMA MoveKeeps ==
  ASSUME Typed, NEW r \in Runs, RunInv(r),
         Parse(r) \/ CompilePlan(r) \/ Reflect(r) \/ Project(r) \/ Crash(r)
  PROVE  RunInv(r)'
<1>1. /\ UNCHANGED <<mode, status, seq, row, found, task, traced, memory>>
      /\ Has(r, "episodic")' <=> Has(r, "episodic")
      /\ Has(r, "reflection")' <=> Has(r, "reflection")
  BY DEF Parse, CompilePlan, Reflect, Project, Crash, local, tables, Has
<1>2. pc[r] \in Points
  BY DEF Parse, CompilePlan, Reflect, Project, Crash, Points, Typed
<1>3. \/ pc'[r] \in {"answered", "down"}
      \/ pc[r] = "parse" /\ pc'[r] \in {"context", "fail"}
      \/ pc[r] = "compile" /\ pc'[r] \in {"execute", "fail"}
      \/ pc[r] \in {"reflect", "project"} /\ pc'[r] \in {"project", "lesson"}
      \/ /\ pc[r] = "project" /\ pc'[r] = "remember"
         /\ Reportable(status[r], found[r], task[r])
  BY Going DEF Parse, CompilePlan, Reflect, Project, Crash
<1>4. answer[r] = Unanswered
  BY <1>2 DEF RunInv, RowInv
<1>5. /\ answer'[r].status \notin Successes
      /\ pc'[r] \in Points => answer'[r] = Unanswered
  <2>1. CASE answer'[r] = answer[r]
    BY <1>4, <2>1 DEF Unanswered, Successes
  <2>2. CASE pc'[r] = "answered" /\ answer'[r].status = "raised"
    BY <2>2 DEF Points, Successes
  <2>q. QED
    BY <2>1, <2>2, Going DEF Parse, CompilePlan, Reflect, Project, Crash
<1>6. RowInv(r)'
  BY <1>1, <1>2, <1>3, <1>5 DEF RunInv, RowInv, Points
<1>7. TraceInv(r)'
  BY <1>1, <1>3 DEF RunInv, TraceInv
<1>8. LessonInv(r)'
  BY <1>1, <1>2, <1>3 DEF RunInv, LessonInv, Points
<1>9. Reportable("no_anomaly", found[r], task[r]) => ~task[r]
  BY DEF Reportable
<1>10. SuccessInv(r)'
  BY <1>1, <1>3, <1>5, <1>9 DEF RunInv, SuccessInv, Reportable
<1>q. QED
  BY <1>6, <1>7, <1>8, <1>10 DEF RunInv

LEMMA SetContextKeeps ==
  ASSUME Typed, NEW r \in Runs, RunInv(r), SetContext(r)
  PROVE  RunInv(r)'
<1>1. /\ UNCHANGED <<mode, status, seq, found, task, traced, memory>>
      /\ Has(r, "episodic")' <=> Has(r, "episodic")
      /\ Has(r, "reflection")' <=> Has(r, "reflection")
  BY DEF SetContext, local, Has
<1>2. pc[r] = "context" /\ answer[r] = Unanswered /\ row[r].status = "running"
  BY DEF SetContext, RunInv, RowInv, Points
<1>3. /\ row'[r].status = "running" /\ row'[r].error = row[r].error
      /\ row[r].context => row'[r].context
      /\ pc'[r] = "priors" => row'[r].context
  <2>1. PICK w \in Writes : /\ row' = [row EXCEPT ![r] = IF Took(w) THEN WithContext(@) ELSE @]
                            /\ IF w = "done" THEN GoTo(r, "priors")
                               ELSE Raise(r, "SYSTEM_TABLE_WRITE_FAILED")
    BY DEF SetContext
  <2>2. row'[r] = IF Took(w) THEN WithContext(row[r]) ELSE row[r]
    BY <2>1 DEF Typed
  <2>3. pc'[r] = "priors" => Took(w)
    BY <2>1, Going DEF Took
  <2>q. QED
    BY <1>2, <2>2, <2>3 DEF WithContext
<1>4. \/ pc'[r] = "priors" /\ answer'[r] = Unanswered
      \/ pc'[r] = "answered" /\ answer'[r].status = "raised"
  BY <1>2, Going DEF SetContext
<1>5. answer'[r].status \notin Successes
  BY <1>4 DEF Unanswered, Successes
<1>6. RowInv(r)' /\ TraceInv(r)'
  BY <1>1, <1>2, <1>3, <1>4 DEF RunInv, RowInv, TraceInv, Points
<1>7. LessonInv(r)' /\ SuccessInv(r)'
  BY <1>1, <1>2, <1>3, <1>4, <1>5 DEF RunInv, LessonInv, SuccessInv, Points, Successes
<1>q. QED
  BY <1>6, <1>7 DEF RunInv

LEMMA ReadPriorsKeeps ==
  ASSUME Typed, NEW r \in Runs, RunInv(r), ReadPriors(r)
  PROVE  RunInv(r)'
<1>1. /\ UNCHANGED <<mode, status, row, found, task, memory>>
      /\ Has(r, "episodic")' <=> Has(r, "episodic")
      /\ Has(r, "reflection")' <=> Has(r, "reflection")
  BY DEF ReadPriors, Has
<1>2. /\ pc[r] = "priors" /\ answer[r] = Unanswered /\ row[r].context
      /\ row[r].status = "running" /\ seq[r] = Len(traced[r]) + 1
  BY DEF ReadPriors, RunInv, RowInv, TraceInv, Points
<1>3. \/ pc'[r] \in {"compile", "fail"} /\ answer'[r] = Unanswered
      \/ pc'[r] = "answered" /\ answer'[r].status = "raised"
  BY <1>2, Going DEF ReadPriors
<1>4. TraceInv(r)'
  <2>1. CASE UNCHANGED <<seq, traced>>
    BY <1>2, <1>3, <2>1 DEF RunInv, TraceInv
  <2>2. CASE \E w \in Writes : WriteStep(r, w) /\ (w # "done" => pc'[r] = "answered")
    <3>1. PICK w \in Writes : WriteStep(r, w) /\ (w # "done" => pc'[r] = "answered")
      BY <2>2
    <3>2. /\ traced'[r] = IF Took(w) THEN Append(traced[r], seq[r]) ELSE traced[r]
          /\ seq'[r] = IF w = "done" THEN seq[r] + 1 ELSE seq[r]
      BY <3>1, WriteStepEffect
    <3>3. traced[r] \in Seq(Nat) /\ seq[r] \in Nat
      BY DEF Typed
    <3>4. \A i \in DOMAIN traced'[r] : traced'[r][i] = i
      BY <1>2, <3>2, <3>3 DEF RunInv, TraceInv
    <3>5. w = "done" => seq'[r] = Len(traced'[r]) + 1
      BY <1>2, <3>2, <3>3 DEF Took
    <3>q. QED
      BY <1>3, <3>1, <3>4, <3>5 DEF TraceInv
  <2>q. QED
    BY <2>1, <2>2, Going DEF ReadPriors
<1>5. answer'[r].status \notin Successes
  BY <1>3 DEF Unanswered, Successes
<1>6. RowInv(r)'
  BY <1>1, <1>2, <1>3 DEF RunInv, RowInv, Points
<1>7. LessonInv(r)' /\ SuccessInv(r)'
  BY <1>1, <1>2, <1>3, <1>5 DEF RunInv, LessonInv, SuccessInv, Points, Successes
<1>q. QED
  BY <1>4, <1>6, <1>7 DEF RunInv

LEMMA ExecuteKeeps ==
  ASSUME Typed, NEW r \in Runs, RunInv(r), Execute(r)
  PROVE  RunInv(r)'
<1>1. /\ UNCHANGED <<mode, row, task, memory>>
      /\ Has(r, "episodic")' <=> Has(r, "episodic")
      /\ Has(r, "reflection")' <=> Has(r, "reflection")
  BY DEF Execute, Has
<1>2. /\ pc[r] = "execute" /\ answer[r] = Unanswered /\ row[r].context
      /\ row[r].status = "running" /\ seq[r] = Len(traced[r]) + 1
      /\ ~Has(r, "episodic") /\ ~Has(r, "reflection")
  BY DEF Execute, RunInv, RowInv, TraceInv, LessonInv, Points
<1>3. \/ pc'[r] = "reflect" /\ answer'[r] = Unanswered /\ status'[r] \in Successes
      \/ pc'[r] = "lesson" /\ answer'[r] = Unanswered
      \/ pc'[r] = "answered" /\ answer'[r].status = "raised"
  BY <1>2, Going DEF Execute, Typed, Successes
<1>4. TraceInv(r)'
  <2>1. PICK n \in Nat, w \in Writes : ExecutionTrace(r, n, w)
    BY BoundsAssumption DEF Execute, Writes
  <2>2. /\ DOMAIN traced[r] \subseteq DOMAIN traced'[r]
        /\ \A i \in DOMAIN traced[r] : traced'[r][i] = traced[r][i]
        /\ \A i \in DOMAIN traced'[r] \ DOMAIN traced[r] :
             traced'[r][i] = seq[r] + i - Len(traced[r]) - 1
        /\ traced' \in [Runs -> Seq(Nat)]
    BY <2>1, ExecutionTraceEffect
  <2>3. traced[r] \in Seq(Nat) /\ traced'[r] \in Seq(Nat)
    BY <2>2 DEF Typed
  <2>4. \A i \in DOMAIN traced'[r] : traced'[r][i] = i
    <3> SUFFICES ASSUME NEW i \in DOMAIN traced'[r] PROVE traced'[r][i] = i
      OBVIOUS
    <3>1. CASE i \in DOMAIN traced[r]
      BY <2>2, <3>1 DEF RunInv, TraceInv
    <3>2. CASE i \notin DOMAIN traced[r]
      <4>1. i \in Int /\ Len(traced[r]) \in Nat
        BY <2>3
      <4>2. traced'[r][i] = seq[r] + i - Len(traced[r]) - 1
        BY <2>2, <3>2
      <4>q. QED
        BY <1>2, <4>1, <4>2
    <3>q. QED
      BY <3>1, <3>2
  <2>q. QED
    BY <1>3, <2>4 DEF TraceInv
<1>5. answer'[r].status \notin Successes
  BY <1>3 DEF Unanswered, Successes
<1>6. RowInv(r)'
  BY <1>1, <1>2, <1>3 DEF RunInv, RowInv, Points
<1>7. LessonInv(r)' /\ SuccessInv(r)'
  BY <1>1, <1>2, <1>3, <1>5 DEF LessonInv, SuccessInv, Points, Successes
<1>q. QED
  BY <1>4, <1>6, <1>7 DEF RunInv

LEMMA RememberKeeps ==
  ASSUME Typed, NEW r \in Runs, RunInv(r), Remember(r)
  PROVE  RunInv(r)'
<1>1. UNCHANGED <<mode, status, seq, row, found, task, traced>>
  BY DEF Remember
<1>2. /\ pc[r] = "remember" /\ answer[r] = Unanswered /\ row[r].context
      /\ row[r].status = "running" /\ row[r].error = NoCode
      /\ ~Has(r, "reflection")
      /\ status[r] \in Successes /\ Reportable(status[r], found[r], task[r])
      /\ status[r] = "no_anomaly" => ~task[r]
  BY DEF Remember, RunInv, RowInv, LessonInv, SuccessInv, Points
<1>3. PICK w \in Writes : /\ MemoryWrite(r, "episodic", w)
                          /\ \/ (w = "done" \/ mode[r] # "write") /\ GoTo(r, "task")
                             \/ FailWith(r, "fail", "MEMORY_WRITE_FAILED")
  BY DEF Remember
<1>4. /\ ~Has(r, "reflection")'
      /\ w = "done" /\ mode[r] = "write" => Has(r, "episodic")'
  BY <1>2, <1>3, MemoryWriteEffect DEF Layers, Took
<1>5. \/ pc'[r] = "task" /\ (w = "done" \/ mode[r] # "write")
      \/ pc'[r] = "fail"
  BY <1>3, Going
<1>6. answer'[r] = Unanswered
  BY <1>2, <1>3, Going
<1>7. found[r] \in {"normal", "complete"}
  BY <1>2 DEF Reportable
<1>8. RowInv(r)' /\ TraceInv(r)'
  BY <1>1, <1>2, <1>5, <1>6 DEF RunInv, RowInv, TraceInv, Points
<1>9. LessonInv(r)'
  BY <1>1, <1>4, <1>5, <1>7 DEF LessonInv, Points
<1>10. SuccessInv(r)'
  BY <1>1, <1>2, <1>4, <1>5, <1>6 DEF SuccessInv, Unanswered, Successes, Reportable
<1>q. QED
  BY <1>8, <1>9, <1>10 DEF RunInv

LEMMA CreateTaskKeeps ==
  ASSUME Typed, NEW r \in Runs, RunInv(r), CreateTask(r)
  PROVE  RunInv(r)'
<1>1. /\ UNCHANGED <<mode, status, seq, row, found, traced, memory>>
      /\ Has(r, "episodic")' <=> Has(r, "episodic")
      /\ Has(r, "reflection")' <=> Has(r, "reflection")
  BY DEF CreateTask, local, Has
<1>2. /\ pc[r] = "task" /\ answer[r] = Unanswered /\ row[r].context
      /\ row[r].status = "running" /\ row[r].error = NoCode
      /\ ~Has(r, "reflection") /\ (mode[r] = "write" => Has(r, "episodic"))
      /\ status[r] \in Successes /\ Reportable(status[r], found[r], task[r])
      /\ status[r] = "no_anomaly" => ~task[r]
  BY DEF CreateTask, RunInv, RowInv, LessonInv, SuccessInv, Points
<1>3. \/ pc'[r] = "finish" /\ answer'[r] = Unanswered
      \/ pc'[r] = "answered" /\ answer'[r].status = "failed"
  BY <1>2, Going DEF CreateTask
<1>4. /\ status[r] = "no_anomaly" => task'[r] = task[r]
      /\ status[r] = "succeeded" /\ pc'[r] = "finish" => task'[r]
  <2>1. CASE status[r] = "no_anomaly"
    BY <2>1 DEF CreateTask
  <2>2. CASE status[r] = "succeeded"
    <3>1. PICK w \in Writes :
            /\ task' = [task EXCEPT ![r] = IF Took(w) THEN TRUE ELSE @]
            /\ IF w = "done" THEN GoTo(r, "finish")
               ELSE Answer(r, "failed", "RUN_FINALIZATION_FAILED")
      BY <2>2 DEF CreateTask
    <3>2. pc'[r] = "finish" => Took(w)
      BY <3>1, Going DEF Took
    <3>q. QED
      BY <2>2, <3>1, <3>2 DEF Typed
  <2>q. QED
    BY <1>2, <2>1, <2>2 DEF Successes
<1>5. answer'[r].status \notin Successes
  BY <1>3 DEF Unanswered, Successes
<1>6. RowInv(r)' /\ TraceInv(r)'
  BY <1>1, <1>2, <1>3 DEF RunInv, RowInv, TraceInv, Points
<1>7. LessonInv(r)'
  BY <1>1, <1>2, <1>3 DEF RunInv, LessonInv, Points
<1>8. SuccessInv(r)'
  BY <1>1, <1>2, <1>3, <1>4, <1>5 DEF SuccessInv, Successes, Reportable
<1>q. QED
  BY <1>6, <1>7, <1>8 DEF RunInv

(* The row of an open call is finished, or it stays open.                  *)
LEMMA FinishKeeps ==
  ASSUME Typed, NEW r \in Runs, RunInv(r), Finish(r)
  PROVE  RunInv(r)'
<1>1. /\ UNCHANGED <<mode, status, seq, found, task, traced, memory>>
      /\ Has(r, "episodic")' <=> Has(r, "episodic")
      /\ Has(r, "reflection")' <=> Has(r, "reflection")
  BY DEF Finish, local, Has
<1>2. /\ pc[r] = "finish" /\ row[r].context /\ row[r].status = "running"
      /\ ~Has(r, "reflection") /\ (mode[r] = "write" => Has(r, "episodic"))
      /\ status[r] \in Successes /\ Reportable(status[r], found[r], task[r])
      /\ status[r] = "succeeded" => task[r]
  BY DEF Finish, RunInv, RowInv, LessonInv, SuccessInv, Points
<1>3. PICK w \in Writes : /\ FinishRow(r, status[r], NoCode, w)
                          /\ IF w = "done" THEN Answer(r, status[r], NoCode)
                             ELSE Answer(r, "failed", "RUN_FINALIZATION_FAILED")
  BY DEF Finish
<1>4. row'[r] = IF Took(w)
                THEN [status |-> status[r], error |-> NoCode, context |-> row[r].context]
                ELSE row[r]
  <2>1. status[r] \in Statuses /\ NoCode \in Codes
    BY <1>2 DEF Successes, Statuses, NoCode, Codes
  <2>q. QED
    BY <1>3, <2>1, FinishRowEffect
<1>5. /\ pc'[r] = "answered"
      /\ answer'[r].status = IF w = "done" THEN status[r] ELSE "failed"
  BY <1>3, Going
<1>6. /\ row'[r].context
      /\ w = "done" => row'[r] = [status |-> status[r], error |-> NoCode, context |-> TRUE]
  BY <1>2, <1>4 DEF Took, Typed, Rows
<1>7. RowInv(r)' /\ TraceInv(r)'
  BY <1>1, <1>5, <1>6 DEF RunInv, RowInv, TraceInv, Points
<1>8. LessonInv(r)'
  BY <1>1, <1>2, <1>5 DEF RunInv, LessonInv, Points
<1>9. SuccessInv(r)'
  <2>1. CASE w = "done"
    <3>1. row'[r].status = status[r] /\ answer'[r].status = status[r]
      BY <1>5, <1>6, <2>1
    <3>q. QED
      BY <1>1, <1>2, <1>5, <1>6, <2>1, <3>1 DEF SuccessInv
  <2>2. CASE w # "done"
    BY <1>1, <1>5, <2>2 DEF SuccessInv, Successes
  <2>q. QED
    BY <2>1, <2>2
<1>q. QED
  BY <1>7, <1>8, <1>9 DEF RunInv

LEMMA FailureKeeps ==
  ASSUME Typed, NEW r \in Runs, RunInv(r), RememberFailure(r) \/ Fail(r)
  PROVE  RunInv(r)'
<1>1. CASE RememberFailure(r)
  <2>1. UNCHANGED <<mode, status, seq, row, found, task, traced>>
    BY <1>1 DEF RememberFailure
  <2>2. /\ answer[r] = Unanswered /\ row[r].context /\ ~Has(r, "episodic")
        /\ row[r].status = "running" /\ row[r].error = NoCode
    BY <1>1 DEF RememberFailure, RunInv, RowInv, LessonInv, Points
  <2>3. PICK w \in Writes : MemoryWrite(r, "reflection", w) /\ \E e : FailWith(r, "fail", e)
    BY <1>1 DEF RememberFailure
  <2>4. ~Has(r, "episodic")'
    BY <2>2, <2>3, MemoryWriteEffect DEF Layers
  <2>5. pc'[r] = "fail" /\ answer'[r] = Unanswered
    BY <2>2, <2>3, Going
  <2>6. RowInv(r)' /\ TraceInv(r)'
    BY <2>1, <2>2, <2>5 DEF RunInv, RowInv, TraceInv, Points
  <2>7. LessonInv(r)' /\ SuccessInv(r)'
    BY <2>1, <2>2, <2>4, <2>5 DEF LessonInv, SuccessInv, Points, Successes, Unanswered
  <2>q. QED
    BY <2>6, <2>7 DEF RunInv
<1>2. CASE Fail(r)
  <2>1. /\ UNCHANGED <<mode, status, seq, found, task, traced, memory>>
        /\ Has(r, "episodic")' <=> Has(r, "episodic")
        /\ Has(r, "reflection")' <=> Has(r, "reflection")
    BY <1>2 DEF Fail, local, Has
  <2>2. row[r].status = "running"
    BY <1>2 DEF Fail, RunInv, RowInv, Points
  <2>3. PICK w \in Writes : FinishRow(r, "failed", code[r], w)
    BY <1>2 DEF Fail
  <2>4. row'[r] = IF Took(w)
                  THEN [status |-> "failed", error |-> code[r], context |-> row[r].context]
                  ELSE row[r]
    BY <2>3, FinishRowEffect DEF Statuses, Typed
  <2>5. (row'[r].context <=> row[r].context) /\ row'[r].status \in {"running", "failed"}
    BY <2>2, <2>4
  <2>6. pc'[r] = "answered" /\ answer'[r].status = "failed"
    BY <1>2, Going DEF Fail
  <2>7. RowInv(r)' /\ TraceInv(r)'
    BY <2>1, <2>5, <2>6 DEF RunInv, RowInv, TraceInv, Points
  <2>8. LessonInv(r)' /\ SuccessInv(r)'
    BY <2>1, <2>5, <2>6 DEF RunInv, LessonInv, SuccessInv, Points, Successes
  <2>q. QED
    BY <2>7, <2>8 DEF RunInv
<1>q. QED
  BY <1>1, <1>2

-------------------------------------------------------------------------------
(* The invariant.                                                          *)

LEMMA InvInit == Init => IInv
<1> SUFFICES ASSUME Init PROVE IInv
  OBVIOUS
<1>1. /\ \A r \in Runs : /\ pc[r] = "idle" /\ row[r] = NoRow /\ answer[r] = Unanswered
                         /\ found[r] = "nothing" /\ ~task[r] /\ traced[r] = <<>>
                         /\ ~Has(r, "episodic") /\ ~Has(r, "reflection")
  BY DEF Init, Has
<1>2. NoRow \in Rows /\ Unanswered \in Answers /\ NoCode \in Codes
  BY DEF NoRow, Unanswered, NoCode, Rows, Answers, Statuses, Codes
<1>3. Typed
  <2>1. "idle" \in Points \cup Resting /\ "nothing" \in Findings
    BY DEF Resting, Findings
  <2>2. <<>> \in Seq(Nat)
    OBVIOUS
  <2>q. QED
    BY <1>2, <2>1, <2>2 DEF Init, Typed
<1>4. ASSUME NEW r \in Runs PROVE RunInv(r)
  <2>1. ~row[r].context /\ row[r].status = "absent" /\ answer[r].status = "none"
    BY <1>1, <1>4 DEF NoRow, Unanswered
  <2>2. RowInv(r) /\ TraceInv(r)
    BY <1>1, <1>4, <2>1 DEF RowInv, TraceInv, Points
  <2>3. LessonInv(r) /\ SuccessInv(r)
    BY <1>1, <1>4, <2>1 DEF LessonInv, SuccessInv, Successes
  <2>q. QED
    BY <2>2, <2>3 DEF RunInv
<1>q. QED
  BY <1>3, <1>4 DEF IInv

LEMMA ActKeeps ==
  ASSUME Typed, NEW r \in Runs, RunInv(r), Act(r)
  PROVE  RunInv(r)'
BY StartKeeps, MoveKeeps, SetContextKeeps, ReadPriorsKeeps, ExecuteKeeps, RememberKeeps,
   CreateTaskKeeps, FinishKeeps, FailureKeeps
DEF Act, Step

LEMMA InvNext == IInv /\ [Next]_vars => IInv'
<1> SUFFICES ASSUME IInv, [Next]_vars PROVE IInv'
  OBVIOUS
<1>1. CASE Next
  <2>1. PICK r \in Runs : Act(r)
    BY <1>1 DEF Next, Act
  <2>2. Typed' /\ Apart(r)
    BY <2>1, StartFrame, StepFrame DEF IInv, Act
  <2>3. ASSUME NEW q \in Runs PROVE RunInv(q)'
    <3>1. CASE q = r
      BY <2>1, <3>1, ActKeeps DEF IInv
    <3>2. CASE q # r
      BY <2>2, <3>2, OthersKeep DEF IInv, Apart
    <3>q. QED
      BY <3>1, <3>2
  <2>q. QED
    BY <2>2, <2>3 DEF IInv
<1>2. CASE UNCHANGED vars
  BY <1>2 DEF vars, local, tables, IInv, Typed, RunInv, RowInv, TraceInv, LessonInv,
              SuccessInv, Has, Reportable
<1>q. QED
  BY <1>1, <1>2

LEMMA Invariant == Spec => []IInv
BY InvInit, InvNext, PTL DEF Spec

-------------------------------------------------------------------------------
(* The trace of a run has no gap and no number twice, in spite of lost     *)
(* writes and of a run id that is used again.                              *)
THEOREM TracesAreNumbered == Spec => []TraceIsNumbered
<1>1. IInv => TraceIsNumbered
  BY DEF IInv, RunInv, TraceInv, TraceIsNumbered
<1>q. QED
  BY <1>1, Invariant, PTL

(* A run leaves a verified case or a lesson of a failure, never both.      *)
THEOREM LessonsAreSound == Spec => []LessonsAreEarned
<1>1. IInv => LessonsAreEarned
  <2> SUFFICES ASSUME IInv, NEW m \in memory
               PROVE  IF m.layer = "episodic"
                      THEN /\ found[m.run] \in {"normal", "complete"}
                           /\ [m EXCEPT !.layer = "reflection"] \notin memory
                      ELSE row[m.run].status \notin Successes
    BY DEF LessonsAreEarned
  <2>1. m \in [run : Runs, layer : Layers]
    BY DEF IInv, Typed
  <2>2. /\ m.run \in Runs /\ m.layer \in Layers /\ m = [run |-> m.run, layer |-> m.layer]
        /\ [m EXCEPT !.layer = "reflection"] = [run |-> m.run, layer |-> "reflection"]
    BY <2>1
  <2>3. LessonInv(m.run)
    BY <2>2 DEF IInv, RunInv
  <2>q. QED
    BY <2>2, <2>3 DEF LessonInv, Has, Layers
<1>q. QED
  BY <1>1, Invariant, PTL

-------------------------------------------------------------------------------
(* What the others see of a step.                                          *)

LEMMA StepIsUnderWay ==
  ASSUME NEW r \in Runs, RunInv(r), Step(r) \/ Crash(r), Typed
  PROVE  pc[r] \in Points /\ row[r].status = "running" /\ answer[r].status = "none"
<1>1. pc[r] \in Points
  BY DEF Step, Crash, Parse, SetContext, ReadPriors, CompilePlan, Execute, Reflect, Project,
         Remember, CreateTask, Finish, RememberFailure, Fail, Points, Typed
<1>q. QED
  BY <1>1 DEF RunInv, RowInv, Unanswered

LEMMA StartEffect ==
  ASSUME Typed, NEW r \in Runs, Start(r)
  PROVE  /\ UNCHANGED <<found, task, traced>>
         /\ \/ /\ row[r] = NoRow \/ row[r] = Fresh
               /\ row'[r] = Fresh /\ answer'[r].status \in {"none", "failed"}
            \/ row'[r] = row[r] /\ answer'[r].status = "failed"
<1>1. UNCHANGED <<found, task, traced>>
  BY DEF Start
<1>2. CASE /\ row[r] = NoRow \/ row[r] = Fresh
           /\ row' = [row EXCEPT ![r] = Fresh]
           /\ answer' = [answer EXCEPT ![r] = Unanswered]
  <2>1. row'[r] = Fresh /\ answer'[r] = Unanswered
    BY <1>2 DEF Typed
  <2>q. QED
    BY <1>1, <1>2, <2>1 DEF Unanswered
<1>3. CASE /\ row' \in {row, [row EXCEPT ![r] = IF row[r] = NoRow THEN Fresh ELSE row[r]]}
           /\ Answer(r, "failed", "SYSTEM_TABLE_WRITE_FAILED")
  <2>1. answer'[r].status = "failed"
    BY <1>3, Going
  <2>2. row'[r] = row[r] \/ (row[r] = NoRow /\ row'[r] = Fresh)
    <3>1. CASE row' = row
      BY <3>1
    <3>2. CASE row' = [row EXCEPT ![r] = IF row[r] = NoRow THEN Fresh ELSE row[r]]
      <4>1. row'[r] = IF row[r] = NoRow THEN Fresh ELSE row[r]
        BY <3>2 DEF Typed
      <4>q. QED
        BY <4>1
    <3>q. QED
      BY <1>3, <3>1, <3>2
  <2>q. QED
    BY <1>1, <2>1, <2>2
<1>q. QED
  BY <1>2, <1>3 DEF Start, StartsFrom

LEMMA StepEffect ==
  ASSUME Typed, NEW r \in Runs, RunInv(r), Step(r) \/ Crash(r)
  PROVE  \/ /\ row'[r].status = "running"
            /\ answer'[r].status \in {"none", "failed", "raised"}
         \/ \E s \in Successes \cup {"failed"} :
              row'[r].status = s /\ answer'[r].status \in {s, "failed"}
<1>1. row[r].status = "running" /\ answer[r].status = "none"
  BY StepIsUnderWay
<1>2. CASE SetContext(r)
  <2>1. PICK w \in Writes : row' = [row EXCEPT ![r] = IF Took(w) THEN WithContext(@) ELSE @]
    BY <1>2 DEF SetContext
  <2>2. row'[r] = IF Took(w) THEN WithContext(row[r]) ELSE row[r]
    BY <2>1 DEF Typed
  <2>3. row'[r].status = "running"
    BY <1>1, <2>2 DEF WithContext
  <2>4. answer'[r].status \in {"none", "raised"}
    BY <1>1, <1>2, Going DEF SetContext
  <2>q. QED
    BY <2>3, <2>4
<1>3. CASE Finish(r)
  <2>1. status[r] \in Successes
    BY <1>3 DEF Finish, RunInv, SuccessInv
  <2>3. status[r] \in Statuses /\ NoCode \in Codes
    BY <2>1 DEF Successes, Statuses, NoCode, Codes
  <2>5. PICK v \in Writes :
          /\ FinishRow(r, status[r], NoCode, v)
          /\ IF v = "done" THEN Answer(r, status[r], NoCode)
             ELSE Answer(r, "failed", "RUN_FINALIZATION_FAILED")
    BY <1>3 DEF Finish
  <2>6. row'[r] = IF Took(v)
                  THEN [status |-> status[r], error |-> NoCode, context |-> row[r].context]
                  ELSE row[r]
    BY <2>5, <2>3, FinishRowEffect
  <2>7. /\ v = "done" => answer'[r].status = status[r]
        /\ v # "done" => answer'[r].status = "failed"
    BY <2>5, Going
  <2>8. CASE Took(v)
    <3>1. row'[r].status = status[r]
      BY <2>6, <2>8
    <3>q. QED
      BY <2>1, <2>7, <3>1
  <2>9. CASE ~Took(v)
    BY <1>1, <2>6, <2>7, <2>9 DEF Took
  <2>q. QED
    BY <2>8, <2>9
<1>4. CASE Fail(r)
  <2>1. PICK w \in Writes : FinishRow(r, "failed", code[r], w)
    BY <1>4 DEF Fail
  <2>2. row'[r] = IF Took(w)
                  THEN [status |-> "failed", error |-> code[r], context |-> row[r].context]
                  ELSE row[r]
    BY <2>1, FinishRowEffect DEF Statuses, Typed
  <2>3. row'[r].status \in {"running", "failed"}
    BY <1>1, <2>2
  <2>4. answer'[r].status = "failed"
    BY <1>4, Going DEF Fail
  <2>q. QED
    BY <2>3, <2>4
<1>5. CASE \/ Parse(r) \/ ReadPriors(r) \/ CompilePlan(r) \/ Execute(r) \/ Reflect(r)
           \/ Project(r) \/ Remember(r) \/ CreateTask(r) \/ RememberFailure(r) \/ Crash(r)
  <2>1. row' = row
    BY <1>5 DEF Parse, ReadPriors, CompilePlan, Execute, Reflect, Project, Remember, CreateTask,
                RememberFailure, Crash, tables
  <2>2. answer'[r].status \in {"none", "failed", "raised"}
    <3>1. CASE Parse(r) \/ ReadPriors(r) \/ CompilePlan(r) \/ Execute(r) \/ Crash(r)
      BY <1>1, <3>1, Going DEF Parse, ReadPriors, CompilePlan, Execute, Crash
    <3>2. CASE Reflect(r) \/ Project(r) \/ Remember(r) \/ CreateTask(r) \/ RememberFailure(r)
      BY <1>1, <3>2, Going DEF Reflect, Project, Remember, CreateTask, RememberFailure
    <3>q. QED
      BY <1>5, <3>1, <3>2
  <2>q. QED
    BY <1>1, <2>1, <2>2
<1>q. QED
  BY <1>2, <1>3, <1>4, <1>5 DEF Step

-------------------------------------------------------------------------------
LEMMA EndedStays ==
  IInv /\ Next => \A q \in Runs : Ended(q) => UNCHANGED <<row[q], found[q], task[q], traced[q]>>
<1> SUFFICES ASSUME IInv, Next, NEW q \in Runs, Ended(q)
             PROVE  UNCHANGED <<row[q], found[q], task[q], traced[q]>>
  OBVIOUS
<1>1. PICK r \in Runs : Act(r)
  BY DEF Next, Act
<1>2. CASE q # r
  BY <1>1, <1>2, StartFrame, StepFrame DEF IInv, Act, Apart, Same
<1>3. CASE q = r
  <2>1. row[r].status \notin {"absent", "running"}
    BY <1>3 DEF Ended, Successes
  <2>2. Start(r)
    BY <1>1, <2>1, StepIsUnderWay DEF IInv, Act
  <2>3. row[r] # NoRow /\ row[r] # Fresh
    BY <2>1 DEF NoRow, Fresh
  <2>q. QED
    BY <1>3, <2>2, <2>3, StartEffect DEF IInv
<1>q. QED
  BY <1>2, <1>3

(* However often the id of a run is used, what is stored of a run that     *)
(* ended does not change.                                                  *)
THEOREM EndedRunsAreFinal == Spec => EndedRunsStay
<1>1. IInv /\ [Next]_vars =>
        [\A r \in Runs : Ended(r) => UNCHANGED <<row[r], found[r], task[r], traced[r]>>]_vars
  BY EndedStays
<1>q. QED
  BY <1>1, Invariant, PTL DEF Spec, EndedRunsStay

(* Every step of the service is a step of RunLifecycle, or nothing that    *)
(* the row and the answer show.                                            *)
THEOREM RefinesRunLifecycle == Spec => ImplementsRunLifecycle
<1> DEFINE st == [r \in Runs |-> row[r].status]
           an == [r \in Runs |-> answer[r].status]
<1>1. Init => Lifecycle!Init
  BY DEF Init, Lifecycle!Init, NoRow, Unanswered
<1>2. IInv /\ [Next]_vars => [Lifecycle!Next]_<<st, an>>
  <2> SUFFICES ASSUME IInv, [Next]_vars PROVE [Lifecycle!Next]_<<st, an>>
    OBVIOUS
  <2>1. CASE Next
    <3>1. PICK r \in Runs : Act(r)
      BY <2>1 DEF Next, Act
    <3>2. Typed /\ RunInv(r) /\ Apart(r)
      BY <3>1, StartFrame, StepFrame DEF IInv, Act
    <3>3. /\ st' = [st EXCEPT ![r] = row'[r].status]
          /\ an' = [an EXCEPT ![r] = answer'[r].status]
      BY <3>2 DEF Apart, Same
    <3>4. /\ row'[r].status = row[r].status => st' = st
          /\ answer'[r].status = answer[r].status => an' = an
      BY <3>3
    <3>5. st[r] = row[r].status /\ an[r] = answer[r].status
      OBVIOUS
    <3>6. CASE Start(r)
      <4>1. CASE /\ row[r] = NoRow \/ row[r] = Fresh
                 /\ row'[r] = Fresh /\ answer'[r].status \in {"none", "failed"}
        <5>1. row[r].status \in {"absent", "running"} /\ row'[r].status = "running"
          BY <4>1 DEF NoRow, Fresh
        <5>2. Lifecycle!Begin(r)
          BY <3>3, <3>5, <4>1, <5>1 DEF Lifecycle!Begin
        <5>q. QED
          BY <5>2 DEF Lifecycle!Next
      <4>2. CASE row'[r] = row[r] /\ answer'[r].status = "failed"
        <5>1. Lifecycle!Begin(r)
          BY <3>3, <3>4, <4>2 DEF Lifecycle!Begin
        <5>q. QED
          BY <5>1 DEF Lifecycle!Next
      <4>q. QED
        BY <3>2, <3>6, <4>1, <4>2, StartEffect
    <3>7. CASE Step(r) \/ Crash(r)
      <4>1. row[r].status = "running" /\ answer[r].status = "none"
        BY <3>2, <3>7, StepIsUnderWay
      <4>2. CASE row'[r].status = "running" /\ answer'[r].status = "none"
        BY <3>4, <4>1, <4>2
      <4>3. CASE row'[r].status = "running" /\ answer'[r].status \in {"failed", "raised"}
        <5>1. Lifecycle!GiveUp(r)
          BY <3>3, <3>4, <3>5, <4>1, <4>3 DEF Lifecycle!GiveUp
        <5>q. QED
          BY <5>1 DEF Lifecycle!Next
      <4>4. CASE \E s \in Successes \cup {"failed"} :
                   row'[r].status = s /\ answer'[r].status \in {s, "failed"}
        <5>1. Lifecycle!Settle(r)
          BY <3>3, <3>5, <4>1, <4>4
          DEF Lifecycle!Settle, Lifecycle!Settled, Lifecycle!Successes, Successes
        <5>q. QED
          BY <5>1 DEF Lifecycle!Next
      <4>q. QED
        BY <3>2, <3>7, <4>2, <4>3, <4>4, StepEffect
    <3>q. QED
      BY <3>1, <3>6, <3>7 DEF Act
  <2>2. CASE UNCHANGED vars
    BY <2>2 DEF vars, tables
  <2>q. QED
    BY <2>1, <2>2
<1>3. IInv /\ [Next]_vars =>
        [Lifecycle!Next]_<<[r \in Runs |-> row[r].status], [r \in Runs |-> answer[r].status]>>
  BY <1>2
<1>q. QED
  BY <1>1, <1>3, Invariant, PTL DEF Spec, ImplementsRunLifecycle, Lifecycle!Spec

-------------------------------------------------------------------------------
(* What a page shows while the runs go on.                                 *)

(* A row that says "success" has its report and its task beside it, even   *)
(* if nobody was told so.                                                  *)
Complete(r) ==
  row[r].status \in Successes =>
    /\ Reportable(row[r].status, found[r], task[r])
    /\ row[r].status = "succeeded" => task[r]

StoredInv == \A r \in Runs : Complete(r)

Pages == [run : Runs, at : {"evidence", "tasks", "shown"}, said : Statuses,
          status : Statuses, found : Findings, task : BOOLEAN]

(* A page that says "success" has read what is there, and will be there.   *)
PageInv ==
  \/ page = NoPage
  \/ /\ page \in Pages
     /\ page.said \in Successes =>
          /\ page.status = page.said /\ row[page.run].status = page.said
          /\ page.at # "evidence" => page.found = found[page.run]
          /\ page.at = "shown" => page.task = task[page.run]

ServedInv == IInv /\ StoredInv /\ PageInv

LEMMA SettledIsComplete ==
  ASSUME Typed, NEW r \in Runs, RunInv(r), Step(r) \/ Crash(r)
  PROVE  Complete(r)'
<1>1. row[r].status = "running"
  BY StepIsUnderWay
<1>2. CASE Finish(r)
  <2>1. /\ status[r] \in Successes
        /\ Reportable(status[r], found[r], task[r])
        /\ status[r] = "succeeded" => task[r]
    BY <1>2 DEF Finish, RunInv, SuccessInv
  <2>2. status[r] \in Statuses /\ NoCode \in Codes
    BY <2>1 DEF Successes, Statuses, NoCode, Codes
  <2>3. PICK w \in Writes : FinishRow(r, status[r], NoCode, w)
    BY <1>2 DEF Finish
  <2>4. row'[r] = IF Took(w)
                  THEN [status |-> status[r], error |-> NoCode, context |-> row[r].context]
                  ELSE row[r]
    BY <2>2, <2>3, FinishRowEffect
  <2>5. row'[r].status \in {status[r], "running"}
    BY <1>1, <2>4
  <2>6. UNCHANGED <<found, task>>
    BY <1>2 DEF Finish
  <2>q. QED
    BY <2>1, <2>5, <2>6 DEF Complete, Reportable, Successes
<1>3. CASE Fail(r)
  <2>1. PICK w \in Writes : FinishRow(r, "failed", code[r], w)
    BY <1>3 DEF Fail
  <2>2. row'[r] = IF Took(w)
                  THEN [status |-> "failed", error |-> code[r], context |-> row[r].context]
                  ELSE row[r]
    BY <2>1, FinishRowEffect DEF Statuses, Typed
  <2>3. row'[r].status \in {"running", "failed"}
    BY <1>1, <2>2
  <2>q. QED
    BY <2>3 DEF Complete, Successes
<1>4. CASE SetContext(r)
  <2>1. PICK w \in Writes : row' = [row EXCEPT ![r] = IF Took(w) THEN WithContext(@) ELSE @]
    BY <1>4 DEF SetContext
  <2>2. row'[r] = IF Took(w) THEN WithContext(row[r]) ELSE row[r]
    BY <2>1 DEF Typed
  <2>3. row'[r].status = "running"
    BY <1>1, <2>2 DEF WithContext
  <2>q. QED
    BY <2>3 DEF Complete, Successes
<1>5. CASE \/ Parse(r) \/ ReadPriors(r) \/ CompilePlan(r) \/ Execute(r) \/ Reflect(r)
           \/ Project(r) \/ Remember(r) \/ CreateTask(r) \/ RememberFailure(r) \/ Crash(r)
  <2>1. row' = row
    BY <1>5 DEF Parse, ReadPriors, CompilePlan, Execute, Reflect, Project, Remember, CreateTask,
                RememberFailure, Crash, tables
  <2>q. QED
    BY <1>1, <2>1 DEF Complete, Successes
<1>q. QED
  BY <1>2, <1>3, <1>4, <1>5 DEF Step

LEMMA StoredNext == IInv /\ StoredInv /\ Next => StoredInv'
<1> SUFFICES ASSUME IInv, StoredInv, Next, NEW q \in Runs PROVE Complete(q)'
  BY DEF StoredInv
<1>1. PICK r \in Runs : Act(r)
  BY DEF Next, Act
<1>2. CASE Ended(q)
  BY <1>2, EndedStays DEF StoredInv, Complete, Reportable
<1>3. CASE ~Ended(q) /\ q # r
  <2>1. row'[q] = row[q]
    BY <1>1, <1>3, StartFrame, StepFrame DEF IInv, Act, Apart, Same
  <2>q. QED
    BY <1>3, <2>1 DEF Ended, Complete
<1>4. CASE ~Ended(q) /\ q = r
  <2>1. CASE Start(r)
    <3>1. row'[r] \in {row[r], Fresh}
      BY <2>1, StartEffect DEF IInv
    <3>q. QED
      BY <1>4, <3>1 DEF Ended, Complete, Fresh, Successes
  <2>2. CASE Step(r) \/ Crash(r)
    BY <1>4, <2>2, SettledIsComplete DEF IInv
  <2>q. QED
    BY <1>1, <2>1, <2>2 DEF Act
<1>q. QED
  BY <1>2, <1>3, <1>4

LEMMA AnswersHold == IInv => AnswersAreDurable
BY DEF IInv, RunInv, SuccessInv, AnswersAreDurable, Has

LEMMA PageStep == ServedInv /\ ReadPage /\ UNCHANGED vars => PageInv'
<1> SUFFICES ASSUME ServedInv, ReadPage, UNCHANGED vars PROVE PageInv'
  OBVIOUS
<1>0. UNCHANGED <<row, found, task>>
  BY DEF vars, tables
<1>1. ASSUME NEW r \in Runs, OpenPage(r) PROVE PageInv'
  <2>1. PICK said \in {row[r].status} \cup
                     {a \in {answer[r].status} : pc[r] = "answered" /\ a # "raised"} :
          page' = [run |-> r, at |-> "evidence", said |-> said, status |-> row[r].status,
                   found |-> "nothing", task |-> FALSE]
    BY <1>1 DEF OpenPage
  <2>2. row[r].status \in Statuses /\ answer[r].status \in Statuses
    BY DEF ServedInv, IInv, Typed, Rows, Answers
  <2>3. page' \in Pages
    BY <1>1, <2>1, <2>2 DEF Pages, Findings
  <2>4. answer[r].status \in Successes => row[r].status = answer[r].status
    <3>1. answer[r].status \in Successes =>
            row[r] = [status |-> answer[r].status, error |-> NoCode, context |-> TRUE]
      BY <1>1, AnswersHold DEF ServedInv, AnswersAreDurable
    <3>q. QED
      BY <3>1
  <2>5. said \in Successes => row[r].status = said
    BY <2>1, <2>4
  <2>q. QED
    BY <1>0, <2>1, <2>3, <2>5 DEF PageInv
<1>2. CASE ReadEvidences
  <2>1. page \in Pages
    BY <1>2 DEF ReadEvidences, ServedInv, PageInv, NoPage
  <2>2. found[page.run] \in Findings
    BY <2>1 DEF Pages, ServedInv, IInv, Typed
  <2>3. page' = [page EXCEPT !.at = "tasks", !.found = found[page.run]]
    BY <1>2 DEF ReadEvidences
  <2>4. page' \in Pages /\ page'.at = "tasks" /\ page'.found = found[page.run]
    BY <2>1, <2>2, <2>3 DEF Pages
  <2>5. page'.run = page.run /\ page'.said = page.said /\ page'.status = page.status
    BY <2>1, <2>3 DEF Pages
  <2>6. page # NoPage
    BY <2>1 DEF Pages, NoPage
  <2>q. QED
    BY <1>0, <2>4, <2>5, <2>6 DEF ServedInv, PageInv
<1>3. CASE ReadTasks
  <2>1. page \in Pages
    BY <1>3 DEF ReadTasks, ServedInv, PageInv, NoPage
  <2>2. task[page.run] \in BOOLEAN
    BY <2>1 DEF Pages, ServedInv, IInv, Typed
  <2>3. page' = [page EXCEPT !.at = "shown", !.task = task[page.run]] /\ page.at = "tasks"
    BY <1>3 DEF ReadTasks
  <2>4. page' \in Pages /\ page'.at = "shown" /\ page'.task = task[page.run]
    BY <2>1, <2>2, <2>3 DEF Pages
  <2>5. /\ page'.run = page.run /\ page'.said = page.said /\ page'.status = page.status
        /\ page'.found = page.found
    BY <2>1, <2>3 DEF Pages
  <2>6. page # NoPage
    BY <2>1 DEF Pages, NoPage
  <2>q. QED
    BY <1>0, <2>3, <2>4, <2>5, <2>6 DEF ServedInv, PageInv
<1>4. CASE ClosePage
  BY <1>4 DEF ClosePage, PageInv
<1>q. QED
  BY <1>1, <1>2, <1>3, <1>4 DEF ReadPage

LEMMA ServedNext == ServedInv /\ [Serve]_<<vars, page>> => ServedInv'
<1> SUFFICES ASSUME ServedInv, [Serve]_<<vars, page>> PROVE ServedInv'
  OBVIOUS
<1>1. CASE Next /\ UNCHANGED page
  <2>1. IInv' /\ StoredInv'
    BY <1>1, InvNext, StoredNext DEF ServedInv
  <2>2. page # NoPage /\ page.said \in Successes =>
          /\ row'[page.run] = row[page.run]
          /\ found'[page.run] = found[page.run]
          /\ task'[page.run] = task[page.run]
    BY <1>1, EndedStays DEF ServedInv, PageInv, Pages, Ended
  <2>3. PageInv'
    BY <1>1, <2>2 DEF ServedInv, PageInv
  <2>q. QED
    BY <2>1, <2>3 DEF ServedInv
<1>2. CASE UNCHANGED vars
  <2>1. IInv'
    BY <1>2, InvNext DEF ServedInv
  <2>2. UNCHANGED <<row, found, task>>
    BY <1>2 DEF vars, tables
  <2>3. StoredInv'
    BY <2>2 DEF ServedInv, StoredInv, Complete, Reportable
  <2>4. CASE UNCHANGED page
    BY <2>1, <2>2, <2>3, <2>4 DEF ServedInv, PageInv
  <2>5. CASE ReadPage
    BY <1>2, <2>1, <2>3, <2>5, PageStep DEF ServedInv
  <2>q. QED
    BY <2>4, <2>5, <1>2 DEF Serve
<1>q. QED
  BY <1>1, <1>2 DEF Serve

(* Serving pages changes nothing: what holds of the runs holds then, too.  *)
LEMMA ServedRuns == ServedSpec => Spec
<1>1. [Serve]_<<vars, page>> => [Next]_vars
  BY DEF Serve, vars
<1>q. QED
  BY <1>1, PTL DEF ServedSpec, Spec

(* Whatever the calls do, a success that was answered is in the tables,    *)
(* and a page that says so shows it, whenever its reads are made.          *)
THEOREM SuccessesAreDurable == ServedSpec => []SuccessIsDurable
<1>1. Init => ServedInv
  <2> SUFFICES ASSUME Init PROVE ServedInv
    OBVIOUS
  <2>1. ASSUME NEW r \in Runs PROVE Complete(r)
    <3>1. row[r] = NoRow
      BY <2>1 DEF Init
    <3>q. QED
      BY <3>1 DEF Complete, NoRow, Successes
  <2>q. QED
    BY <2>1, InvInit DEF Init, ServedInv, StoredInv, PageInv
<1>2. ServedInv => AnswersAreDurable
  BY AnswersHold DEF ServedInv
<1>3. ServedInv => PagesAreWhole
  BY DEF ServedInv, PageInv, StoredInv, Complete, Pages, PagesAreWhole, NoPage
<1>q. QED
  BY <1>1, <1>2, <1>3, ServedNext, PTL DEF ServedSpec, SuccessIsDurable

===============================================================================
