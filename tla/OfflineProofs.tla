----------------------------- MODULE OfflineProofs -----------------------------
(***************************************************************************)
(* The programs that run beside the service: what the direct runner stores *)
(* of an evaluation is true, a dataset whose manifest vouches for it is of *)
(* one export, and the database holds one complete seed or none; for all   *)
(* numbers of cases, threads, attempts, starts, rounds, seeders and days.  *)
(***************************************************************************)
EXTENDS EvalRunner, GrpoExport, SeedDatabase, ScenarioSeed, NaturalSets, FiniteSetTheorems,
        SequenceTheorems, TLAPS

-------------------------------------------------------------------------------
(* EvalRunner.                                                             *)

Attempts == 1..MaxAttempts
Mains == {"begin", "cases", "progress", "summary", "dataset", "declare"}
Tasks == {"none", "queued", "inserted", "running", "reading", "pause", "scored", "raised"}
Rows  == {"absent", "fresh", "open", "success", "failed"}

RunnerTypeOK ==
  /\ process \in Nat
  /\ main \in Mains \cup RunnerIsOver
  /\ pass \in Passes
  /\ task \in [Cases -> Tasks]
  /\ attempt \in [Cases -> Attempts]
  /\ told \in 0..N
  /\ score \in [Passes -> [Cases -> RunIds \cup {NoRun}]]
  /\ row \in [RunIds -> Rows]
  /\ owner \in [RunIds -> Nat]
  /\ summary \in [process : Nat, cases : Nat, complete : BOOLEAN, dataset : BOOLEAN]
  /\ dataset \in Nat

(* A case was tried without success before the attempt it is at, in this   *)
(* process, and the row of this attempt is as far as its thread.           *)
TriedBefore(p, c, k) ==
  \A j \in Attempts : j < k => row[<<p, c, j>>] # "success" /\ owner[<<p, c, j>>] = process

ThreadOf(c) ==
  /\ TriedBefore(pass, c, attempt[c])
  /\ task[c] \in {"inserted", "running"} =>
       row[RunId(c)] # "success" /\ owner[RunId(c)] = process
  /\ task[c] \in {"reading", "scored"} =>
       row[RunId(c)] = "success" /\ owner[RunId(c)] = process

(* The run a case was scored by is its own; in the pass that goes on its   *)
(* thread has come to an end.                                              *)
ScoreOf(p, c) ==
  LET k == score[p][c][3]
  IN  score[p][c] # NoRun =>
        /\ k \in Attempts /\ score[p][c] = <<p, c, k>>
        /\ row[<<p, c, k>>] = "success" /\ owner[<<p, c, k>>] = process
        /\ TriedBefore(p, c, k)

ToldInOrder ==
  /\ \A c \in Cases : score[pass][c] # NoRun <=> c <= told
  /\ pass = "memory" => \A c \in Cases : score["case"][c] = NoRun
  /\ main # "dead" => \A c \in 1..told : task[c] = "scored"
  /\ main = "dead" => \A c \in Cases : task[c] = "none"

(* What the main thread has done before it stores the summaries.           *)
Ending ==
  /\ main \in {"summary", "dataset", "declare"} => pass = "case" /\ told = N
  /\ main = "declare" => dataset = process
  /\ summary.process <= process
  /\ DatasetIsThere

RunnerInv ==
  /\ RunnerTypeOK
  /\ \A c \in Cases : ThreadOf(c)
  /\ \A p \in Passes, c \in Cases : ScoreOf(p, c)
  /\ ToldInOrder
  /\ Ending

-------------------------------------------------------------------------------
(* The type.                                                               *)

USE DEF work, tables, ended

LEMMA RunIdIsARun ==
  ASSUME RunnerTypeOK, NEW c \in Cases
  PROVE  /\ RunId(c) \in RunIds /\ RunId(c) = <<pass, c, attempt[c]>>
         /\ RunId(c) # NoRun
BY DEF RunnerTypeOK, RunId, RunIds, Attempts, NoRun

LEMMA CountIsNatural ==
  /\ IsFiniteSet(Cases) /\ Cardinality(Cases) = N
  /\ \A S \in SUBSET Cases : Cardinality(S) \in Nat
<1>1. IsFiniteSet(Cases) /\ Cardinality(Cases) = N
  BY CasesAssumption, FS_Interval DEF Cases
<1>2. \A S \in SUBSET Cases : IsFiniteSet(S)
  BY <1>1, FS_Subset
<1> QED
  BY <1>1, <1>2, FS_CardinalityType

LEMMA SummaryType ==
  ASSUME RunnerTypeOK, NEW complete \in BOOLEAN, NEW withDataset \in BOOLEAN
  PROVE  SummaryOf(complete, withDataset) \in
           [process : Nat, cases : Nat, complete : BOOLEAN, dataset : BOOLEAN]
<1>1. Cardinality({c \in Cases : score["case"][c] # NoRun}) \in Nat
  BY CountIsNatural
<1> QED
  BY <1>1 DEF SummaryOf, RunnerTypeOK

LEMMA PersistType ==
  ASSUME RunnerTypeOK, NEW to \in Mains \cup RunnerIsOver,
         NEW s \in [process : Nat, cases : Nat, complete : BOOLEAN, dataset : BOOLEAN],
         Persist(s, to)
  PROVE  /\ summary' \in [process : Nat, cases : Nat, complete : BOOLEAN, dataset : BOOLEAN]
         /\ main' \in {to, "failed"} /\ main' \in Mains \cup RunnerIsOver
         /\ task' \in [Cases -> Tasks]
BY DEF Persist, Abort, RunnerTypeOK, Tasks, RunnerIsOver

LEMMA RunnerTypeNext ==
  ASSUME RunnerTypeOK, [RunnerNext]_runner
  PROVE  RunnerTypeOK'
<1> USE CasesAssumption, AttemptsAssumption
<1>1. CASE StartProcess
  BY <1>1 DEF StartProcess, RunnerTypeOK, Mains, Passes, Tasks, Attempts
<1>2. CASE PersistFirst
  BY <1>2, SummaryType, PersistType DEF PersistFirst, RunnerTypeOK, Mains
<1>3. CASE Submit
  BY <1>3 DEF Submit, RunnerTypeOK, Tasks
<1>4. CASE Tell
  <2>1. told + 1 \in Cases /\ RunId(told + 1) \in RunIds
    BY <1>4, RunIdIsARun DEF Tell, RunnerTypeOK, Cases
  <2>2. score' \in [Passes -> [Cases -> RunIds \cup {NoRun}]]
    BY <1>4, <2>1 DEF Tell, RunnerTypeOK
  <2>3. told' \in 0..N
    BY <1>4 DEF Tell, RunnerTypeOK
  <2> QED
    BY <1>4, <2>2, <2>3 DEF Tell, RunnerTypeOK, Mains
<1>5. CASE StoreProgress
  BY <1>5, SummaryType, PersistType DEF StoreProgress, RunnerTypeOK, Mains
<1>6. CASE Raise
  BY <1>6 DEF Raise, Abort, RunnerTypeOK, Tasks, RunnerIsOver
<1>7. CASE EndPass
  BY <1>7 DEF EndPass, RunnerTypeOK, Tasks, Mains, Passes, Attempts
<1>8. CASE StoreComplete
  BY <1>8, SummaryType, PersistType DEF StoreComplete, RunnerTypeOK, Mains
<1>9. CASE WriteDataset
  BY <1>9 DEF WriteDataset, Abort, RunnerTypeOK, Tasks, Mains, RunnerIsOver
<1>10. CASE Declare
  BY <1>10, SummaryType, PersistType DEF Declare, RunnerTypeOK, RunnerIsOver
<1>11. CASE Crash
  BY <1>11 DEF Crash, RunnerTypeOK, Tasks, RunnerIsOver
<1>12. ASSUME NEW c \in Cases, Thread(c) PROVE RunnerTypeOK'
  <2>1. RunId(c) \in RunIds
    BY RunIdIsARun
  <2>2. row' \in [RunIds -> Rows] /\ owner' \in [RunIds -> Nat]
    BY <1>12, <2>1
       DEF Thread, InsertRun, Work, Succeed, FailForNow, FailForGood, Read, RunnerTypeOK, Rows
  <2>3. task' \in [Cases -> Tasks]
    BY <1>12
       DEF Thread, InsertRun, Work, Succeed, FailForNow, FailForGood, Read, MoveTo, RunnerTypeOK, Tasks
  <2>4. attempt' \in [Cases -> Attempts]
    BY <1>12
       DEF Thread, InsertRun, Work, Succeed, FailForNow, FailForGood, Read, MayRetry, RunnerTypeOK, Attempts
  <2>5. UNCHANGED <<process, main, pass, told, score, summary, dataset>>
    BY <1>12 DEF Thread, InsertRun, Work, Succeed, FailForNow, FailForGood, Read, Alone
  <2> QED
    BY <2>2, <2>3, <2>4, <2>5 DEF RunnerTypeOK
<1>13. CASE UNCHANGED runner
  BY <1>13 DEF runner, RunnerTypeOK
<1> QED
  BY <1>1, <1>2, <1>3, <1>4, <1>5, <1>6, <1>7, <1>8, <1>9, <1>10, <1>11, <1>12, <1>13
     DEF RunnerNext, MainStep

-------------------------------------------------------------------------------
(* The steps, as far as the rows of runs are concerned.                    *)

(* A thread changes its own future and the row of its own run.             *)
LEMMA ThreadMoves ==
  ASSUME RunnerTypeOK, NEW c \in Cases, Thread(c)
  PROVE  /\ UNCHANGED <<process, main, pass, told, score, summary, dataset>>
         /\ task[c] \notin {"none", "scored", "raised"} /\ task'[c] # "none"
         /\ \A d \in Cases \ {c} : task'[d] = task[d] /\ attempt'[d] = attempt[d]
         /\ \A r \in RunIds \ {RunId(c)} : row'[r] = row[r] /\ owner'[r] = owner[r]
BY DEF Thread, InsertRun, Work, Succeed, FailForNow, FailForGood, Read, MoveTo, Alone,
       RunnerTypeOK

(* The runs of other cases, other passes and earlier attempts stay.        *)
LEMMA TriedStays ==
  ASSUME RunnerTypeOK, NEW p \in Passes, NEW c \in Cases, NEW k \in Attempts,
         TriedBefore(p, c, k), process' = process,
         \A j \in Attempts : j < k => row'[<<p, c, j>>] = row[<<p, c, j>>]
                                        /\ owner'[<<p, c, j>>] = owner[<<p, c, j>>]
  PROVE  TriedBefore(p, c, k)'
BY DEF TriedBefore

LEMMA ScoreStays ==
  ASSUME RunnerTypeOK, NEW p \in Passes, NEW c \in Cases,
         ScoreOf(p, c), score'[p][c] = score[p][c], process' = process,
         \A j \in Attempts : score[p][c] # NoRun /\ j <= score[p][c][3] =>
           /\ row'[<<p, c, j>>] = row[<<p, c, j>>]
           /\ owner'[<<p, c, j>>] = owner[<<p, c, j>>]
  PROVE  ScoreOf(p, c)'
<1> SUFFICES ASSUME score[p][c] # NoRun
             PROVE  ScoreOf(p, c)'
  BY DEF ScoreOf
<1>1. PICK k \in Attempts : k = score[p][c][3]
  BY DEF ScoreOf
<1>2. /\ score[p][c] = <<p, c, k>>
      /\ row[<<p, c, k>>] = "success" /\ owner[<<p, c, k>>] = process
      /\ TriedBefore(p, c, k)
  BY <1>1 DEF ScoreOf
<1>3. \A j \in Attempts : j <= k => row'[<<p, c, j>>] = row[<<p, c, j>>]
                                      /\ owner'[<<p, c, j>>] = owner[<<p, c, j>>]
  BY <1>1 DEF Attempts
<1>4. TriedBefore(p, c, k)'
  BY <1>2, <1>3, TriedStays DEF Attempts
<1>5. k <= k
  BY DEF Attempts
<1> QED
  BY <1>1, <1>2, <1>3, <1>4, <1>5 DEF ScoreOf

(* The main thread, but for the steps that begin a process, tell a case or *)
(* end a pass.                                                             *)
Aside ==
  /\ UNCHANGED <<process, pass, attempt, told, score, row, owner>>
  /\ \A c \in Cases : task'[c] \in {task[c], "none", "queued"}
  /\ \/ main' = "dead" /\ \A c \in Cases : task'[c] = "none"
     \/ main # "dead" /\ main' # "dead" /\ \A c \in 1..told : task'[c] = "scored"

LEMMA ToldAreCases ==
  ASSUME RunnerTypeOK
  PROVE  \A c \in 1..told : c \in Cases
BY CasesAssumption DEF RunnerTypeOK, Cases

LEMMA PersistAside ==
  ASSUME RunnerInv, NEW s, NEW to \in Mains \cup RunnerIsOver, Persist(s, to),
         main \in Mains, to # "dead",
         UNCHANGED <<process, pass, attempt, told, score, row, owner>>
  PROVE  Aside
<1>1. \A c \in 1..told : c \in Cases /\ task[c] = "scored"
  BY ToldAreCases DEF RunnerInv, ToldInOrder, Mains
<1>2. \A c \in Cases : task'[c] \in {task[c], "none"} /\ (task[c] = "scored" => task'[c] = "scored")
  BY DEF Persist, Abort, RunnerInv, RunnerTypeOK
<1>3. main # "dead" /\ main' # "dead"
  BY DEF Persist, Abort, Mains
<1> QED
  BY <1>1, <1>2, <1>3 DEF Aside

LEMMA MainAside ==
  ASSUME RunnerInv, PersistFirst \/ Submit \/ StoreProgress \/ Raise \/ StoreComplete \/ WriteDataset
                \/ Declare \/ Crash
  PROVE  Aside
<1>1. main \in Mains => \A c \in 1..told : c \in Cases /\ task[c] = "scored"
  BY ToldAreCases DEF RunnerInv, ToldInOrder, Mains
<1>2. CASE PersistFirst
  BY <1>2, PersistAside DEF PersistFirst, Mains
<1>3. CASE Submit
  <2>1. \A c \in 1..told : task'[c] = "scored"
    BY <1>1, <1>3 DEF Submit, RunnerInv, RunnerTypeOK, Mains
  <2>2. \A c \in Cases : task'[c] \in {task[c], "queued"}
    BY <1>3 DEF Submit, RunnerInv, RunnerTypeOK
  <2> QED
    BY <1>3, <2>1, <2>2 DEF Submit, Aside
<1>4. CASE StoreProgress
  BY <1>4, PersistAside DEF StoreProgress, Mains
<1>5. CASE Raise
  BY <1>1, <1>5 DEF Raise, Abort, Aside, RunnerInv, RunnerTypeOK, Mains
<1>6. CASE StoreComplete
  BY <1>6, PersistAside DEF StoreComplete, Mains
<1>7. CASE WriteDataset
  BY <1>1, <1>7 DEF WriteDataset, Abort, Aside, RunnerInv, RunnerTypeOK, Mains
<1>8. CASE Declare
  <2>1. PICK to \in {"met", "missed"} : Persist(SummaryOf(TRUE, TRUE), to)
    BY <1>8 DEF Declare
  <2>2. main \in Mains /\ to \in Mains \cup RunnerIsOver /\ to # "dead"
    BY <1>8 DEF Declare, Mains, RunnerIsOver
  <2> QED
    BY <1>8, <2>1, <2>2, PersistAside DEF Declare
<1>9. CASE Crash
  BY <1>9 DEF Crash, Aside
<1> QED
  BY <1>2, <1>3, <1>4, <1>5, <1>6, <1>7, <1>8, <1>9

LEMMA AsideKeeps ==
  ASSUME RunnerInv, Aside
  PROVE  /\ \A c \in Cases : ThreadOf(c)'
         /\ \A p \in Passes, c \in Cases : ScoreOf(p, c)'
         /\ ToldInOrder'
<1>1. ASSUME NEW c \in Cases PROVE ThreadOf(c)'
  BY DEF RunnerInv, ThreadOf, TriedBefore, RunId, Aside
<1>2. ASSUME NEW p \in Passes, NEW c \in Cases PROVE ScoreOf(p, c)'
  BY DEF RunnerInv, ScoreOf, TriedBefore, Aside
<1>3. ToldInOrder'
  BY DEF RunnerInv, ToldInOrder, Aside
<1> QED
  BY <1>1, <1>2, <1>3

-------------------------------------------------------------------------------
(* The runs and the scores.                                                *)

(* A step of a thread keeps what is known of it.                           *)
LEMMA ThreadKeepsItself ==
  ASSUME RunnerTypeOK, NEW c \in Cases, ThreadOf(c), Thread(c)
  PROVE  ThreadOf(c)'
<1>1. PICK p \in Passes, k \in Attempts, r \in RunIds :
        p = pass /\ k = attempt[c] /\ r = RunId(c) /\ r = <<p, c, k>>
  BY RunIdIsARun DEF RunnerTypeOK
<1>2. process' = process /\ pass' = pass /\ TriedBefore(p, c, k)
  BY <1>1, ThreadMoves DEF ThreadOf
<1>3. \A j \in Attempts : j # k =>
        row'[<<p, c, j>>] = row[<<p, c, j>>] /\ owner'[<<p, c, j>>] = owner[<<p, c, j>>]
  <2>1. \A j \in Attempts : <<p, c, j>> \in RunIds /\ (j # k => <<p, c, j>> # r)
    BY <1>1 DEF RunIds, Attempts
  <2> QED
    BY <1>1, <2>1, ThreadMoves
<1>4. TriedBefore(p, c, k)'
  BY <1>2, <1>3 DEF TriedBefore, Attempts
<1>5. CASE FailForNow(c)
  <2>1. attempt'[c] = k + 1 /\ task'[c] = "pause"
    BY <1>1, <1>5 DEF FailForNow, MoveTo, RunnerTypeOK
  <2>2. row'[r] # "success" /\ owner'[r] = process
    BY <1>1, <1>2, <1>5 DEF FailForNow, ThreadOf, RunnerTypeOK
  <2>3. TriedBefore(p, c, k + 1)'
    BY <1>1, <1>2, <1>4, <2>2 DEF TriedBefore, Attempts
  <2> QED
    BY <1>1, <1>2, <2>1, <2>3 DEF ThreadOf
<1>6. ASSUME attempt'[c] = k,
             task'[c] \in {"inserted", "running"} => row'[r] # "success" /\ owner'[r] = process,
             task'[c] \in {"reading", "scored"} => row'[r] = "success" /\ owner'[r] = process
      PROVE  ThreadOf(c)'
  <2>1. RunId(c)' = r
    BY <1>1, <1>2, <1>6 DEF RunId
  <2> QED
    BY <1>1, <1>2, <1>4, <1>6, <2>1 DEF ThreadOf
<1>7. CASE InsertRun(c)
  BY <1>1, <1>2, <1>6, <1>7 DEF InsertRun, MoveTo, RunnerTypeOK
<1>8. CASE Work(c)
  BY <1>1, <1>2, <1>6, <1>8 DEF Work, MoveTo, ThreadOf, RunnerTypeOK
<1>9. CASE Succeed(c)
  BY <1>1, <1>2, <1>6, <1>9 DEF Succeed, MoveTo, ThreadOf, RunnerTypeOK
<1>10. CASE FailForGood(c)
  BY <1>1, <1>2, <1>6, <1>10 DEF FailForGood, MoveTo, ThreadOf, RunnerTypeOK
<1>11. CASE Read(c)
  BY <1>1, <1>2, <1>6, <1>11 DEF Read, MoveTo, ThreadOf, RunnerTypeOK
<1> QED
  BY <1>5, <1>7, <1>8, <1>9, <1>10, <1>11 DEF Thread

LEMMA ThreadKeeps ==
  ASSUME RunnerInv, NEW c \in Cases, Thread(c)
  PROVE  /\ \A d \in Cases : ThreadOf(d)'
         /\ \A p \in Passes, d \in Cases : ScoreOf(p, d)'
         /\ ToldInOrder'
<1>1. /\ process' = process /\ main' = main /\ pass' = pass /\ told' = told /\ score' = score
      /\ task[c] \notin {"none", "scored"}
      /\ \A d \in Cases \ {c} : task'[d] = task[d] /\ attempt'[d] = attempt[d]
  BY ThreadMoves DEF RunnerInv
<1>2. main # "dead" /\ c \notin 1..told
  BY <1>1 DEF RunnerInv, ToldInOrder
<1>3. \A p \in Passes, d \in Cases, j \in Attempts :
        (p # pass \/ d # c) => /\ row'[<<p, d, j>>] = row[<<p, d, j>>]
                               /\ owner'[<<p, d, j>>] = owner[<<p, d, j>>]
  <2>1. \A p \in Passes, d \in Cases, j \in Attempts :
          <<p, d, j>> \in RunIds /\ (p # pass \/ d # c => <<p, d, j>> # RunId(c))
    BY DEF RunIds, Attempts, RunId
  <2> QED
    BY <2>1, ThreadMoves DEF RunnerInv
<1>4. ASSUME NEW d \in Cases \ {c} PROVE ThreadOf(d)'
  <2>1. PICK p \in Passes, k \in Attempts : p = pass /\ k = attempt[d]
    BY DEF RunnerInv, RunnerTypeOK
  <2>2. /\ TriedBefore(p, d, k) /\ RunId(d) = <<p, d, k>> /\ RunId(d)' = <<p, d, k>>
        /\ row'[<<p, d, k>>] = row[<<p, d, k>>] /\ owner'[<<p, d, k>>] = owner[<<p, d, k>>]
    BY <1>1, <1>3, <2>1 DEF RunnerInv, ThreadOf, RunId
  <2>3. TriedBefore(p, d, k)'
    BY <1>1, <1>3, <2>1, <2>2, TriedStays DEF RunnerInv
  <2> QED
    BY <1>1, <2>1, <2>2, <2>3 DEF RunnerInv, ThreadOf
<1>5. ASSUME NEW p \in Passes, NEW d \in Cases PROVE ScoreOf(p, d)'
  <2>1. p = pass /\ d = c => score[p][d] = NoRun
    BY <1>2, CasesAssumption DEF RunnerInv, ToldInOrder, RunnerTypeOK, Cases
  <2>2. \A j \in Attempts : score[p][d] # NoRun /\ j <= score[p][d][3] =>
          row'[<<p, d, j>>] = row[<<p, d, j>>] /\ owner'[<<p, d, j>>] = owner[<<p, d, j>>]
    BY <1>3, <2>1
  <2> QED
    BY <1>1, <2>2, ScoreStays DEF RunnerInv
<1>6. ToldInOrder'
  <2>1. \A d \in 1..told : d \in Cases \ {c}
    BY <1>2, ToldAreCases DEF RunnerInv
  <2> QED
    BY <1>1, <1>2, <2>1 DEF RunnerInv, ToldInOrder
<1>7. ThreadOf(c)'
  BY ThreadKeepsItself DEF RunnerInv
<1> QED
  BY <1>4, <1>5, <1>6, <1>7

LEMMA TellKeeps ==
  ASSUME RunnerInv, Tell
  PROVE  /\ \A d \in Cases : ThreadOf(d)'
         /\ \A p \in Passes, d \in Cases : ScoreOf(p, d)'
         /\ ToldInOrder'
<1>1. PICK c : c = told + 1
  OBVIOUS
<1>2. /\ c \in Cases /\ task[c] = "scored" /\ main = "cases" /\ main' = "progress" /\ told' = c
      /\ UNCHANGED <<process, pass, task, attempt, row, owner>>
  BY <1>1, CasesAssumption DEF Tell, RunnerInv, RunnerTypeOK, Cases
<1>3. PICK p \in Passes, k \in Attempts : p = pass /\ k = attempt[c]
  BY <1>2 DEF RunnerInv, RunnerTypeOK
<1>4. /\ RunId(c) = <<p, c, k>> /\ <<p, c, k>> # NoRun
      /\ row[<<p, c, k>>] = "success" /\ owner[<<p, c, k>>] = process
      /\ TriedBefore(p, c, k)
  BY <1>2, <1>3, RunIdIsARun DEF RunnerInv, ThreadOf
<1>5. score'[p][c] = <<p, c, k>>
  BY <1>1, <1>2, <1>3, <1>4 DEF Tell, RunnerInv, RunnerTypeOK
<1>6. \A q \in Passes, d \in Cases : (q # p \/ d # c) => score'[q][d] = score[q][d]
  BY <1>1, <1>3 DEF Tell, RunnerInv, RunnerTypeOK
<1>7. ScoreOf(p, c)'
  <2>1. TriedBefore(p, c, k)'
    BY <1>2, <1>4 DEF TriedBefore
  <2>2. score'[p][c][3] = k
    BY <1>5
  <2> QED
    BY <1>2, <1>4, <1>5, <2>1, <2>2 DEF ScoreOf
<1>8. ASSUME NEW q \in Passes, NEW d \in Cases, q # p \/ d # c PROVE ScoreOf(q, d)'
  BY <1>2, <1>6, <1>8, ScoreStays DEF RunnerInv
<1>9. \A d \in Cases : ThreadOf(d)'
  BY <1>2 DEF RunnerInv, ThreadOf, TriedBefore, RunId
<1>10. ToldInOrder'
  <2>1. \A d \in Cases : d <= c <=> (d = c \/ d <= told)
    BY <1>1 DEF RunnerInv, RunnerTypeOK, Cases
  <2>2. \A d \in Cases : score'[p][d] # NoRun <=> d <= c
    <3>1. \A d \in Cases \ {c} : score'[p][d] # NoRun <=> d <= told
      BY <1>3, <1>6 DEF RunnerInv, ToldInOrder
    <3> QED
      BY <1>4, <1>5, <2>1, <3>1
  <2>3. p = "memory" => \A d \in Cases : score'["case"][d] = NoRun
    BY <1>3, <1>6 DEF RunnerInv, ToldInOrder, Passes
  <2>4. \A d \in 1..c : task'[d] = "scored"
    BY <1>1, <1>2 DEF RunnerInv, ToldInOrder, RunnerTypeOK
  <2> QED
    BY <1>2, <1>3, <2>2, <2>3, <2>4 DEF ToldInOrder
<1> QED
  BY <1>7, <1>8, <1>9, <1>10

LEMMA EndPassKeeps ==
  ASSUME RunnerInv, EndPass
  PROVE  /\ \A d \in Cases : ThreadOf(d)'
         /\ \A p \in Passes, d \in Cases : ScoreOf(p, d)'
         /\ ToldInOrder'
<1>1. UNCHANGED <<process, score, row, owner>> /\ main = "cases"
  BY DEF EndPass
<1>2. \A p \in Passes, d \in Cases : ScoreOf(p, d)'
  BY <1>1, ScoreStays DEF RunnerInv
<1>3. CASE pass = "memory"
  <2>1. /\ pass' = "case" /\ told' = 0 /\ main' = main
        /\ task' = [c \in Cases |-> "none"] /\ attempt' = [c \in Cases |-> 1]
    BY <1>3 DEF EndPass
  <2>2. \A d \in Cases : ThreadOf(d)'
    BY <2>1 DEF ThreadOf, TriedBefore, Attempts
  <2>3. ToldInOrder'
    BY <1>1, <1>3, <2>1, CasesAssumption DEF RunnerInv, ToldInOrder, Cases
  <2> QED
    BY <1>2, <2>2, <2>3
<1>4. CASE pass # "memory"
  <2>1. main' = "summary" /\ UNCHANGED <<pass, told, task, attempt>>
    BY <1>4 DEF EndPass
  <2>2. \A d \in Cases : ThreadOf(d)'
    BY <1>1, <2>1 DEF RunnerInv, ThreadOf, TriedBefore, RunId
  <2>3. ToldInOrder'
    BY <1>1, <2>1 DEF RunnerInv, ToldInOrder
  <2> QED
    BY <1>2, <2>2, <2>3
<1> QED
  BY <1>3, <1>4

LEMMA StartKeeps ==
  ASSUME RunnerInv, StartProcess
  PROVE  /\ \A d \in Cases : ThreadOf(d)'
         /\ \A p \in Passes, d \in Cases : ScoreOf(p, d)'
         /\ ToldInOrder'
<1>1. /\ main' = "begin" /\ pass' = "memory" /\ told' = 0
      /\ task' = [c \in Cases |-> "none"] /\ attempt' = [c \in Cases |-> 1]
      /\ score' = [p \in Passes |-> [c \in Cases |-> NoRun]]
  BY DEF StartProcess
<1>2. \A d \in Cases : ThreadOf(d)'
  BY <1>1 DEF ThreadOf, TriedBefore, Attempts
<1>3. \A p \in Passes, d \in Cases : ScoreOf(p, d)'
  BY <1>1 DEF ScoreOf
<1>4. ToldInOrder'
  BY <1>1, CasesAssumption DEF ToldInOrder, Cases, Passes
<1> QED
  BY <1>2, <1>3, <1>4

-------------------------------------------------------------------------------
(* What is stored of the evaluation.                                       *)

LEMMA CompleteHasAll ==
  ASSUME RunnerInv, main \in {"summary", "declare"}, NEW withDataset
  PROVE  SummaryOf(TRUE, withDataset).cases = N
<1>1. \A c \in Cases : score["case"][c] # NoRun
  BY CasesAssumption DEF RunnerInv, Ending, ToldInOrder, Cases
<1>2. {c \in Cases : score["case"][c] # NoRun} = Cases
  BY <1>1
<1> QED
  BY <1>2, CountIsNatural DEF SummaryOf

LEMMA PersistKeeps ==
  ASSUME RunnerInv, NEW complete \in BOOLEAN, NEW withDataset \in BOOLEAN,
         NEW to, Persist(SummaryOf(complete, withDataset), to),
         main \in {"begin", "progress", "summary", "declare"},
         complete => main \in {"summary", "declare"},
         withDataset => main = "declare",
         UNCHANGED <<process, dataset>>
  PROVE  (summary.process <= process /\ DatasetIsThere)'
<1>1. complete => SummaryOf(complete, withDataset).cases = N
  BY CompleteHasAll
<1>2. withDataset => dataset = process
  BY DEF RunnerInv, Ending
<1>3. /\ SummaryOf(complete, withDataset).process = process
      /\ SummaryOf(complete, withDataset).complete = complete
      /\ SummaryOf(complete, withDataset).dataset = withDataset
  BY DEF SummaryOf
<1>4. summary' \in {summary, SummaryOf(complete, withDataset)}
  BY DEF Persist
<1> QED
  BY <1>1, <1>2, <1>3, <1>4 DEF RunnerInv, RunnerTypeOK, Ending, DatasetIsThere

LEMMA EndingNext ==
  ASSUME RunnerInv, [RunnerNext]_runner
  PROVE  Ending'
<1>1. CASE StartProcess
  BY <1>1 DEF StartProcess, RunnerInv, RunnerTypeOK, Ending, DatasetIsThere
<1>2. CASE PersistFirst
  <2>1. main' \in {"cases", "failed"}
    BY <1>2 DEF PersistFirst, Persist, Abort
  <2>2. (summary.process <= process /\ DatasetIsThere)'
    BY <1>2, PersistKeeps DEF PersistFirst
  <2> QED
    BY <2>1, <2>2 DEF Ending
<1>3. CASE StoreProgress
  <2>1. main' \in {"cases", "failed"}
    BY <1>3 DEF StoreProgress, Persist, Abort
  <2>2. (summary.process <= process /\ DatasetIsThere)'
    BY <1>3, PersistKeeps DEF StoreProgress
  <2> QED
    BY <2>1, <2>2 DEF Ending
<1>4. CASE EndPass
  BY <1>4 DEF EndPass, RunnerInv, RunnerTypeOK, Passes, Ending, DatasetIsThere
<1>5. CASE StoreComplete
  <2>1. main' \in {"dataset", "failed"} /\ UNCHANGED <<pass, told, process>>
    BY <1>5 DEF StoreComplete, Persist, Abort
  <2>2. (summary.process <= process /\ DatasetIsThere)'
    BY <1>5, PersistKeeps DEF StoreComplete
  <2> QED
    BY <1>5, <2>1, <2>2 DEF StoreComplete, RunnerInv, Ending
<1>6. CASE WriteDataset
  <2>1. /\ main' \in {"declare", "failed"} /\ UNCHANGED <<pass, told, process, summary>>
        /\ dataset' \in {dataset, process} /\ (main' = "declare" => dataset' = process)
    BY <1>6 DEF WriteDataset, Abort
  <2> QED
    BY <1>6, <2>1 DEF WriteDataset, RunnerInv, RunnerTypeOK, Ending, DatasetIsThere
<1>7. CASE Declare
  <2>1. PICK to \in {"met", "missed"} : Persist(SummaryOf(TRUE, TRUE), to)
    BY <1>7 DEF Declare
  <2>2. main' \in {"met", "missed", "failed"}
    BY <2>1 DEF Persist, Abort
  <2>3. (summary.process <= process /\ DatasetIsThere)'
    BY <1>7, <2>1, PersistKeeps DEF Declare
  <2> QED
    BY <2>2, <2>3 DEF Ending
<1>8. CASE Submit \/ Tell \/ Raise \/ Crash
  <2>1. /\ main' \in {"cases", "progress", "failed", "dead"}
        /\ UNCHANGED <<process, summary, dataset>>
    BY <1>8 DEF Submit, Tell, Raise, Abort, Crash
  <2> QED
    BY <2>1 DEF RunnerInv, Ending, DatasetIsThere
<1>9. ASSUME NEW c \in Cases, Thread(c) PROVE Ending'
  BY <1>9, ThreadMoves DEF RunnerInv, Ending, DatasetIsThere
<1>10. CASE UNCHANGED runner
  BY <1>10 DEF runner, RunnerInv, Ending, DatasetIsThere
<1> QED
  BY <1>1, <1>2, <1>3, <1>4, <1>5, <1>6, <1>7, <1>8, <1>9, <1>10 DEF RunnerNext, MainStep

-------------------------------------------------------------------------------
(* The invariant.                                                          *)

LEMMA RunnerInvInit == RunnerInit => RunnerInv
<1> SUFFICES ASSUME RunnerInit PROVE RunnerInv
  OBVIOUS
<1> USE CasesAssumption, AttemptsAssumption
<1>1. RunnerTypeOK
  BY DEF RunnerInit, RunnerTypeOK, Mains, RunnerIsOver, Passes, Tasks, Rows, Attempts
<1>2. \A c \in Cases : ThreadOf(c)
  BY DEF RunnerInit, ThreadOf, TriedBefore, Attempts
<1>3. \A p \in Passes, c \in Cases : ScoreOf(p, c)
  BY DEF RunnerInit, ScoreOf
<1>4. ToldInOrder
  BY DEF RunnerInit, ToldInOrder, Cases, Passes
<1>5. Ending
  BY DEF RunnerInit, Ending, DatasetIsThere
<1> QED
  BY <1>1, <1>2, <1>3, <1>4, <1>5 DEF RunnerInv

LEMMA RunnerInvNext ==
  ASSUME RunnerInv, [RunnerNext]_runner
  PROVE  RunnerInv'
<1>1. RunnerTypeOK' /\ Ending'
  BY RunnerTypeNext, EndingNext DEF RunnerInv
<1>2. CASE Aside
  BY <1>1, <1>2, AsideKeeps DEF RunnerInv
<1>3. CASE Tell
  BY <1>1, <1>3, TellKeeps DEF RunnerInv
<1>4. CASE EndPass
  BY <1>1, <1>4, EndPassKeeps DEF RunnerInv
<1>5. CASE StartProcess
  BY <1>1, <1>5, StartKeeps DEF RunnerInv
<1>6. ASSUME NEW c \in Cases, Thread(c) PROVE RunnerInv'
  BY <1>1, <1>6, ThreadKeeps DEF RunnerInv
<1>7. CASE UNCHANGED runner
  <2>1. UNCHANGED <<process, main, pass, task, attempt, told, score, row, owner>>
    BY <1>7 DEF runner
  <2> QED
    BY <1>1, <2>1 DEF RunnerInv, ThreadOf, TriedBefore, RunId, ScoreOf, ToldInOrder
<1> QED
  BY <1>2, <1>3, <1>4, <1>5, <1>6, <1>7, MainAside DEF RunnerNext, MainStep

LEMMA RunnerInvariance == RunnerSpec => []RunnerInv
  BY RunnerInvInit, RunnerInvNext, PTL DEF RunnerSpec

(* run_eval: the state of an evaluation stays well typed, attempts within  *)
(* their bound.                                                            *)
THEOREM RunnerTypeCorrect == RunnerSpec => []RunnerTypeOK
<1>1. RunnerInv => RunnerTypeOK
  BY DEF RunnerInv
<1> QED
  BY <1>1, RunnerInvariance, PTL

(* run_eval: what is stored of an evaluation is true, whatever was retried *)
(* or interrupted and started again under the same ids.                    *)
THEOREM EvaluationsAreTrue == RunnerSpec => []EvaluationIsTrue
<1>1. RunnerInv => EvaluationIsTrue
  <2> SUFFICES ASSUME RunnerInv PROVE EvaluationIsTrue
    OBVIOUS
  <2>1. ASSUME NEW p \in Passes, NEW c \in Cases, score[p][c] # NoRun
        PROVE  /\ score[p][c][1] = p /\ score[p][c][2] = c
               /\ row[score[p][c]] = "success" /\ owner[score[p][c]] = process
               /\ TriedBefore(p, c, score[p][c][3]) /\ score[p][c][3] \in Attempts
    <3>1. PICK k : k = score[p][c][3]
      OBVIOUS
    <3>2. /\ score[p][c] = <<p, c, k>> /\ k \in Attempts
          /\ row[<<p, c, k>>] = "success" /\ owner[<<p, c, k>>] = process
          /\ TriedBefore(p, c, k)
      BY <2>1, <3>1 DEF RunnerInv, ScoreOf
    <3> QED
      BY <3>1, <3>2
  <2>2. ScoresAreOwn
    BY <2>1 DEF ScoresAreOwn
  <2>3. NothingIsRunAgain
    <3> SUFFICES ASSUME NEW p \in Passes, NEW c \in Cases, score[p][c] # NoRun,
                        NEW j \in 1..(score[p][c][3] - 1)
                 PROVE  row[<<p, c, j>>] # "success" /\ owner[<<p, c, j>>] = process
      BY DEF NothingIsRunAgain
    <3>1. PICK k \in Attempts : k = score[p][c][3]
      BY <2>1
    <3>2. TriedBefore(p, c, k)
      BY <2>1, <3>1
    <3>3. j \in Attempts /\ j < k
      BY <3>1, AttemptsAssumption DEF Attempts
    <3> QED
      BY <3>2, <3>3 DEF TriedBefore
  <2>4. DatasetIsThere
    BY DEF RunnerInv, Ending
  <2> QED
    BY <2>2, <2>3, <2>4 DEF EvaluationIsTrue
<1> QED
  BY <1>1, RunnerInvariance, PTL

-------------------------------------------------------------------------------
(* GrpoExport.                                                             *)

LayerNames == ToSet(Layers)
FileNames  == ToSet(FileOrder)

(* A set of files that one export would write.                             *)
LayersIn(content) == [l \in LayerNames |-> content[l]]

IsAnExport(content) ==
  /\ DOMAIN content = FileNames
  /\ content[Positives] = PositivesOf(LayersIn(content))
  /\ \A r \in ToSet(AllRecords(LayersIn(content))) : RecordDictIsValid(r)
  /\ ~HasOverfitPositive(LayersIn(content))

(* The files up to the one that was written last are those of this export, *)
(* and a manifest vouches for the files of one export, whatever is there.  *)
ExportInv ==
  /\ export.pc \in ExportIsOver \cup {"reading"} \cup FileNames
  /\ DOMAIN export = {"pc", "listed", "read", "layers"}
  /\ export.layers = LayersIn(export.layers)
  /\ DOMAIN output \subseteq FileNames
  /\ \A i, j \in DOMAIN FileOrder : export.pc = FileOrder[i] /\ j <= i =>
       FileOrder[j] \in DOMAIN output /\ output[FileOrder[j]] = ContentOf(FileOrder[j])
  /\ manifest # NoManifest =>
       /\ IsAnExport(manifest.hashes)
       /\ manifest = ManifestSays(LayersIn(manifest.hashes), manifest.hashes)
  /\ export.pc = "exported" => FilesMatch

LEMMA FilesInOrder ==
  /\ DOMAIN FileOrder = 1..4 /\ Len(FileOrder) = 4
  /\ FileOrder[1] = Controller /\ FileOrder[2] = SubAgent /\ FileOrder[3] = CodingFix
  /\ FileOrder[4] = Positives
  /\ LayerNames = {Controller, SubAgent, CodingFix}
  /\ FileNames = {Controller, SubAgent, CodingFix, Positives}
<1>2. LayerNames = {Layers[i] : i \in 1..3}
  BY DEF LayerNames, ToSet, Layers
<1>3. FileNames = {FileOrder[i] : i \in 1..4}
  BY DEF FileNames, ToSet, FileOrder
<1>4. 1..3 = {1, 2, 3} /\ 1..4 = {1, 2, 3, 4}
  OBVIOUS
<1> QED
  BY <1>2, <1>3, <1>4 DEF Layers, FileOrder

LEMMA FileNamesDiffer ==
  \A i, j \in DOMAIN FileOrder : FileOrder[i] = FileOrder[j] => i = j
<1>1. DOMAIN FileOrder = {1, 2, 3, 4}
  BY FilesInOrder
<1> QED
  BY <1>1, FilesInOrder DEF Controller, SubAgent, CodingFix, Positives

(* The file after the one that was written last.                           *)
LEMMA NextFileFollows ==
  ASSUME ExportInv, NextFile # 0
  PROVE  /\ NextFile \in 1..5 /\ export.pc \notin ExportIsOver
         /\ NextFile = 1 => export.pc = "reading"
         /\ NextFile # 1 => export.pc = FileOrder[NextFile - 1]
<1>1. CASE export.pc \in FileNames
  <2>1. PICK k \in DOMAIN FileOrder : export.pc = FileOrder[k]
    BY <1>1 DEF FileNames, ToSet
  <2>2. {i \in DOMAIN FileOrder : FileOrder[i] = export.pc} = {k}
    BY <2>1, FileNamesDiffer
  <2>3. k \in 1..4
    BY <2>1, FilesInOrder
  <2>4. Max({k}) = k
    BY <2>3 DEF Max
  <2>5. export.pc # "reading" /\ export.pc \notin ExportIsOver
    BY <1>1, FilesInOrder DEF Controller, SubAgent, CodingFix, Positives, ExportIsOver
  <2>6. NextFile = 1 + k
    BY <1>1, <2>2, <2>4, <2>5 DEF NextFile, FileNames
  <2> QED
    BY <2>1, <2>3, <2>5, <2>6
<1>2. CASE export.pc \notin FileNames
  <2>1. NextFile = 1 /\ export.pc = "reading"
    BY <1>2 DEF NextFile, FileNames
  <2> QED
    BY <2>1 DEF ExportIsOver
<1> QED
  BY <1>1, <1>2

LEMMA ExportInvInit == ExportInit => ExportInv
<1> SUFFICES ASSUME ExportInit PROVE ExportInv
  OBVIOUS
<1>1. export.pc = "off" /\ export.pc \notin FileNames
  BY FilesInOrder DEF ExportInit, Off, Controller, SubAgent, CodingFix, Positives
<1>2. export.layers = LayersIn(export.layers)
  BY DEF ExportInit, Off, NoLayers, LayersIn, LayerNames
<1>3. \A i \in DOMAIN FileOrder : export.pc # FileOrder[i]
  BY <1>1 DEF FileNames, ToSet
<1> QED
  BY <1>1, <1>2, <1>3 DEF ExportInit, ExportInv, Off, ExportIsOver

(* A step that writes nothing.                                             *)
LEMMA NothingIsWritten ==
  ASSUME ExportInv, UNCHANGED <<output, manifest>>,
         DOMAIN export' = {"pc", "listed", "read", "layers"},
         export'.layers = LayersIn(export'.layers),
         \/ export'.pc \in {"off", "failed", "reading"}
         \/ export'.pc = export.pc /\ export'.layers = export.layers
  PROVE  ExportInv'
<1>1. CASE export'.pc \in {"off", "failed", "reading"}
  <2>1. export'.pc \notin FileNames /\ export'.pc # "exported"
    BY <1>1, FilesInOrder DEF Controller, SubAgent, CodingFix, Positives
  <2>2. \A i \in DOMAIN FileOrder : export'.pc # FileOrder[i]
    BY <2>1 DEF FileNames, ToSet
  <2> QED
    BY <1>1, <2>1, <2>2 DEF ExportInv, ExportIsOver, LayersIn, IsAnExport
<1>2. CASE export'.pc = export.pc /\ export'.layers = export.layers
  <2>1. \A f : ContentOf(f)' = ContentOf(f)
    BY <1>2 DEF ContentOf
  <2> QED
    BY <1>2, <2>1 DEF ExportInv, ExportIsOver, FilesMatch, LayersIn, IsAnExport
<1> QED
  BY <1>1, <1>2

LEMMA WriteOutputKeeps ==
  ASSUME ExportInv, WriteOutput
  PROVE  ExportInv'
<1>1. PICK k \in 1..4 : k = NextFile
  BY FilesInOrder DEF WriteOutput
<1>2. PICK file : file = FileOrder[k]
  OBVIOUS
<1>3. /\ output' = [f \in DOMAIN output \cup {file} |-> IF f = file THEN ContentOf(file) ELSE output[f]]
      /\ export' = [export EXCEPT !.pc = file]
      /\ manifest' = manifest
  BY <1>1, <1>2 DEF WriteOutput
<1>4. /\ DOMAIN export' = DOMAIN export /\ export'.pc = file
      /\ export'.layers = export.layers
  BY <1>3 DEF ExportInv
<1>5. file \in FileNames /\ file # "exported"
  BY <1>1, <1>2, FilesInOrder DEF FileNames, ToSet, Controller, SubAgent, CodingFix, Positives
<1>6. DOMAIN output' = DOMAIN output \cup {file} /\ output'[file] = ContentOf(file)
  BY <1>3
<1>7. \A f \in DOMAIN output \ {file} : output'[f] = output[f]
  BY <1>3
<1>8. \A f : ContentOf(f)' = ContentOf(f)
  BY <1>4 DEF ContentOf
<1>9. ASSUME NEW j \in DOMAIN FileOrder, j <= k
      PROVE  FileOrder[j] \in DOMAIN output' /\ output'[FileOrder[j]] = ContentOf(FileOrder[j])
  <2>1. CASE j = k
    BY <1>2, <1>6, <2>1
  <2>2. CASE j # k
    <3>1. k - 1 \in DOMAIN FileOrder /\ j <= k - 1 /\ k # 1
      BY <1>1, <1>9, <2>2, FilesInOrder
    <3>2. export.pc = FileOrder[k - 1]
      BY <1>1, <3>1, NextFileFollows
    <3>3. FileOrder[j] \in DOMAIN output /\ output[FileOrder[j]] = ContentOf(FileOrder[j])
      BY <3>1, <3>2 DEF ExportInv
    <3>4. FileOrder[j] # file
      BY <1>1, <1>2, <2>2, FileNamesDiffer, FilesInOrder
    <3> QED
      BY <1>6, <1>7, <3>3, <3>4
  <2> QED
    BY <2>1, <2>2
<1>10. \A i, j \in DOMAIN FileOrder : export'.pc = FileOrder[i] /\ j <= i =>
         FileOrder[j] \in DOMAIN output' /\ output'[FileOrder[j]] = ContentOf(FileOrder[j])
  BY <1>1, <1>2, <1>4, <1>9, FileNamesDiffer, FilesInOrder
<1> QED
  BY <1>3, <1>4, <1>5, <1>6, <1>8, <1>10 DEF ExportInv, LayersIn, IsAnExport

LEMMA WriteManifestKeeps ==
  ASSUME ExportInv, WriteManifest
  PROVE  ExportInv'
<1>1. export.pc = Positives
  <2>1. NextFile = 5
    BY FilesInOrder DEF WriteManifest
  <2> QED
    BY <2>1, FilesInOrder, NextFileFollows
<1>2. \A j \in 1..4 : FileOrder[j] \in DOMAIN output /\ output[FileOrder[j]] = ContentOf(FileOrder[j])
  BY <1>1, FilesInOrder DEF ExportInv
<1>3. DOMAIN output = FileNames
  BY <1>2, FilesInOrder DEF ExportInv
<1>4. LayersIn(output) = export.layers
  <2>1. \A l \in LayerNames : output[l] = export.layers[l]
    BY <1>2, FilesInOrder DEF ContentOf, Controller, SubAgent, CodingFix, Positives
  <2> QED
    BY <2>1 DEF LayersIn, ExportInv
<1>5. output[Positives] = PositivesOf(export.layers)
  BY <1>2, FilesInOrder DEF ContentOf
<1>6. IsAnExport(output)
  BY <1>3, <1>4, <1>5 DEF IsAnExport, WriteManifest
<1>7. /\ manifest' = ManifestSays(export.layers, output)
      /\ export' = [export EXCEPT !.pc = "exported"]
      /\ output' = output
  BY DEF WriteManifest
<1>8. manifest'.hashes = output
  BY <1>7 DEF ManifestSays
<1>9. manifest' # NoManifest
  <2>1. "hashes" \in DOMAIN manifest'
    BY <1>7 DEF ManifestSays
  <2>2. "hashes" \notin DOMAIN NoManifest
    BY DEF NoManifest
  <2> QED
    BY <2>1, <2>2
<1>10. DOMAIN export' = DOMAIN export /\ export'.pc = "exported" /\ export'.layers = export.layers
  BY <1>7 DEF ExportInv
<1>11. \A i \in DOMAIN FileOrder : export'.pc # FileOrder[i]
  BY <1>10, FilesInOrder DEF Controller, SubAgent, CodingFix, Positives
<1>12. FilesMatch'
  BY <1>7, <1>8, <1>9 DEF FilesMatch
<1>13. IsAnExport(manifest.hashes)' /\ LayersIn(manifest.hashes)' = export.layers
  BY <1>4, <1>6, <1>8 DEF IsAnExport, LayersIn
<1> QED
  BY <1>3, <1>7, <1>8, <1>10, <1>11, <1>12, <1>13 DEF ExportInv, ExportIsOver, LayersIn

LEMMA ExportInvNext ==
  ASSUME ExportInv, [ExportNext]_grpo
  PROVE  ExportInv'
<1>1. /\ DOMAIN export = {"pc", "listed", "read", "layers"}
      /\ export.layers = LayersIn(export.layers)
  BY DEF ExportInv
<1>2. /\ Off.pc = "off" /\ DOMAIN Off = {"pc", "listed", "read", "layers"}
      /\ Off.layers = LayersIn(Off.layers)
  BY DEF Off, NoLayers, LayersIn, LayerNames
<1>3. CASE CreateRound \/ FinishRound \/ UNCHANGED grpo
  <2>1. UNCHANGED <<output, manifest, export>>
    BY <1>3 DEF CreateRound, FinishRound, grpo
  <2> QED
    BY <1>1, <2>1, NothingIsWritten
<1>4. CASE StartExport
  <2>1. PICK listed : export' = [Off EXCEPT !.pc = IF listed = <<>> THEN "failed" ELSE "reading",
                                            !.listed = listed]
    BY <1>4 DEF StartExport
  <2>2. UNCHANGED <<output, manifest>>
    BY <1>4 DEF StartExport
  <2>3. /\ DOMAIN export' = DOMAIN Off /\ export'.layers = Off.layers
        /\ export'.pc \in {"failed", "reading"}
    BY <1>2, <2>1
  <2> QED
    BY <1>2, <2>2, <2>3, NothingIsWritten
<1>5. CASE ReadRound
  <2>1. PICK records :
          export' = [export EXCEPT !.read = @ + 1, !.layers = Extend(@, records)]
    BY <1>5 DEF ReadRound, Continue
  <2>2. UNCHANGED <<output, manifest>> /\ export.pc = "reading"
    BY <1>5 DEF ReadRound, Continue, Reads
  <2>3. /\ DOMAIN export' = DOMAIN export /\ export'.pc = "reading"
        /\ export'.layers = Extend(export.layers, records)
    BY <1>1, <2>1, <2>2
  <2>4. Extend(export.layers, records) = LayersIn(Extend(export.layers, records))
    BY <1>1 DEF Extend, LayersIn
  <2> QED
    BY <1>1, <2>2, <2>3, <2>4, NothingIsWritten
<1>6. CASE RefuseRound
  <2>1. UNCHANGED <<output, manifest>> /\ export' = [export EXCEPT !.pc = "failed"]
    BY <1>6 DEF RefuseRound, FailExport, Continue
  <2> QED
    BY <1>1, <2>1, NothingIsWritten
<1>7. CASE Die
  <2>1. UNCHANGED <<output, manifest>> /\ export' = Off
    BY <1>7 DEF Die, Continue
  <2> QED
    BY <1>2, <2>1, NothingIsWritten
<1> QED
  BY <1>3, <1>4, <1>5, <1>6, <1>7, WriteOutputKeeps, WriteManifestKeeps DEF ExportNext

(* export_cycle: a manifest never vouches for files of more than one       *)
(* export, however the exporter dies and is started again, for all cycles. *)
THEOREM DatasetsAreWhole == ExportSpec => []DatasetIsWhole
<1>1. ExportInv => DatasetIsWhole
  <2> SUFFICES ASSUME ExportInv, FilesMatch
               PROVE  /\ DOMAIN output = ToSet(FileOrder) /\ ManifestMatches(Exported)
                      /\ output[Positives] = PositivesOf(Exported)
    BY DEF ExportInv, DatasetIsWhole
  <2>1. /\ IsAnExport(output) /\ manifest = ManifestSays(LayersIn(output), output)
    BY DEF ExportInv, FilesMatch
  <2>2. LayersIn(output) = Exported
    BY DEF LayersIn, LayerNames, Exported
  <2> QED
    BY <2>1, <2>2 DEF IsAnExport, FileNames, ManifestMatches
<1>2. ExportSpec => []ExportInv
  BY ExportInvInit, ExportInvNext, PTL DEF ExportSpec
<1> QED
  BY <1>1, <1>2, PTL

-------------------------------------------------------------------------------
(* SeedDatabase: the statements of the transaction.                        *)

LEMMA ClearLists == Lists(Clear, 17) /\ \A i \in 1..17 : Clear[i].do = "delete" /\ Clear[i].table = TablesToClear[i]
BY DEF Lists, Clear, TablesToClear, Statement

LEMMA UpgradesLists == Lists(Upgrades, 21)
<1> DEFINE rest ==
   <<<<"trace_step", "token_usage">>, <<"agent_run", "runtime_version">>,
    <<"anomaly_ground_truth", "scenario_id">>, <<"anomaly_ground_truth", "split">>,
    <<"anomaly_ground_truth", "seed">>, <<"anomaly_ground_truth", "profile">>,
    <<"anomaly_ground_truth", "root_causes">>, <<"anomaly_ground_truth", "confounders">>,
    <<"anomaly_ground_truth", "expected_behavior">>, <<"agent_run", "total_tokens">>,
    <<"agent_run", "total_latency_ms">>, <<"agent_run", "token_breakdown">>,
    <<"metric_definition", "metric_family">>, <<"metric_definition", "no_default">>,
    <<"sql_audit", "audit_key">>, <<"sql_audit", "uq_audit_key">>,
    <<"eval_case_result", "uq_eval_case">>, <<"eval_case_result", "checks">>>>
<1>1. Lists(EvidenceUpgrades, 3)
  BY DEF Lists, EvidenceUpgrades
<1>2. Lists(rest, 18)
  BY DEF Lists
<1>3. Upgrades = Cat(EvidenceUpgrades, rest)
  BY DEF Upgrades, Cat
<1> HIDE DEF rest
<1> QED
  BY <1>1, <1>2, <1>3, Joined

LEMMA SeedTables ==
  /\ Tables = {TablesToClear[i] : i \in 1..17}
  /\ FactTables = {FactOrder[i] : i \in 1..5}
  /\ SeededTables \subseteq Tables
  /\ SeededTables = FactTables \cup {"dim_product", "dim_user", "metric_definition",
                                     "memory_record", "anomaly_ground_truth"}
<1>1. Tables = {TablesToClear[i] : i \in 1..17}
  BY DEF Tables, ToSet, TablesToClear
<1>2. FactTables = {FactOrder[i] : i \in 1..5}
  BY DEF FactTables, ToSet, FactOrder
<1>3. 1..5 = {1, 2, 3, 4, 5} /\ 1..17 = {1, 2, 3, 4, 5, 6, 7, 8, 9, 10, 11, 12, 13, 14, 15, 16, 17}
  OBVIOUS
<1>4. FactTables = {"fact_campaign", "fact_inventory", "fact_traffic", "fact_order",
                    "fact_customer_ticket"}
  BY <1>2, <1>3 DEF FactOrder
<1>5. Tables = {"eval_case_result", "eval_run", "memory_record", "operation_task", "sql_audit",
                "evidence", "trace_step", "agent_run", "anomaly_ground_truth",
                "metric_definition", "fact_customer_ticket", "fact_campaign", "fact_inventory",
                "fact_traffic", "fact_order", "dim_user", "dim_product"}
  BY <1>1, <1>3 DEF TablesToClear
<1> QED
  BY <1>1, <1>2, <1>4, <1>5 DEF SeededTables

(* A statement that inserts rows of the seed, or collects them.            *)
Loads(x) ==
  /\ x = [do |-> x.do, table |-> x.table, what |-> x.what]
  /\ x.do \in {"insert", "add", "flush"}
  /\ x.table \in SeededTables /\ x.what \subseteq KeysOf(x.table)
  /\ x.do # "flush" => x.what # {}
  /\ x.do = "add" => x.table \in FactTables

LEMMA DimensionFacts ==
  /\ Lists(Dimensions, 5) /\ Lists(InsertGroundTruth, 1)
  /\ Dimensions[1] = Insert("dim_product", {1}) /\ Dimensions[2] = Insert("dim_user", {1})
  /\ Dimensions[3] = Insert("metric_definition", {1})
  /\ Dimensions[4] = Insert("memory_record", {1}) /\ Dimensions[5] = Insert("memory_record", {2})
  /\ InsertGroundTruth[1] = Insert("anomaly_ground_truth", {1})
<1>1. /\ Lists(InsertDimensions, 2) /\ Lists(InsertMetrics, 1) /\ Lists(InsertSemanticMemory, 1)
      /\ Lists(InsertTreatmentMemory, 1) /\ Lists(InsertGroundTruth, 1)
  BY DEF Lists, InsertDimensions, InsertMetrics, InsertSemanticMemory, InsertTreatmentMemory,
     InsertGroundTruth
<1>2. Dimensions = Cat(Cat(Cat(InsertDimensions, InsertMetrics), InsertSemanticMemory),
                       InsertTreatmentMemory)
  BY DEF Dimensions, Cat
<1>3. PICK a : a = Cat(InsertDimensions, InsertMetrics)
  OBVIOUS
<1>4. Lists(a, 3) /\ a[1] = InsertDimensions[1] /\ a[2] = InsertDimensions[2]
      /\ a[3] = InsertMetrics[1]
  BY <1>1, <1>3, Joined
<1>5. PICK b : b = Cat(a, InsertSemanticMemory)
  OBVIOUS
<1>6. Lists(b, 4) /\ b[1] = a[1] /\ b[2] = a[2] /\ b[3] = a[3] /\ b[4] = InsertSemanticMemory[1]
  BY <1>1, <1>4, <1>5, Joined
<1>7. Dimensions = Cat(b, InsertTreatmentMemory)
  BY <1>2, <1>3, <1>5
<1>8. /\ Lists(Dimensions, 5) /\ Dimensions[1] = b[1] /\ Dimensions[2] = b[2]
      /\ Dimensions[3] = b[3] /\ Dimensions[4] = b[4] /\ Dimensions[5] = InsertTreatmentMemory[1]
  BY <1>1, <1>6, <1>7, Joined
<1> QED
  BY <1>1, <1>4, <1>6, <1>8 DEF InsertDimensions, InsertMetrics, InsertSemanticMemory,
     InsertTreatmentMemory, InsertGroundTruth

(* The statements after Clear and Ensure, counted from there.              *)
LEMMA InsertsFacts ==
  LET last == 11 + 5 * Days IN
  /\ last \in Nat /\ Lists(Inserts, last)
  /\ \A i \in 1..5 : Inserts[i] = Dimensions[i]
  /\ \A i \in 1..(5 * Days) : Inserts[5 + i] = AddDay(i)
  /\ \A i \in 1..5 : Inserts[5 + 5 * Days + i] = Flush(i)
  /\ Inserts[last] = InsertGroundTruth[1]
<1> DEFINE n == 5 * Days
<1>1. n \in Nat /\ 11 + n \in Nat
  BY DaysAssumption
<1>2. Lists(AddDays, n) /\ Lists(FlushAll, 5) /\ Lists(Dimensions, 5) /\ Lists(InsertGroundTruth, 1)
  BY DimensionFacts DEF Lists, AddDays, FlushAll
<1>3. /\ \A i \in 1..n : AddDays[i] = AddDay(i)
      /\ \A i \in 1..5 : FlushAll[i] = Flush(i)
  BY DEF AddDays, FlushAll
<1>4. Inserts = Cat(Cat(Cat(Dimensions, AddDays), FlushAll), InsertGroundTruth)
  BY DEF Inserts, Cat
<1> HIDE DEF n
<1>5. PICK a : a = Cat(Dimensions, AddDays)
  OBVIOUS
<1>6. /\ Lists(a, 5 + n) /\ \A i \in 1..5 : a[i] = Dimensions[i]
      /\ \A i \in 1..n : a[5 + i] = AddDay(i)
  BY <1>1, <1>2, <1>3, <1>5, Joined
<1>7. PICK b : b = Cat(a, FlushAll)
  OBVIOUS
<1>8. /\ Lists(b, 5 + n + 5) /\ \A i \in 1..(5 + n) : b[i] = a[i]
      /\ \A i \in 1..5 : b[5 + n + i] = Flush(i)
  <2>1. 5 + n \in Nat
    BY <1>1
  <2> QED
    BY <1>2, <1>3, <1>6, <1>7, <2>1, Joined
<1>9. /\ Lists(Inserts, 5 + n + 5 + 1) /\ \A i \in 1..(5 + n + 5) : Inserts[i] = b[i]
      /\ \A i \in 1..1 : Inserts[5 + n + 5 + i] = InsertGroundTruth[i]
  <2>1. 5 + n + 5 \in Nat
    BY <1>1
  <2> QED
    BY <1>2, <1>4, <1>5, <1>7, <1>8, <2>1, Joined
<1>10. /\ \A i \in 1..5 : i \in 1..(5 + n + 5) /\ i \in 1..(5 + n)
       /\ \A i \in 1..n : 5 + i \in 1..(5 + n + 5) /\ 5 + i \in 1..(5 + n)
       /\ \A i \in 1..5 : 5 + n + i \in 1..(5 + n + 5)
       /\ 5 + n + 5 + 1 = 11 + n
  BY <1>1
<1>11. Lists(Inserts, 11 + n) /\ Inserts[11 + n] = InsertGroundTruth[1]
  BY <1>9, <1>10
<1>12. /\ \A i \in 1..5 : Inserts[i] = Dimensions[i]
       /\ \A i \in 1..n : Inserts[5 + i] = AddDay(i)
       /\ \A i \in 1..5 : Inserts[5 + n + i] = Flush(i)
  BY <1>6, <1>8, <1>9, <1>10
<1> QED
  BY <1>1, <1>11, <1>12 DEF n


(* The statements of the transaction: 17 deletes, 21 looks at the schema,  *)
(* and the inserts.                                                        *)
Final == 49 + 5 * Days

LEMMA TransactionLists ==
  /\ Final \in Nat /\ DOMAIN Transaction = 1..Final /\ Len(Transaction) = Final
  /\ \A i \in 1..17 : Transaction[i] = Clear[i]
  /\ \A i \in 1..21 : Transaction[17 + i] = Ensure[i]
  /\ \A i \in 1..(11 + 5 * Days) : Transaction[38 + i] = Inserts[i]
<1> DEFINE n == 11 + 5 * Days
<1>1. Lists(Ensure, 21)
  BY UpgradesLists DEF Ensure, Lists
<1>2. Lists(Clear, 17) /\ Lists(Inserts, n) /\ n \in Nat /\ Final = 38 + n
  BY ClearLists, InsertsFacts, DaysAssumption DEF Final
<1>3. Transaction = Cat(Cat(Clear, Ensure), Inserts)
  BY DEF Transaction, Cat
<1> HIDE DEF n
<1>4. PICK a : a = Cat(Clear, Ensure)
  OBVIOUS
<1>5. /\ Lists(a, 38) /\ \A i \in 1..17 : a[i] = Clear[i]
      /\ \A i \in 1..21 : a[17 + i] = Ensure[i]
  BY <1>1, <1>2, <1>4, Joined
<1>6. /\ Lists(Transaction, 38 + n) /\ \A i \in 1..38 : Transaction[i] = a[i]
      /\ \A i \in 1..n : Transaction[38 + i] = Inserts[i]
  BY <1>2, <1>3, <1>4, <1>5, Joined
<1>7. DOMAIN Transaction = 1..Final /\ Len(Transaction) = Final
  <2>1. Final \in Nat /\ Lists(Transaction, Final)
    BY <1>2, <1>6
  <2> QED
    BY <2>1, ListsLength
<1>8. /\ \A i \in 1..17 : Transaction[i] = Clear[i]
      /\ \A i \in 1..21 : Transaction[17 + i] = Ensure[i]
  BY <1>5, <1>6
<1>9. \A i \in 1..n : Transaction[38 + i] = Inserts[i]
  BY <1>6
<1>10. Final \in Nat
  BY <1>2
<1> QED
  BY <1>7, <1>8, <1>9, <1>10 DEF n

LEMMA KeysFacts ==
  /\ \A t \in FactTables : KeysOf(t) = 1..Days
  /\ KeysOf("memory_record") = {1, 2}
  /\ \A t \in {"dim_product", "dim_user", "metric_definition", "anomaly_ground_truth"} :
       KeysOf(t) = {1}
<1>1. 1..5 = {1, 2, 3, 4, 5}
  OBVIOUS
<1>2. FactTables = {"fact_campaign", "fact_inventory", "fact_traffic", "fact_order",
                    "fact_customer_ticket"}
  BY <1>1, SeedTables DEF FactOrder
<1> QED
  BY <1>2 DEF KeysOf

LEMMA LoadsFacts ==
  /\ \A i \in 1..5 : Loads(Dimensions[i]) /\ Loads(Flush(i))
  /\ Loads(InsertGroundTruth[1])
  /\ \A i \in 1..(5 * Days) : Loads(AddDay(i))
<1>1. ASSUME NEW t \in SeededTables, NEW K \in SUBSET KeysOf(t), K # {}
      PROVE  Loads(Insert(t, K))
  BY <1>1 DEF Loads, Insert, Statement
<1>2. ASSUME NEW i \in 1..5 PROVE Loads(Dimensions[i])
  <2>1. i \in {1, 2, 3, 4, 5}
    OBVIOUS
  <2>2. /\ Loads(Insert("dim_product", {1})) /\ Loads(Insert("dim_user", {1}))
        /\ Loads(Insert("metric_definition", {1}))
        /\ Loads(Insert("memory_record", {1})) /\ Loads(Insert("memory_record", {2}))
    <3>1. {1} # {} /\ {2} # {} /\ {1} \subseteq {1, 2} /\ {2} \subseteq {1, 2}
      OBVIOUS
    <3> QED
      BY <1>1, <3>1, KeysFacts, SeedTables
  <2> QED
    BY <2>1, <2>2, DimensionFacts
<1>3. ASSUME NEW i \in 1..5 PROVE Loads(Flush(i))
  BY SeedTables DEF Loads, Flush, Statement
<1>4. Loads(InsertGroundTruth[1])
  <2>1. Loads(Insert("anomaly_ground_truth", {1}))
    <3>1. {1} # {}
      OBVIOUS
    <3> QED
      BY <1>1, <3>1, KeysFacts, SeedTables
  <2> QED
    BY <2>1, DimensionFacts
<1>5. ASSUME NEW i \in 1..(5 * Days) PROVE Loads(AddDay(i))
  <2>1. ((i - 1) % 5) + 1 \in 1..5 /\ ((i - 1) \div 5) + 1 \in 1..Days
    BY DaysAssumption
  <2>2. FactOrder[((i - 1) % 5) + 1] \in FactTables
    BY <2>1, SeedTables
  <2> QED
    BY <2>1, <2>2, KeysFacts, SeedTables DEF Loads, AddDay, Statement
<1> QED
  BY <1>2, <1>3, <1>4, <1>5

LEMMA TransactionFacts ==
  /\ \A i \in 1..17 : Transaction[i].do = "delete" /\ Transaction[i].table = TablesToClear[i]
  /\ \A i \in 18..38 : Transaction[i].do = "ensure"
  /\ \A i \in 39..Final : Loads(Transaction[i])
<1>1. ASSUME NEW i \in 18..38 PROVE Transaction[i].do = "ensure"
  <2>1. i - 17 \in 1..21 /\ i = 17 + (i - 17)
    OBVIOUS
  <2>2. Ensure[i - 17].do = "ensure"
    BY <2>1, UpgradesLists DEF Ensure, Lists, Statement
  <2> QED
    BY <2>1, <2>2, TransactionLists
<1>2. ASSUME NEW i \in 39..Final PROVE Loads(Transaction[i])
  <2>1. PICK j : j = i - 38
    OBVIOUS
  <2>2. j \in 1..(11 + 5 * Days) /\ i = 38 + j /\ Transaction[i] = Inserts[j] /\ 5 * Days \in Nat
    <3>1. j \in 1..(11 + 5 * Days) /\ i = 38 + j /\ 5 * Days \in Nat
      BY <2>1, DaysAssumption DEF Final
    <3> QED
      BY <3>1, TransactionLists
  <2>3. \/ j \in 1..5
        \/ j - 5 \in 1..(5 * Days) /\ j = 5 + (j - 5)
        \/ j - (5 + 5 * Days) \in 1..5 /\ j = 5 + 5 * Days + (j - (5 + 5 * Days))
        \/ j = 11 + 5 * Days
    BY <2>2
  <2>4. CASE j - 5 \in 1..(5 * Days) /\ j = 5 + (j - 5)
    BY <2>2, <2>4, InsertsFacts, LoadsFacts
  <2>5. CASE j - (5 + 5 * Days) \in 1..5 /\ j = 5 + 5 * Days + (j - (5 + 5 * Days))
    BY <2>2, <2>5, InsertsFacts, LoadsFacts
  <2> QED
    BY <2>2, <2>3, <2>4, <2>5, InsertsFacts, LoadsFacts
<1> QED
  BY <1>1, <1>2, TransactionLists, ClearLists

(* All keys are inserted, and what is added to a list is flushed later.    *)
LEMMA AllKeysAreLoaded ==
  ASSUME NEW t \in SeededTables, NEW k \in KeysOf(t)
  PROVE  \E i \in 39..Final : Transaction[i].table = t /\ k \in Transaction[i].what
<1>1. CASE t \in FactTables
  <2>1. PICK j \in 1..5 : t = FactOrder[j]
    BY <1>1, SeedTables
  <2>2. k \in 1..Days
    BY <1>1, KeysFacts
  <2>3. PICK i : i = 5 * (k - 1) + j
    OBVIOUS
  <2>4. i \in 1..(5 * Days) /\ ((i - 1) % 5) + 1 = j /\ ((i - 1) \div 5) + 1 = k
    BY <2>2, <2>3, DaysAssumption
  <2>5. AddDay(i).table = t /\ k \in AddDay(i).what
    BY <2>1, <2>4 DEF AddDay, Statement
  <2>6. 43 + i \in 39..Final /\ Transaction[43 + i] = AddDay(i)
    <3>1. 5 + i \in 1..(11 + 5 * Days) /\ 38 + (5 + i) = 43 + i /\ 43 + i \in 39..Final
      BY <2>4, DaysAssumption DEF Final
    <3>2. PICK m : m = 5 + i
      OBVIOUS
    <3>3. Transaction[38 + m] = Inserts[m]
      BY <3>1, <3>2, TransactionLists
    <3>4. Inserts[5 + i] = AddDay(i)
      BY <2>4, InsertsFacts
    <3> QED
      BY <3>1, <3>2, <3>3, <3>4
  <2> QED
    BY <2>5, <2>6
<1>2. CASE t \notin FactTables
  <2>1. /\ 39 \in 39..Final /\ 40 \in 39..Final /\ 41 \in 39..Final /\ 42 \in 39..Final
        /\ 43 \in 39..Final /\ Final \in 39..Final
    BY DaysAssumption DEF Final
  <2>2. /\ Transaction[39] = Dimensions[1] /\ Transaction[40] = Dimensions[2]
        /\ Transaction[41] = Dimensions[3] /\ Transaction[42] = Dimensions[4]
        /\ Transaction[43] = Dimensions[5] /\ Transaction[Final] = InsertGroundTruth[1]
    <3>1. \A i \in 1..5 : i \in 1..(11 + 5 * Days)
      BY DaysAssumption
    <3>2. \A i \in 1..5 : Transaction[38 + i] = Dimensions[i]
      <4> SUFFICES ASSUME NEW i \in 1..5 PROVE Transaction[38 + i] = Dimensions[i]
        OBVIOUS
      <4>1. Transaction[38 + i] = Inserts[i] /\ Inserts[i] = Dimensions[i]
        BY <3>1, InsertsFacts, TransactionLists
      <4> QED
        BY <4>1
    <3>3. 11 + 5 * Days \in 1..(11 + 5 * Days) /\ Final = 38 + (11 + 5 * Days)
      BY DaysAssumption DEF Final
    <3>4. Transaction[Final] = InsertGroundTruth[1]
      BY <3>3, InsertsFacts, TransactionLists
    <3> QED
      BY <3>2, <3>4
  <2>3. t \in {"dim_product", "dim_user", "metric_definition", "memory_record",
               "anomaly_ground_truth"}
    BY <1>2, SeedTables
  <2>4. k = 1 \/ (t = "memory_record" /\ k = 2)
    BY <2>3, KeysFacts
  <2> QED
    BY <2>1, <2>2, <2>3, <2>4, DimensionFacts DEF Insert, Statement
<1> QED
  BY <1>1, <1>2

LEMMA ListsAreFlushed ==
  ASSUME NEW i \in 39..Final, Transaction[i].do = "add"
  PROVE  \E j \in (i + 1)..Final :
           Transaction[j].do = "flush" /\ Transaction[j].table = Transaction[i].table
<1>1. PICK m : m = i - 38
  OBVIOUS
<1>2. m \in 1..(11 + 5 * Days) /\ i = 38 + m /\ Transaction[i] = Inserts[m] /\ 5 * Days \in Nat
  <2>1. m \in 1..(11 + 5 * Days) /\ i = 38 + m /\ 5 * Days \in Nat
    BY <1>1, DaysAssumption DEF Final
  <2> QED
    BY <2>1, TransactionLists
<1>3. m < 6 + 5 * Days
  <2>1. CASE m - (5 + 5 * Days) \in 1..5 /\ m = 5 + 5 * Days + (m - (5 + 5 * Days))
    BY <1>2, <2>1, InsertsFacts DEF Flush, Statement
  <2>2. CASE m = 11 + 5 * Days
    BY <1>2, <2>2, InsertsFacts, DimensionFacts DEF Insert, Statement
  <2> QED
    BY <1>2, <2>1, <2>2
<1>4. PICK n \in 1..5 : Transaction[i].table = FactOrder[n]
  <2>1. Loads(Transaction[i])
    BY TransactionFacts
  <2>2. Transaction[i].table \in FactTables
    BY <2>1 DEF Loads
  <2> QED
    BY <2>2, SeedTables
<1>5. PICK j : j = 38 + (5 + 5 * Days + n)
  OBVIOUS
<1>6. j \in (i + 1)..Final /\ 5 + 5 * Days + n \in 1..(11 + 5 * Days)
  BY <1>2, <1>3, <1>5, DaysAssumption DEF Final
<1>7. Transaction[j] = Flush(n)
  BY <1>5, <1>6, InsertsFacts, TransactionLists
<1> QED
  BY <1>4, <1>6, <1>7 DEF Flush, Statement

USE DEF schema, database, control, open, lists

-------------------------------------------------------------------------------
(* The invariant.                                                          *)

SeedTypeOK ==
  /\ stored = [t \in Tables |-> stored[t]]
  /\ phase = [s \in Seeders |-> phase[s]]
  /\ at \in [Seeders -> 1..(Final + 1)]
  /\ erased \in [Seeders -> SUBSET Tables]
  /\ added \in [Seeders -> [Tables -> SUBSET (Seeders \X Nat)]]
  /\ waiting \in [Seeders -> [Tables -> SUBSET Nat]]
  /\ counts \in [Seeders -> [Tables -> Nat]]
  /\ before = [s \in Seeders |-> before[s]]
  /\ written \in Nat

HasEnded(s) == phase[s] \in {"ok", "failed"}
Cleared(n)  == {TablesToClear[i] : i \in 1..n}

HasNothing(s) == added[s] = NoRows /\ waiting[s] = NoRows /\ counts[s] = NoCounts

(* Where a seeder is, and what it has deleted: everything, until an ALTER  *)
(* TABLE commits it.                                                       *)
Place(s) ==
  /\ phase[s] \notin {"seeding", "altering"} => at[s] = 1 /\ erased[s] = {} /\ HasNothing(s)
  /\ phase[s] = "altering" => at[s] \in 18..38
  /\ at[s] <= 39 => HasNothing(s)
  /\ at[s] <= 17 => erased[s] = Cleared(at[s] - 1)
  /\ at[s] >= 18 => erased[s] \in {{}, Tables}

(* What it has inserted and what waits in its lists are rows of its own,   *)
(* counted, and no list is forgotten.                                      *)
Collected(s) ==
  \A t \in Tables :
    /\ added[s][t] \subseteq {s} \X KeysOf(t) /\ waiting[s][t] \subseteq KeysOf(t)
    /\ counts[s][t] = Cardinality(added[s][t])
    /\ t \notin SeededTables => added[s][t] = {}
    /\ waiting[s][t] # {} =>
         \E j \in at[s]..Final : Transaction[j].do = "flush" /\ Transaction[j].table = t

(* No key is lost between a list and a batch.                              *)
NoneLost(s) ==
  \A i \in 39..(at[s] - 1) : \A k \in Transaction[i].what :
    \/ k \in waiting[s][Transaction[i].table]
    \/ <<s, k>> \in added[s][Transaction[i].table]

IsEmpty == \A t \in SeededTables : SeededRows(t) = {}

(* A transaction that an ALTER has cut in two inserts only where there is  *)
(* nothing.                                                                *)
Clean(s) == added[s] # NoRows /\ erased[s] = {} => IsEmpty

(* What was there when the transaction began is from the past, and nothing *)
(* of it comes back once it is deleted.                                    *)
Past(s) ==
  phase[s] \in {"seeding", "altering"} =>
    \A t \in Tables :
      /\ \A x \in before[s][t] :
           /\ x[1] = Program => x[2] \in Nat /\ x[2] <= written
           /\ x[1] \in Seeders => HasEnded(x[1])
      /\ at[s] >= 18 /\ erased[s] = {} => stored[t] \cap before[s][t] = {}

Apart == \A r, s \in Seeders : r # s => Uses(r) \cap Uses(s) = {}

(* The rows that are committed: of the program, or of seeds that ended.    *)
RowsKnown ==
  \A t \in Tables : \A x \in stored[t] :
    /\ x = <<x[1], x[2]>>
    /\ x[1] = Program => x[2] \in Nat /\ x[2] <= written
    /\ x[1] \in Seeders => HasEnded(x[1])
    /\ t \notin SeededTables => x[1] = Program

Own(s) == Place(s) /\ Collected(s) /\ NoneLost(s)

SeedInv ==
  /\ SeedTypeOK /\ RowsKnown /\ Apart /\ DataIsOfOneSeed
  /\ \A s \in Seeders : Own(s) /\ Clean(s) /\ Past(s)

-------------------------------------------------------------------------------
(* Where the statements are.                                               *)
LEMMA StatementPlaces ==
  \A i \in 1..Final :
    /\ Transaction[i].do = "delete" <=> i \in 1..17
    /\ Transaction[i].do = "ensure" <=> i \in 18..38
    /\ Transaction[i].do \in {"insert", "add", "flush"} <=> i \in 39..Final
<1> SUFFICES ASSUME NEW i \in 1..Final
             PROVE  /\ Transaction[i].do = "delete" <=> i \in 1..17
                    /\ Transaction[i].do = "ensure" <=> i \in 18..38
                    /\ Transaction[i].do \in {"insert", "add", "flush"} <=> i \in 39..Final
  OBVIOUS
<1>1. i \in 1..17 \/ i \in 18..38 \/ i \in 39..Final
  <2>1. Final \in Nat
    BY TransactionLists
  <2> QED
    BY <2>1
<1>2. i \in 39..Final => Transaction[i].do \in {"insert", "add", "flush"}
  <2>1. i \in 39..Final => Loads(Transaction[i])
    BY TransactionFacts
  <2> QED
    BY <2>1 DEF Loads
<1> QED
  BY <1>1, <1>2, TransactionFacts

LEMMA EverythingCleared == Cleared(17) = Tables /\ Cleared(0) = {}
BY SeedTables DEF Cleared

LEMMA OneMoreCleared ==
  ASSUME NEW n \in 1..17
  PROVE  Cleared(n) = Cleared(n - 1) \cup {TablesToClear[n]} /\ TablesToClear[n] \in Tables
<1>1. 1..n = 1..(n - 1) \cup {n}
  OBVIOUS
<1> QED
  BY <1>1, SeedTables DEF Cleared

LEMMA NoRowsFacts ==
  /\ \A t \in Tables : NoRows[t] = {} /\ NoCounts[t] = 0
  /\ NoRows \in [Tables -> SUBSET (Seeders \X Nat)] /\ NoRows \in [Tables -> SUBSET Nat]
  /\ NoCounts \in [Tables -> Nat]
BY DEF NoRows, NoCounts

(* With nothing there is nothing to be said of the lists.                  *)
LEMMA NothingIsOwn ==
  ASSUME NEW s \in Seeders, HasNothing(s), at[s] \in 1..39
  PROVE  Collected(s) /\ NoneLost(s) /\ Clean(s)
<1>1. \A t \in Tables : added[s][t] = {} /\ waiting[s][t] = {} /\ counts[s][t] = 0
  BY NoRowsFacts DEF HasNothing
<1>2. Cardinality({}) = 0
  BY FS_EmptySet
<1>3. Collected(s)
  BY <1>1, <1>2 DEF Collected
<1>4. NoneLost(s) /\ Clean(s)
  BY DEF HasNothing, NoneLost, Clean
<1> QED
  BY <1>3, <1>4

(* The keys of a table, and the rows of a seeder.                          *)
LEMMA FiniteKeys ==
  ASSUME NEW t \in Tables, NEW K \in SUBSET KeysOf(t), NEW s
  PROVE  /\ IsFiniteSet(K) /\ IsFiniteSet({s} \X K) /\ Cardinality({s} \X K) = Cardinality(K)
         /\ Cardinality(K) \in Nat /\ K \subseteq Nat
<1>1. IsFiniteSet(KeysOf(t)) /\ KeysOf(t) \subseteq Nat
  <2>1. KeysOf(t) = 1..Days \/ KeysOf(t) = {1, 2} \/ KeysOf(t) = {1}
    BY DEF KeysOf
  <2>2. \A n \in Int : IsFiniteSet(1..n)
    BY FS_Interval
  <2>3. 1..2 = {1, 2} /\ 1..1 = {1} /\ Days \in Int
    BY DaysAssumption
  <2>4. IsFiniteSet(1..Days) /\ IsFiniteSet({1, 2}) /\ IsFiniteSet({1})
    <3>1. 1 \in Int /\ 2 \in Int
      OBVIOUS
    <3>2. IsFiniteSet(1..2)
      BY <2>2, <3>1
    <3>3. IsFiniteSet(1..1)
      BY <2>2, <3>1
    <3>4. IsFiniteSet(1..Days)
      BY <2>2, <2>3
    <3> QED
      BY <2>3, <3>2, <3>3, <3>4
  <2>5. 1..Days \subseteq Nat /\ {1, 2} \subseteq Nat /\ {1} \subseteq Nat
    BY DaysAssumption
  <2> QED
    BY <2>1, <2>4, <2>5
<1>2. IsFiniteSet(K) /\ Cardinality(K) \in Nat
  BY <1>1, FS_Subset, FS_CardinalityType
<1>3. IsFiniteSet({s}) /\ Cardinality({s}) = 1
  BY FS_Singleton
<1>4. IsFiniteSet({s} \X K) /\ Cardinality({s} \X K) = Cardinality({s}) * Cardinality(K)
  BY <1>2, <1>3, FS_Product
<1> QED
  BY <1>1, <1>2, <1>3, <1>4

(* What another seeder's step leaves alone.                                *)
Unmoved(q) ==
  /\ phase'[q] = phase[q] /\ at'[q] = at[q] /\ before'[q] = before[q]
  /\ erased'[q] = erased[q] /\ added'[q] = added[q]
  /\ waiting'[q] = waiting[q] /\ counts'[q] = counts[q]

OthersUnmoved(s) == \A q \in Seeders \ {s} : Unmoved(q)

(* No row is new, and no seeder that ended is at work again.               *)
Shrinks == /\ \A t \in Tables : stored'[t] \subseteq stored[t]
           /\ written' = written
           /\ \A q \in Seeders : HasEnded(q) => HasEnded(q)'

LEMMA OwnStays ==
  ASSUME NEW q \in Seeders, Own(q), Unmoved(q)
  PROVE  Own(q)'
BY DEF Own, Place, Collected, NoneLost, HasNothing, Unmoved

LEMMA ShrinksKeeps ==
  ASSUME NEW q \in Seeders, Shrinks, Unmoved(q), Clean(q), Past(q)
  PROVE  Clean(q)' /\ Past(q)'
<1>1. Clean(q)'
  BY SeedTables DEF Clean, Shrinks, Unmoved, IsEmpty, SeededRows
<1>2. Past(q)'
  BY DEF Past, Shrinks, Unmoved
<1> QED
  BY <1>1, <1>2

LEMMA ShrinksKnows ==
  ASSUME RowsKnown, Shrinks
  PROVE  RowsKnown'
BY DEF RowsKnown, Shrinks

LEMMA StaysApart ==
  ASSUME NEW s \in Seeders, Apart, OthersUnmoved(s),
         \A q \in Seeders \ {s} : Uses(s)' \cap Uses(q) = {}
  PROVE  Apart'
<1>1. \A q \in Seeders \ {s} : Uses(q)' = Uses(q)
  BY DEF OthersUnmoved, Unmoved, Uses
<1> QED
  BY <1>1 DEF Apart

(* A step of a seeder that adds no row to the committed data.              *)
LEMMA StepKeeps ==
  ASSUME NEW s \in Seeders, SeedInv, SeedTypeOK', OthersUnmoved(s), Shrinks,
         \A q \in Seeders \ {s} : Uses(s)' \cap Uses(q) = {},
         Own(s)', Clean(s)', Past(s)', DataIsOfOneSeed'
  PROVE  SeedInv'
<1>1. RowsKnown' /\ Apart'
  BY ShrinksKnows, StaysApart DEF SeedInv
<1>2. ASSUME NEW q \in Seeders PROVE Own(q)' /\ Clean(q)' /\ Past(q)'
  <2>1. CASE q = s
    BY <2>1
  <2>2. CASE q # s
    BY <2>2, OwnStays, ShrinksKeeps DEF SeedInv, OthersUnmoved
  <2> QED
    BY <2>1, <2>2
<1> QED
  BY <1>1, <1>2 DEF SeedInv

LEMMA SameData ==
  ASSUME DataIsOfOneSeed, stored' = stored
  PROVE  DataIsOfOneSeed'
BY DEF DataIsOfOneSeed, SeededRows

LEMMA SameUses ==
  ASSUME NEW s \in Seeders, SeedInv, erased'[s] \subseteq erased[s],
         added'[s] = added[s] \/ added'[s] = NoRows
  PROVE  \A q \in Seeders \ {s} : Uses(s)' \cap Uses(q) = {}
<1>1. Uses(s)' \subseteq Uses(s)
  BY NoRowsFacts DEF Uses
<1> QED
  BY <1>1 DEF SeedInv, Apart

LEMMA FirstPlace == 1 \in 1..(Final + 1)
<1>1. Final \in Nat
  BY DaysAssumption DEF Final
<1> QED
  BY <1>1

LEMMA InitHolds == Init => SeedInv
<1> SUFFICES ASSUME Init PROVE SeedInv
  OBVIOUS
<1>1. SeedTypeOK
  <2>1. stored = [t \in Tables |-> stored[t]]
    BY DEF Init, NoRows
  <2> QED
    BY <2>1, FirstPlace, NoRowsFacts DEF Init, SeedTypeOK
<1>2. RowsKnown /\ DataIsOfOneSeed
  <2>1. CASE stored = NoRows
    BY <2>1, NoRowsFacts, SeedTables DEF RowsKnown, DataIsOfOneSeed, SeededRows
  <2>2. CASE stored = [t \in Tables |->
          (IF t \in SeededTables THEN Full(t, Earlier) ELSE {})
            \cup (IF t \in ProgramTables THEN {<<Program, 0>>} ELSE {})]
    <3>1. Earlier # Program /\ Program \notin Seeders /\ Earlier \notin Seeders /\ written = 0
      BY SeedersAssumption DEF Init, Earlier, Program
    <3>2. RowsKnown
      BY <2>2, <3>1 DEF RowsKnown, Full
    <3>3. \A t \in SeededTables : SeededRows(t) = Full(t, Earlier)
      BY <2>2, <3>1, SeedTables DEF SeededRows, Full
    <3> QED
      BY <3>2, <3>3 DEF DataIsOfOneSeed
  <2> QED
    BY <2>1, <2>2 DEF Init
<1>3. ASSUME NEW s \in Seeders
      PROVE  /\ phase[s] = "idle" /\ at[s] = 1 /\ erased[s] = {} /\ added[s] = NoRows
             /\ waiting[s] = NoRows /\ counts[s] = NoCounts /\ before[s] = NoRows
  BY DEF Init
<1>4. Apart
  BY <1>3, NoRowsFacts DEF Apart, Uses
<1>5. ASSUME NEW s \in Seeders PROVE Own(s) /\ Clean(s) /\ Past(s)
  <2>1. Place(s)
    BY <1>3, EverythingCleared DEF Place, HasNothing
  <2>2. Collected(s) /\ NoneLost(s) /\ Clean(s)
    BY <1>3, NothingIsOwn DEF HasNothing
  <2> QED
    BY <1>3, <2>1, <2>2 DEF Own, Past
<1> QED
  BY <1>1, <1>2, <1>4, <1>5 DEF SeedInv

(* A transaction that is rolled back, or ended, leaves nothing.            *)
LEMMA EndHolds ==
  ASSUME NEW s \in Seeders, NEW how \in {"ok", "failed"}, SeedInv, End(s, how)
  PROVE  /\ Own(s)' /\ Clean(s)' /\ Past(s)' /\ OthersUnmoved(s)
         /\ stored' = [t \in Tables |-> stored'[t]] /\ written' \in Nat => SeedTypeOK'
         /\ \A q \in Seeders \ {s} : Uses(s)' \cap Uses(q) = {}
         /\ \A q \in Seeders : HasEnded(q) => HasEnded(q)'
         /\ HasEnded(s)'
<1>1. /\ phase'[s] = how /\ at'[s] = 1 /\ erased'[s] = {} /\ added'[s] = NoRows
      /\ waiting'[s] = NoRows /\ counts'[s] = NoCounts /\ before'[s] = NoRows
  BY DEF SeedInv, SeedTypeOK, End, EndTransaction
<1>2. OthersUnmoved(s)
  BY DEF OthersUnmoved, Unmoved, SeedInv, SeedTypeOK, End, EndTransaction
<1>3. Place(s)'
  <2>1. Cleared(1 - 1) = {} /\ HasNothing(s)'
    BY <1>1, EverythingCleared DEF HasNothing
  <2> QED
    BY <1>1, <2>1 DEF Place
<1>4. Collected(s)' /\ NoneLost(s)' /\ Clean(s)'
  <2>1. Cardinality({}) = 0
    BY FS_EmptySet
  <2>2. \A t \in Tables : added'[s][t] = {} /\ waiting'[s][t] = {} /\ counts'[s][t] = 0
    BY <1>1, NoRowsFacts
  <2>3. Collected(s)'
    BY <2>1, <2>2 DEF Collected
  <2>4. NoneLost(s)' /\ Clean(s)'
    BY <1>1 DEF NoneLost, Clean
  <2> QED
    BY <2>3, <2>4
<1>5. Past(s)'
  BY <1>1 DEF Past
<1>6. stored' = [t \in Tables |-> stored'[t]] /\ written' \in Nat => SeedTypeOK'
  BY FirstPlace, NoRowsFacts DEF SeedInv, SeedTypeOK, End, EndTransaction
<1>7. \A q \in Seeders \ {s} : Uses(s)' \cap Uses(q) = {}
  BY <1>1, SameUses
<1>8. HasEnded(s)' /\ \A q \in Seeders : HasEnded(q) => HasEnded(q)'
  BY <1>1, <1>2 DEF HasEnded, OthersUnmoved, Unmoved
<1> QED
  BY <1>2, <1>3, <1>4, <1>5, <1>6, <1>7, <1>8 DEF Own

LEMMA StopHolds ==
  ASSUME NEW s \in Seeders, SeedInv, Stop(s), UNCHANGED <<stored, written>>
  PROVE  SeedInv'
<1>1. End(s, "failed")
  BY DEF Stop
<1>2. stored' = [t \in Tables |-> stored'[t]] /\ written' \in Nat
  BY DEF SeedInv, SeedTypeOK
<1>3. Shrinks
  BY <1>1, EndHolds DEF Shrinks
<1>4. DataIsOfOneSeed'
  BY SameData DEF SeedInv
<1> QED
  BY <1>1, <1>2, <1>3, <1>4, EndHolds, StepKeeps

LEMMA StartHolds ==
  ASSUME NEW s \in Seeders, SeedInv, Start(s) \/ NotReached(s)
  PROVE  SeedInv'
<1> USE DEF Start, NotReached
<1>1. /\ UNCHANGED <<stored, at, erased, added, waiting, counts, before, written>>
      /\ phase[s] \in {"idle", "waiting"} /\ phase'[s] \in {"waiting", "refused", "failed"}
  BY DEF SeedInv, SeedTypeOK
<1>2. SeedTypeOK' /\ OthersUnmoved(s)
  BY DEF SeedInv, SeedTypeOK, OthersUnmoved, Unmoved
<1>3. Shrinks /\ DataIsOfOneSeed'
  BY <1>1, <1>2, SameData DEF SeedInv, Shrinks, HasEnded, OthersUnmoved, Unmoved
<1>4. Own(s)' /\ Clean(s)' /\ Past(s)'
  <2>1. Own(s) /\ Clean(s)
    BY DEF SeedInv
  <2> QED
    BY <1>1, <2>1 DEF Own, Place, Collected, NoneLost, HasNothing, Clean, IsEmpty, SeededRows, Past
<1>5. \A q \in Seeders \ {s} : Uses(s)' \cap Uses(q) = {}
  BY <1>1, SameUses
<1> QED
  BY <1>2, <1>3, <1>4, <1>5, StepKeeps

LEMMA ReachedHolds ==
  ASSUME NEW s \in Seeders, SeedInv, Reached(s)
  PROVE  SeedInv'
<1> USE DEF Reached
<1>1. /\ UNCHANGED <<stored, at, erased, added, waiting, counts, written>>
      /\ phase[s] = "waiting" /\ phase'[s] \in {"seeding", "refused"} /\ before'[s] = stored
  BY DEF SeedInv, SeedTypeOK
<1>2. SeedTypeOK' /\ OthersUnmoved(s)
  BY DEF SeedInv, SeedTypeOK, OthersUnmoved, Unmoved
<1>3. Shrinks /\ DataIsOfOneSeed'
  BY <1>1, <1>2, SameData DEF SeedInv, Shrinks, HasEnded, OthersUnmoved, Unmoved
<1>4. Own(s) /\ Clean(s) /\ RowsKnown
  BY DEF SeedInv
<1>5. at[s] = 1 /\ erased[s] = {} /\ HasNothing(s)
  BY <1>1, <1>4 DEF Own, Place
<1>6. Place(s)'
  <2>1. Cleared(1 - 1) = {}
    BY EverythingCleared
  <2> QED
    BY <1>1, <1>5, <2>1 DEF Place, HasNothing
<1>7. Collected(s)' /\ NoneLost(s)' /\ Clean(s)'
  BY <1>1, <1>4 DEF Own, Collected, NoneLost, Clean, IsEmpty, SeededRows
<1>8. Past(s)'
  <2>1. \A q \in Seeders : HasEnded(q) => HasEnded(q)'
    BY <1>3 DEF Shrinks
  <2> QED
    BY <1>1, <1>4, <1>5, <2>1 DEF Past, RowsKnown
<1>9. \A q \in Seeders \ {s} : Uses(s)' \cap Uses(q) = {}
  BY <1>1, SameUses
<1> QED
  BY <1>2, <1>3, <1>6, <1>7, <1>8, <1>9, StepKeeps DEF Own

(* A seeder at work is at a statement, and at which tells what it has.     *)
LEMMA AtWork ==
  ASSUME NEW s \in Seeders, SeedInv, NEW do, Doing(s, do)
  PROVE  /\ at[s] \in 1..Final /\ phase[s] = "seeding" /\ ~HasEnded(s)
         /\ do = "delete" => at[s] \in 1..17
         /\ do = "ensure" => at[s] \in 18..38
         /\ do \in {"insert", "add", "flush"} => at[s] \in 39..Final
<1>1. at[s] \in 1..Final /\ Transaction[at[s]].do = do /\ phase[s] = "seeding"
  BY TransactionLists DEF Doing, Now
<1> QED
  BY <1>1, StatementPlaces DEF HasEnded

(* A table that is not locked is used by no other seeder.                  *)
LEMMA NotLocked ==
  ASSUME NEW s \in Seeders, NEW t, ~LockedFor(s, t), SeedInv,
         Uses(s)' \subseteq Uses(s) \cup {t}
  PROVE  \A q \in Seeders \ {s} : Uses(s)' \cap Uses(q) = {}
BY DEF LockedFor, SeedInv, Apart

LEMMA DeleteHolds ==
  ASSUME NEW s \in Seeders, SeedInv, Delete(s)
  PROVE  SeedInv'
<1> USE DEF Delete, Go, GoTo
<1>1. PICK n : n = at[s]
  OBVIOUS
<1>2. n \in 1..17 /\ phase[s] = "seeding" /\ ~HasEnded(s) /\ n + 1 \in 1..(Final + 1) /\ Now(s).table = TablesToClear[n]
  <2>1. n \in 1..17 /\ phase[s] = "seeding" /\ ~HasEnded(s) /\ n \in 1..Final
    BY <1>1, AtWork
  <2>2. n + 1 \in 1..(Final + 1)
    BY <2>1, TransactionLists
  <2> QED
    BY <1>1, <2>1, <2>2, TransactionFacts DEF Now
<1>3. PICK t : t = TablesToClear[n]
  OBVIOUS
<1>4. Cleared(n) = Cleared(n - 1) \cup {t} /\ t \in Tables
  BY <1>2, <1>3, OneMoreCleared
<1>5. Own(s) /\ Clean(s) /\ Past(s) /\ SeedTypeOK
  BY DEF SeedInv
<1>6. HasNothing(s) /\ erased[s] = Cleared(n - 1)
  BY <1>1, <1>2, <1>5 DEF Own, Place
<1>7. /\ UNCHANGED <<stored, phase, added, waiting, counts, before, written>>
      /\ erased'[s] = Cleared(n) /\ at'[s] = n + 1
  BY <1>1, <1>2, <1>3, <1>4, <1>5, <1>6 DEF SeedTypeOK
<1>8. SeedTypeOK' /\ OthersUnmoved(s)
  BY <1>1, <1>2, <1>3, <1>4, <1>5 DEF SeedTypeOK, OthersUnmoved, Unmoved
<1>9. Shrinks /\ DataIsOfOneSeed'
  BY <1>7, SameData DEF SeedInv, Shrinks, HasEnded
<1>10. HasNothing(s)'
  BY <1>6, <1>7 DEF HasNothing
<1>11. Place(s)'
  <2>1. n + 1 = 18 => Cleared(n) = Tables
    <3>1. n + 1 = 18 => n = 17
      BY <1>2
    <3> QED
      BY <3>1, EverythingCleared
  <2>2. n + 1 \in 1..18 /\ (n + 1) - 1 = n
    BY <1>2
  <2> QED
    BY <1>2, <1>7, <1>10, <2>1, <2>2 DEF Place
<1>12. Collected(s)' /\ NoneLost(s)' /\ Clean(s)'
  <2>1. n + 1 \in 1..39
    BY <1>2
  <2>2. \A u \in Tables : added'[s][u] = {} /\ waiting'[s][u] = {} /\ counts'[s][u] = 0
    BY <1>10, NoRowsFacts DEF HasNothing
  <2>3. Collected(s)'
    BY <2>2, FS_EmptySet DEF Collected
  <2>4. NoneLost(s)'
    BY <1>7, <2>1 DEF NoneLost
  <2> QED
    BY <1>10, <2>3, <2>4 DEF Clean, HasNothing
<1>13. Past(s)'
  <2>1. erased'[s] # {}
    BY <1>4, <1>7
  <2> QED
    BY <1>2, <1>5, <1>7, <2>1 DEF Past, HasEnded
<1>14. \A q \in Seeders \ {s} : Uses(s)' \cap Uses(q) = {}
  <2>1. Uses(s)' \subseteq Uses(s) \cup {t}
    BY <1>4, <1>6, <1>7 DEF Uses
  <2> QED
    BY <1>2, <1>3, <2>1, NotLocked
<1> QED
  BY <1>8, <1>9, <1>11, <1>12, <1>13, <1>14, StepKeeps DEF Own

(* Steps on the schema: only the place changes, and it stays before the    *)
(* first insert.                                                           *)
LEMMA MovesHold ==
  ASSUME NEW s \in Seeders, SeedInv, at[s] \in 18..38, NEW n \in 18..39,
         phase[s] \in {"seeding", "altering"}, phase'[s] = "seeding",
         phase' = [phase EXCEPT ![s] = "seeding"], at' = [at EXCEPT ![s] = n],
         UNCHANGED <<stored, erased, added, waiting, counts, before, written>>
  PROVE  SeedInv'
<1>1. Own(s) /\ Clean(s) /\ Past(s) /\ SeedTypeOK
  BY DEF SeedInv
<1>2. at'[s] = n
  BY <1>1 DEF SeedTypeOK
<1>3. SeedTypeOK' /\ OthersUnmoved(s)
  <2>1. n \in 1..(Final + 1)
    BY DaysAssumption DEF Final
  <2> QED
    BY <1>1, <2>1 DEF SeedTypeOK, OthersUnmoved, Unmoved
<1>4. Shrinks /\ DataIsOfOneSeed'
  BY <1>3, SameData DEF SeedInv, Shrinks, HasEnded, OthersUnmoved, Unmoved
<1>5. HasNothing(s) /\ erased[s] \in {{}, Tables}
  BY <1>1 DEF Own, Place
<1>6. Place(s)'
  BY <1>2, <1>5 DEF Place, HasNothing
<1>7. Collected(s)' /\ NoneLost(s)' /\ Clean(s)'
  <2>1. \A u \in Tables : added'[s][u] = {} /\ waiting'[s][u] = {} /\ counts'[s][u] = 0
    BY <1>5, NoRowsFacts DEF HasNothing
  <2>2. Collected(s)'
    BY <2>1, FS_EmptySet DEF Collected
  <2>3. NoneLost(s)'
    BY <1>2 DEF NoneLost
  <2> QED
    BY <1>5, <2>2, <2>3 DEF Clean, HasNothing
<1>8. Past(s)'
  BY <1>1, <1>2, <1>4 DEF Past, Shrinks
<1>9. \A q \in Seeders \ {s} : Uses(s)' \cap Uses(q) = {}
  BY SameUses
<1> QED
  BY <1>3, <1>4, <1>6, <1>7, <1>8, <1>9, StepKeeps DEF Own

LEMMA TheLastBefore ==
  ASSUME NEW a \in 18..38, NEW f \in Nat, NEW n \in (a + 1)..(f + 1)
  PROVE  n - 1 \in a..(n - 1) /\ n - 1 \in 1..f /\ n \in 18..(f + 1)
OBVIOUS

LEMMA PresentHolds ==
  ASSUME NEW s \in Seeders, SeedInv, Present(s)
  PROVE  SeedInv'
<1>1. at[s] \in 18..38 /\ phase[s] = "seeding"
  BY AtWork DEF Present
<1>2. PICK n \in (at[s] + 1)..(Len(Transaction) + 1) :
        /\ \A m \in at[s]..(n - 1) : IsPresent(m)
        /\ GoTo(s, n)
  BY DEF Present
<1>3. n \in 18..39
  <2>1. n - 1 \in at[s]..(n - 1) /\ n - 1 \in 1..Final /\ n \in 18..(Final + 1)
    <3>1. Len(Transaction) = Final /\ Final \in Nat
      BY TransactionLists
    <3> QED
      BY <1>1, <3>1, TheLastBefore
  <2>2. Transaction[n - 1].do = "ensure"
    BY <1>2, <2>1 DEF IsPresent
  <2>3. n - 1 \in 18..38
    BY <2>1, <2>2, StatementPlaces
  <2> QED
    BY <2>1, <2>3
<1>4. phase' = [phase EXCEPT ![s] = "seeding"] /\ phase'[s] = "seeding"
  BY <1>1, <1>2 DEF GoTo, SeedInv, SeedTypeOK
<1> QED
  BY <1>1, <1>2, <1>3, <1>4, MovesHold DEF GoTo, Present

LEMMA AlterHolds ==
  ASSUME NEW s \in Seeders, SeedInv, Alter(s)
  PROVE  SeedInv'
<1>1. CASE Now(s).what \in missing
  <2>1. at[s] \in 18..38 /\ phase[s] = "altering"
    BY DEF Alter, SeedInv, Own, Place
  <2>2. at[s] + 1 \in 18..39
    BY <2>1
  <2>3. phase' = [phase EXCEPT ![s] = "seeding"] /\ at' = [at EXCEPT ![s] = at[s] + 1]
    BY <1>1 DEF Alter
  <2>4. phase'[s] = "seeding"
    BY <2>3 DEF SeedInv, SeedTypeOK
  <2>5. UNCHANGED <<stored, erased, added, waiting, counts, before, written>>
    BY <1>1 DEF Alter
  <2> QED
    BY <2>1, <2>2, <2>3, <2>4, <2>5, MovesHold
<1>2. CASE Now(s).what \notin missing
  BY <1>2, StopHolds DEF Alter
<1> QED
  BY <1>1, <1>2

LEMMA AbsentHolds ==
  ASSUME NEW s \in Seeders, SeedInv, Absent(s)
  PROVE  SeedInv'
<1> USE DEF Absent, EndTransaction
<1>1. at[s] \in 18..38 /\ phase[s] = "seeding" /\ ~HasEnded(s)
  BY AtWork
<1>2. Own(s) /\ Clean(s) /\ Past(s) /\ SeedTypeOK /\ DataIsOfOneSeed
  BY DEF SeedInv
<1>3. HasNothing(s) /\ erased[s] \in {{}, Tables}
  BY <1>1, <1>2 DEF Own, Place
<1>4. /\ erased'[s] = {} /\ added'[s] = NoRows /\ phase'[s] = "altering"
      /\ UNCHANGED <<at, waiting, counts, before, written>>
  BY <1>2 DEF SeedTypeOK
<1>5. \A t \in Tables : stored'[t] = IF erased[s] = {} THEN stored[t] ELSE {}
  BY <1>3, NoRowsFacts DEF Committed, HasNothing
<1>6. SeedTypeOK' /\ OthersUnmoved(s)
  BY <1>2, NoRowsFacts DEF SeedTypeOK, OthersUnmoved, Unmoved, Committed
<1>7. Shrinks
  BY <1>1, <1>4, <1>5, <1>6 DEF Shrinks, HasEnded, OthersUnmoved, Unmoved
<1>8. DataIsOfOneSeed'
  <2>1. CASE erased[s] = {}
    <3>1. \A t \in SeededTables : SeededRows(t)' = SeededRows(t)
      BY <1>5, <2>1, SeedTables DEF SeededRows
    <3> QED
      BY <1>2, <3>1 DEF DataIsOfOneSeed
  <2>2. CASE erased[s] # {}
    <3>1. \A t \in SeededTables : SeededRows(t)' = {}
      BY <1>5, <2>2, SeedTables DEF SeededRows
    <3> QED
      BY <3>1 DEF DataIsOfOneSeed
  <2> QED
    BY <2>1, <2>2
<1>9. HasNothing(s)'
  BY <1>3, <1>4 DEF HasNothing
<1>10. Place(s)'
  BY <1>1, <1>4, <1>9 DEF Place
<1>11. Collected(s)' /\ NoneLost(s)' /\ Clean(s)'
  <2>1. \A u \in Tables : added'[s][u] = {} /\ waiting'[s][u] = {} /\ counts'[s][u] = 0
    BY <1>9, NoRowsFacts DEF HasNothing
  <2>2. Collected(s)'
    BY <2>1, FS_EmptySet DEF Collected
  <2>3. NoneLost(s)'
    BY <1>1, <1>4 DEF NoneLost
  <2> QED
    BY <1>9, <2>2, <2>3 DEF Clean, HasNothing
<1>12. Past(s)'
  BY <1>1, <1>2, <1>4, <1>5, <1>7 DEF Past, Shrinks
<1>13. \A q \in Seeders \ {s} : Uses(s)' \cap Uses(q) = {}
  BY <1>4, SameUses
<1> QED
  BY <1>6, <1>7, <1>8, <1>10, <1>11, <1>12, <1>13, StepKeeps DEF Own

(* The statement, its table and the batch of a seeder that loads rows.     *)
LEMMA AtLoad ==
  ASSUME NEW s \in Seeders, SeedInv, Inserting(s)
  PROVE  /\ at[s] \in 39..Final /\ at[s] + 1 \in 40..(Final + 1)
         /\ phase[s] = "seeding" /\ ~HasEnded(s)
         /\ Loads(Now(s)) /\ Now(s).table \in SeededTables /\ Now(s).table \in Tables
         /\ Batch(s) \subseteq KeysOf(Now(s).table)
         /\ erased[s] \in {{}, Tables}
<1>1. at[s] \in 39..Final /\ phase[s] = "seeding" /\ ~HasEnded(s)
  BY AtWork DEF Inserting
<1>2. Loads(Now(s)) /\ Now(s).table \in SeededTables /\ Now(s).table \in Tables
  BY <1>1, TransactionFacts, SeedTables DEF Now, Loads
<1>3. at[s] + 1 \in 40..(Final + 1)
  <2>1. Final \in Nat
    BY TransactionLists
  <2> QED
    BY <1>1, <2>1
<1>4. Own(s)
  BY DEF SeedInv
<1>5. Batch(s) \subseteq KeysOf(Now(s).table)
  BY <1>2, <1>4 DEF Batch, Loads, Own, Collected
<1> QED
  BY <1>1, <1>2, <1>3, <1>4, <1>5 DEF Own, Place

LEMMA KeysAreNumbers ==
  ASSUME NEW t \in Tables
  PROVE  KeysOf(t) \subseteq Nat
BY FiniteKeys

(* What a load does to the rows of its table keeps every row its own.      *)
LEMMA LoadKeeps ==
  ASSUME NEW s \in Seeders, SeedInv, Inserting(s), OthersUnmoved(s), SeedTypeOK',
         UNCHANGED <<stored, phase, erased, before, written>>, at'[s] = at[s] + 1,
         Collected(s)', NoneLost(s)', Clean(s)',
         \A q \in Seeders \ {s} : Uses(s)' \cap Uses(q) = {}
  PROVE  SeedInv'
<1>1. Own(s) /\ Past(s)
  BY DEF SeedInv
<1>2. at[s] \in 39..Final /\ at'[s] \in 40..(Final + 1) /\ phase[s] = "seeding"
      /\ erased[s] \in {{}, Tables}
  BY AtLoad
<1>3. Place(s)'
  BY <1>2 DEF Place
<1>4. Past(s)'
  BY <1>1, <1>2 DEF Past, HasEnded
<1>5. Shrinks
  BY DEF Shrinks, HasEnded
<1>6. DataIsOfOneSeed'
  BY SameData DEF SeedInv
<1> QED
  BY <1>3, <1>4, <1>5, <1>6, StepKeeps DEF Own

(* One value of a function of functions is replaced.                       *)
Replaced(f, s, t, v) == [f EXCEPT ![s][t] = v]
PerTable(V) == [Seeders -> [Tables -> V]]

LEMMA OneReplaced ==
  ASSUME NEW V, NEW f, f \in PerTable(V), NEW s \in Seeders, NEW t \in Tables, NEW v \in V
  PROVE  /\ Replaced(f, s, t, v) \in PerTable(V) /\ Replaced(f, s, t, v)[s][t] = v
         /\ \A u \in Tables : u # t => Replaced(f, s, t, v)[s][u] = f[s][u]
BY DEF Replaced, PerTable

LEMMA CollectHolds ==
  ASSUME NEW s \in Seeders, SeedInv, CollectRows(s)
  PROVE  SeedInv'
<1>1. Own(s) /\ Clean(s) /\ SeedTypeOK
  BY DEF SeedInv
<1>2. PICK t : t = Now(s).table
  OBVIOUS
<1>3. PICK B : B = Batch(s)
  OBVIOUS
<1>4. /\ at[s] \in 39..Final /\ at[s] + 1 \in 40..(Final + 1)
      /\ Loads(Now(s)) /\ t \in SeededTables /\ t \in Tables /\ B \subseteq KeysOf(t)
  BY <1>2, <1>3, AtLoad DEF CollectRows
<1>5. /\ waiting' = [waiting EXCEPT ![s][t] = B] /\ at' = [at EXCEPT ![s] = at[s] + 1]
      /\ UNCHANGED <<stored, phase, erased, added, counts, before, written>>
  BY <1>2, <1>3 DEF CollectRows, Go, GoTo
<1>6. /\ waiting'[s][t] = B /\ at'[s] = at[s] + 1
      /\ \A u \in Tables : u # t => waiting'[s][u] = waiting[s][u]
  BY <1>1, <1>4, <1>5 DEF SeedTypeOK
<1>7. B \subseteq Nat
  BY <1>4, KeysAreNumbers
<1>8. OthersUnmoved(s)
  BY <1>1, <1>5 DEF SeedTypeOK, OthersUnmoved, Unmoved
<1>9. SeedTypeOK'
  <2>1. waiting' \in [Seeders -> [Tables -> SUBSET Nat]]
    <3>1. PICK V : V = SUBSET Nat
      OBVIOUS
    <3>2. waiting \in PerTable(V) /\ B \in V
      BY <1>1, <1>7, <3>1 DEF SeedTypeOK, PerTable
    <3>3. waiting' = Replaced(waiting, s, t, B)
      BY <1>5 DEF Replaced
    <3>4. waiting' \in PerTable(V)
      BY <1>4, <3>2, <3>3, OneReplaced
    <3> QED
      BY <3>1, <3>4 DEF PerTable
  <2>2. at' \in [Seeders -> 1..(Final + 1)]
    <3>1. at[s] + 1 \in 1..(Final + 1)
      BY <1>4
    <3> QED
      BY <1>1, <1>5, <3>1 DEF SeedTypeOK
  <2> QED
    BY <1>1, <1>5, <2>1, <2>2 DEF SeedTypeOK
<1>10. Collected(s)'
  <2> SUFFICES ASSUME NEW u \in Tables
               PROVE  /\ added'[s][u] \subseteq {s} \X KeysOf(u) /\ waiting'[s][u] \subseteq KeysOf(u)
                      /\ counts'[s][u] = Cardinality(added'[s][u])
                      /\ u \notin SeededTables => added'[s][u] = {}
                      /\ waiting'[s][u] # {} =>
                           \E j \in at'[s]..Final : Transaction[j].do = "flush" /\ Transaction[j].table = u
    BY DEF Collected
  <2>1. /\ added[s][u] \subseteq {s} \X KeysOf(u) /\ waiting[s][u] \subseteq KeysOf(u)
        /\ counts[s][u] = Cardinality(added[s][u])
        /\ u \notin SeededTables => added[s][u] = {}
        /\ waiting[s][u] # {} =>
             \E j \in at[s]..Final : Transaction[j].do = "flush" /\ Transaction[j].table = u
    BY <1>1 DEF Own, Collected
  <2>2. ASSUME waiting'[s][u] # {}
        PROVE  \E j \in at'[s]..Final : Transaction[j].do = "flush" /\ Transaction[j].table = u
    <3>1. CASE u # t
      <4>1. PICK j \in at[s]..Final : Transaction[j].do = "flush" /\ Transaction[j].table = u
        BY <1>6, <2>1, <2>2, <3>1
      <4>2. j # at[s]
        BY <1>2, <3>1, <4>1 DEF Now
      <4>3. j \in (at[s] + 1)..Final
        BY <1>4, <4>2
      <4> QED
        BY <1>6, <4>1, <4>3
    <3>2. CASE u = t
      <4>1. Now(s).do = "add"
        <5>1. B # {}
          BY <1>6, <2>2, <3>2
        <5> QED
          BY <1>3, <1>4, <5>1 DEF IsDue, Loads, CollectRows
      <4>2. PICK j \in (at[s] + 1)..Final : Transaction[j].do = "flush" /\ Transaction[j].table = t
        BY <1>2, <1>4, <4>1, ListsAreFlushed DEF Now
      <4> QED
        BY <1>6, <3>2, <4>2
    <3> QED
      BY <3>1, <3>2
  <2>3. waiting'[s][u] \subseteq KeysOf(u)
    BY <1>4, <1>6, <2>1
  <2> QED
    BY <1>5, <2>1, <2>2, <2>3
<1>11. NoneLost(s)'
  <2> SUFFICES ASSUME NEW i \in 39..(at'[s] - 1), NEW k \in Transaction[i].what
               PROVE  \/ k \in waiting'[s][Transaction[i].table]
                      \/ <<s, k>> \in added'[s][Transaction[i].table]
    BY DEF NoneLost
  <2>1. i \in 39..Final /\ (i = at[s] \/ i \in 39..(at[s] - 1))
    <3>1. PICK a \in 39..Final : a = at[s]
      BY <1>4
    <3>2. i \in 39..((a + 1) - 1) /\ Final \in Nat
      BY <1>6, <3>1, TransactionLists
    <3>3. i \in 39..Final /\ (i = a \/ i \in 39..(a - 1))
      BY <3>1, <3>2
    <3> QED
      BY <3>1, <3>3
  <2>2. Transaction[i].table \in Tables
    BY <2>1, TransactionFacts, SeedTables DEF Loads
  <2>3. CASE i = at[s]
    BY <1>2, <1>3, <1>6, <2>3 DEF Now, Batch
  <2>4. CASE i \in 39..(at[s] - 1)
    <3>1. \/ k \in waiting[s][Transaction[i].table]
          \/ <<s, k>> \in added[s][Transaction[i].table]
      BY <1>1, <2>4 DEF Own, NoneLost
    <3> QED
      BY <1>2, <1>3, <1>5, <1>6, <2>2, <3>1 DEF Batch
  <2> QED
    BY <2>1, <2>3, <2>4
<1>12. Clean(s)'
  BY <1>1, <1>5 DEF Clean, IsEmpty, SeededRows
<1>13. \A q \in Seeders \ {s} : Uses(s)' \cap Uses(q) = {}
  BY <1>5, SameUses
<1> QED
  BY <1>5, <1>6, <1>8, <1>9, <1>10, <1>11, <1>12, <1>13, LoadKeeps DEF CollectRows

LEMMA InsertHolds ==
  ASSUME NEW s \in Seeders, SeedInv, InsertRows(s)
  PROVE  SeedInv'
<1>1. Own(s) /\ Clean(s) /\ SeedTypeOK /\ DataIsOfOneSeed /\ Collected(s)
  BY DEF SeedInv, Own
<1>2. PICK t : t = Now(s).table
  OBVIOUS
<1>3. PICK B : B = Batch(s)
  OBVIOUS
<1>4. /\ at[s] \in 39..Final /\ at[s] + 1 \in 40..(Final + 1) /\ erased[s] \in {{}, Tables}
      /\ Loads(Now(s)) /\ t \in SeededTables /\ t \in Tables /\ B \subseteq KeysOf(t)
  BY <1>2, <1>3, AtLoad DEF InsertRows
<1>5. PICK new : new = {s} \X B
  OBVIOUS
<1>6. B \subseteq Nat /\ new \subseteq {s} \X KeysOf(t) /\ new \subseteq Seeders \X Nat
  BY <1>4, <1>5, KeysAreNumbers
<1>7. PICK size \in Nat : size = Cardinality(B) /\ size = Cardinality(new) /\ IsFiniteSet(new)
  BY <1>4, <1>5, FiniteKeys
<1>8. /\ added' = [added EXCEPT ![s][t] = added[s][t] \cup new]
      /\ counts' = [counts EXCEPT ![s][t] = counts[s][t] + size]
      /\ waiting' = [waiting EXCEPT ![s][t] = {}] /\ at' = [at EXCEPT ![s] = at[s] + 1]
      /\ UNCHANGED <<stored, phase, erased, before, written>>
  BY <1>2, <1>3, <1>5, <1>7 DEF InsertRows, Go, GoTo
<1>19. /\ waiting' \in [Seeders -> [Tables -> SUBSET Nat]]
       /\ added' \in [Seeders -> [Tables -> SUBSET (Seeders \X Nat)]]
       /\ counts' \in [Seeders -> [Tables -> Nat]]
       /\ waiting'[s][t] = {} /\ \A u \in Tables : u # t => waiting'[s][u] = waiting[s][u]
       /\ added'[s][t] = added[s][t] \cup new
       /\ \A u \in Tables : u # t => added'[s][u] = added[s][u]
       /\ counts'[s][t] = counts[s][t] + size
       /\ \A u \in Tables : u # t => counts'[s][u] = counts[s][u]
       /\ at'[s] = at[s] + 1
  <2>1. PICK V, W : V = SUBSET Nat /\ W = SUBSET (Seeders \X Nat)
    OBVIOUS
  <2>2. /\ waiting \in PerTable(V) /\ added \in PerTable(W)
        /\ counts \in PerTable(Nat) /\ {} \in V
    BY <1>1, <2>1 DEF SeedTypeOK, PerTable
  <2>3. added[s][t] \cup new \in W /\ counts[s][t] + size \in Nat
    <3>1. added[s][t] \in W /\ counts[s][t] \in Nat
      BY <1>4, <2>2 DEF PerTable
    <3> QED
      BY <1>6, <1>7, <2>1, <3>1
  <2>4. /\ waiting' \in PerTable(V)
        /\ waiting'[s][t] = {} /\ \A u \in Tables : u # t => waiting'[s][u] = waiting[s][u]
    <3>1. waiting' = Replaced(waiting, s, t, {})
      BY <1>8 DEF Replaced
    <3> QED
      BY <1>4, <2>2, <3>1, OneReplaced
  <2>5. PICK more : more = added[s][t] \cup new
    OBVIOUS
  <2>6. /\ added' \in PerTable(W) /\ added'[s][t] = added[s][t] \cup new
        /\ \A u \in Tables : u # t => added'[s][u] = added[s][u]
    <3>1. added' = Replaced(added, s, t, more) /\ more \in W
      BY <1>8, <2>3, <2>5 DEF Replaced
    <3>2. /\ added' \in PerTable(W) /\ added'[s][t] = more
          /\ \A u \in Tables : u # t => added'[s][u] = added[s][u]
      BY <1>4, <2>2, <3>1, OneReplaced
    <3> QED
      BY <2>5, <3>2
  <2>7. PICK total : total = counts[s][t] + size
    OBVIOUS
  <2>8. /\ counts' \in PerTable(Nat) /\ counts'[s][t] = counts[s][t] + size
        /\ \A u \in Tables : u # t => counts'[s][u] = counts[s][u]
    <3>1. counts' = Replaced(counts, s, t, total) /\ total \in Nat
      BY <1>8, <2>3, <2>7 DEF Replaced
    <3> QED
      BY <1>4, <2>2, <2>7, <3>1, OneReplaced
  <2> QED
    BY <1>1, <1>8, <2>1, <2>4, <2>6, <2>8 DEF SeedTypeOK, PerTable
<1>9. /\ waiting'[s][t] = {} /\ at'[s] = at[s] + 1
      /\ added'[s][t] = added[s][t] \cup new /\ counts'[s][t] = counts[s][t] + size
      /\ \A u \in Tables : u # t => /\ waiting'[s][u] = waiting[s][u] /\ added'[s][u] = added[s][u]
                                    /\ counts'[s][u] = counts[s][u]
  BY <1>8, <1>19
<1>10. OthersUnmoved(s)
  BY <1>1, <1>8 DEF SeedTypeOK, OthersUnmoved, Unmoved
<1>11. SeedTypeOK'
  <2>1. at' \in [Seeders -> 1..(Final + 1)]
    <3>1. at[s] + 1 \in 1..(Final + 1)
      BY <1>4
    <3> QED
      BY <1>1, <1>8, <3>1 DEF SeedTypeOK
  <2> QED
    BY <1>1, <1>8, <1>19, <2>1 DEF SeedTypeOK
<1>12. Program \notin Seeders
  BY SeedersAssumption
<1>13. \A x \in Seen(s, t) : x[1] # Program => x[2] \notin B
  BY <1>2, <1>3 DEF Collides, InsertRows
<1>14. counts'[s][t] = Cardinality(added'[s][t])
  <2>1. added[s][t] \cap new = {}
    <3> SUFFICES ASSUME NEW x \in added[s][t], x \in new PROVE FALSE
      OBVIOUS
    <3>1. x \in Seen(s, t)
      BY DEF Seen
    <3>2. x[1] = s /\ x[2] \in B
      BY <1>5
    <3> QED
      BY <1>12, <1>13, <3>1, <3>2
  <2>2. added[s][t] \subseteq {s} \X KeysOf(t) /\ counts[s][t] = Cardinality(added[s][t])
    BY <1>1, <1>4 DEF Collected
  <2>3. IsFiniteSet(added[s][t])
    <3>1. KeysOf(t) \in SUBSET KeysOf(t)
      OBVIOUS
    <3>2. IsFiniteSet({s} \X KeysOf(t))
      BY <1>4, <3>1, FiniteKeys
    <3> QED
      BY <2>2, <3>2, FS_Subset
  <2>4. Cardinality(added[s][t] \cup new)
          = Cardinality(added[s][t]) + Cardinality(new) - Cardinality(added[s][t] \cap new)
    BY <1>7, <2>3, FS_Union
  <2>5. Cardinality({}) = 0
    BY FS_EmptySet
  <2>6. counts[s][t] \in Nat
    BY <1>1, <1>4 DEF SeedTypeOK
  <2>7. Cardinality(added[s][t] \cup new) = counts[s][t] + size
    <3>1. Cardinality(added[s][t] \cap new) = 0
      BY <2>1, <2>5
    <3>2. Cardinality(added[s][t]) = counts[s][t] /\ Cardinality(new) = size
      BY <1>7, <2>2
    <3> QED
      BY <1>7, <2>4, <2>6, <3>1, <3>2
  <2> QED
    BY <1>9, <2>7
<1>15. Collected(s)'
  <2> SUFFICES ASSUME NEW u \in Tables
               PROVE  /\ added'[s][u] \subseteq {s} \X KeysOf(u) /\ waiting'[s][u] \subseteq KeysOf(u)
                      /\ counts'[s][u] = Cardinality(added'[s][u])
                      /\ u \notin SeededTables => added'[s][u] = {}
                      /\ waiting'[s][u] # {} =>
                           \E j \in at'[s]..Final : Transaction[j].do = "flush" /\ Transaction[j].table = u
    BY DEF Collected
  <2>1. /\ added[s][u] \subseteq {s} \X KeysOf(u) /\ waiting[s][u] \subseteq KeysOf(u)
        /\ counts[s][u] = Cardinality(added[s][u])
        /\ u \notin SeededTables => added[s][u] = {}
        /\ waiting[s][u] # {} =>
             \E j \in at[s]..Final : Transaction[j].do = "flush" /\ Transaction[j].table = u
    BY <1>1 DEF Collected
  <2>2. CASE u = t
    BY <1>4, <1>6, <1>9, <1>14, <2>1, <2>2
  <2>3. CASE u # t
    <3>1. ASSUME waiting'[s][u] # {}
          PROVE  \E j \in at'[s]..Final : Transaction[j].do = "flush" /\ Transaction[j].table = u
      <4>1. PICK j \in at[s]..Final : Transaction[j].do = "flush" /\ Transaction[j].table = u
        BY <1>9, <2>1, <2>3, <3>1
      <4>2. j # at[s]
        BY <1>2, <2>3, <4>1 DEF Now
      <4>3. j \in (at[s] + 1)..Final
        BY <1>4, <4>2
      <4> QED
        BY <1>9, <4>1, <4>3
    <3> QED
      BY <1>9, <2>1, <2>3, <3>1
  <2> QED
    BY <2>2, <2>3
<1>16. NoneLost(s)'
  <2> SUFFICES ASSUME NEW i \in 39..(at'[s] - 1), NEW k \in Transaction[i].what
               PROVE  \/ k \in waiting'[s][Transaction[i].table]
                      \/ <<s, k>> \in added'[s][Transaction[i].table]
    BY DEF NoneLost
  <2>1. i \in 39..Final /\ (i = at[s] \/ i \in 39..(at[s] - 1))
    <3>1. PICK a \in 39..Final : a = at[s]
      BY <1>4
    <3>2. i \in 39..((a + 1) - 1) /\ Final \in Nat
      BY <1>9, <3>1, TransactionLists
    <3>3. i \in 39..Final /\ (i = a \/ i \in 39..(a - 1))
      BY <3>1, <3>2
    <3> QED
      BY <3>1, <3>3
  <2>2. Transaction[i].table \in Tables
    BY <2>1, TransactionFacts, SeedTables DEF Loads
  <2>3. \A x \in B : <<s, x>> \in added'[s][t]
    BY <1>5, <1>9
  <2>4. CASE i = at[s]
    BY <1>2, <1>3, <2>3, <2>4 DEF Now, Batch
  <2>5. CASE i \in 39..(at[s] - 1)
    <3>1. \/ k \in waiting[s][Transaction[i].table]
          \/ <<s, k>> \in added[s][Transaction[i].table]
      BY <1>1, <2>5 DEF Own, NoneLost
    <3>2. waiting[s][t] \subseteq B
      BY <1>2, <1>3 DEF Batch
    <3> QED
      BY <1>9, <2>2, <2>3, <3>1, <3>2
  <2> QED
    BY <2>1, <2>4, <2>5
<1>17. Clean(s)'
  <2> SUFFICES ASSUME erased[s] = {} PROVE IsEmpty'
    BY <1>8 DEF Clean
  <2>1. stored[t] \subseteq Seen(s, t)
    BY DEF Seen
  <2>2. PICK k \in B : k \in KeysOf(t)
    BY <1>2, <1>3, <1>4 DEF IsDue, Loads, Batch, InsertRows
  <2>3. ~ \E source \in Seeders \cup {Earlier} :
            \A u \in SeededTables : SeededRows(u) = Full(u, source)
    <3> SUFFICES ASSUME NEW source \in Seeders \cup {Earlier}, SeededRows(t) = Full(t, source)
                 PROVE  FALSE
      BY <1>4
    <3>1. source # Program
      BY SeedersAssumption DEF Program, Earlier
    <3>2. <<source, k>> \in stored[t]
      BY <2>2 DEF Full, SeededRows
    <3> QED
      BY <1>13, <2>1, <2>2, <3>1, <3>2
  <2>4. IsEmpty
    BY <1>1, <2>3 DEF DataIsOfOneSeed, IsEmpty
  <2> QED
    BY <1>8, <2>4 DEF IsEmpty, SeededRows
<1>18. \A q \in Seeders \ {s} : Uses(s)' \cap Uses(q) = {}
  <2>1. Uses(s)' \subseteq Uses(s) \cup {t}
    BY <1>8, <1>9 DEF Uses
  <2> QED
    BY <1>2, <2>1, NotLocked DEF InsertRows
<1> QED
  BY <1>8, <1>9, <1>10, <1>11, <1>15, <1>16, <1>17, <1>18, LoadKeeps DEF InsertRows

(* At the end of the transaction, the rows of the seeder are those of a    *)
(* complete seed.                                                          *)
LEMMA AllIsAdded ==
  ASSUME NEW s \in Seeders, SeedInv, phase[s] = "seeding", at[s] = Final + 1
  PROVE  /\ \A t \in SeededTables : added[s][t] = Full(t, s)
         /\ \A t \in Tables : t \notin SeededTables => added[s][t] = {}
         /\ erased[s] \in {{}, Tables} /\ (erased[s] = {} => IsEmpty)
<1>1. Own(s) /\ Clean(s) /\ SeedTypeOK /\ Collected(s) /\ NoneLost(s) /\ Final \in Nat
  BY TransactionLists DEF SeedInv, Own
<1>2. (Final + 1)..Final = {} /\ (Final + 1) - 1 = Final /\ Final + 1 >= 18
  BY DaysAssumption DEF Final
<1>3. \A t \in Tables : waiting[s][t] = {}
  <2> SUFFICES ASSUME NEW t \in Tables, waiting[s][t] # {} PROVE FALSE
    OBVIOUS
  <2>1. PICK j \in at[s]..Final : TRUE
    BY <1>1 DEF Collected
  <2> QED
    BY <1>2, <2>1
<1>4. ASSUME NEW t \in SeededTables PROVE added[s][t] = Full(t, s)
  <2>1. t \in Tables
    BY SeedTables
  <2>2. added[s][t] \subseteq {s} \X KeysOf(t)
    BY <1>1, <2>1 DEF Collected
  <2>3. ASSUME NEW k \in KeysOf(t) PROVE <<s, k>> \in added[s][t]
    <3>1. PICK i \in 39..Final : Transaction[i].table = t /\ k \in Transaction[i].what
      BY AllKeysAreLoaded
    <3>2. i \in 39..(at[s] - 1)
      BY <1>2
    <3> QED
      BY <1>1, <1>3, <2>1, <3>1, <3>2 DEF NoneLost
  <2> QED
    BY <2>2, <2>3 DEF Full
<1>5. erased[s] \in {{}, Tables}
  BY <1>1, <1>2 DEF Own, Place
<1>6. added[s] # NoRows
  <2>1. "dim_product" \in SeededTables /\ "dim_product" \in Tables /\ KeysOf("dim_product") = {1}
    BY SeedTables, KeysFacts
  <2>2. <<s, 1>> \in added[s]["dim_product"]
    BY <1>4, <2>1 DEF Full
  <2> QED
    BY <2>1, <2>2, NoRowsFacts
<1>7. erased[s] = {} => IsEmpty
  BY <1>1, <1>6 DEF Clean
<1>8. \A t \in Tables : t \notin SeededTables => added[s][t] = {}
  BY <1>1 DEF Collected
<1> QED
  BY <1>4, <1>5, <1>7, <1>8

(* What a commit at the end makes of the tables.                           *)
LEMMA CommittedIsWhole ==
  ASSUME NEW s \in Seeders, SeedInv, phase[s] = "seeding", at[s] = Final + 1,
         stored' = Committed(s)
  PROVE  /\ \A t \in SeededTables : SeededRows(t)' = Full(t, s)
         /\ \A t \in Tables : \A x \in stored'[t] :
              \/ x \in stored[t] /\ erased[s] = {}
              \/ t \in SeededTables /\ x \in Full(t, s)
         /\ \A t \in SeededTables : Full(t, s) \subseteq stored'[t]
<1>1. /\ \A t \in SeededTables : added[s][t] = Full(t, s)
      /\ \A t \in Tables : t \notin SeededTables => added[s][t] = {}
      /\ erased[s] \in {{}, Tables} /\ (erased[s] = {} => IsEmpty)
  BY AllIsAdded
<1>2. \A t \in Tables : stored'[t] = (IF erased[s] = {} THEN stored[t] ELSE {}) \cup added[s][t]
  BY <1>1 DEF Committed
<1>3. s # Program
  BY SeedersAssumption
<1>4. ASSUME NEW t \in SeededTables PROVE SeededRows(t)' = Full(t, s)
  <2>1. t \in Tables
    BY SeedTables
  <2>2. \A x \in Full(t, s) : x[1] # Program
    BY <1>3 DEF Full
  <2>3. erased[s] = {} => \A x \in stored[t] : x[1] = Program
    BY <1>1 DEF IsEmpty, SeededRows
  <2> QED
    BY <1>1, <1>2, <2>1, <2>2, <2>3 DEF SeededRows
<1>5. \A t \in Tables : \A x \in stored'[t] :
        \/ x \in stored[t] /\ erased[s] = {}
        \/ t \in SeededTables /\ x \in Full(t, s)
  BY <1>1, <1>2
<1>6. \A t \in SeededTables : Full(t, s) \subseteq stored'[t]
  BY <1>1, <1>2, SeedTables
<1> QED
  BY <1>4, <1>5, <1>6

(* Another seeder that has inserted holds a table this one needed, too.    *)
LEMMA NoOtherAdds ==
  ASSUME NEW s \in Seeders, SeedInv, phase[s] = "seeding", at[s] = Final + 1,
         NEW q \in Seeders, q # s
  PROVE  added[q] = NoRows
<1>1. Collected(q) /\ Apart /\ added[q] \in [Tables -> SUBSET (Seeders \X Nat)]
  BY DEF SeedInv, Own, SeedTypeOK
<1>2. ASSUME NEW t \in Tables PROVE added[q][t] = {}
  <2> SUFFICES ASSUME NEW x \in added[q][t] PROVE FALSE
    OBVIOUS
  <2>1. t \in SeededTables /\ x[2] \in KeysOf(t)
    BY <1>1 DEF Collected
  <2>2. <<s, x[2]>> \in added[s][t]
    BY <2>1, AllIsAdded DEF Full
  <2>3. t \in Uses(q) /\ t \in Uses(s)
    BY <2>2 DEF Uses
  <2> QED
    BY <1>1, <2>3 DEF Apart
<1> QED
  BY <1>1, <1>2 DEF NoRows

LEMMA CommitHolds ==
  ASSUME NEW s \in Seeders, SeedInv, Commit(s)
  PROVE  SeedInv'
<1>1. phase[s] = "seeding" /\ at[s] = Final + 1 /\ written' = written
  BY TransactionLists DEF Commit
<1>2. PICK how \in {"ok", "failed"} : End(s, how)
  BY DEF Commit, Stop
<1>3. /\ Own(s)' /\ Clean(s)' /\ Past(s)' /\ OthersUnmoved(s)
      /\ stored' = [t \in Tables |-> stored'[t]] /\ written' \in Nat => SeedTypeOK'
      /\ \A q \in Seeders \ {s} : Uses(s)' \cap Uses(q) = {}
      /\ \A q \in Seeders : HasEnded(q) => HasEnded(q)'
      /\ HasEnded(s)'
  BY <1>2, EndHolds
<1>4. CASE stored' = stored
  <2>1. SeedTypeOK'
    BY <1>1, <1>3, <1>4 DEF SeedInv, SeedTypeOK
  <2>2. Shrinks
    BY <1>1, <1>3, <1>4 DEF Shrinks
  <2>3. DataIsOfOneSeed'
    BY <1>4, SameData DEF SeedInv
  <2> QED
    BY <1>3, <2>1, <2>2, <2>3, StepKeeps
<1>5. CASE stored' = Committed(s)
  <2>1. /\ \A t \in SeededTables : SeededRows(t)' = Full(t, s)
        /\ \A t \in Tables : \A x \in stored'[t] :
             \/ x \in stored[t] /\ erased[s] = {}
             \/ t \in SeededTables /\ x \in Full(t, s)
    BY <1>1, <1>5, CommittedIsWhole
  <2>2. SeedTypeOK'
    <3>1. stored' = [t \in Tables |-> stored'[t]]
      BY <1>5 DEF Committed
    <3>2. written' \in Nat
      BY <1>1 DEF SeedInv, SeedTypeOK
    <3> QED
      BY <1>3, <3>1, <3>2
  <2>3. DataIsOfOneSeed'
    BY <2>1 DEF DataIsOfOneSeed
  <2>4. Apart'
    BY <1>3, StaysApart DEF SeedInv
  <2>5. RowsKnown'
    <3> SUFFICES ASSUME NEW t \in Tables, NEW x \in stored'[t]
                 PROVE  /\ x = <<x[1], x[2]>>
                        /\ x[1] = Program => x[2] \in Nat /\ x[2] <= written'
                        /\ x[1] \in Seeders => HasEnded(x[1])'
                        /\ t \notin SeededTables => x[1] = Program
      BY DEF RowsKnown
    <3>1. CASE x \in stored[t]
      BY <1>1, <1>3, <3>1 DEF SeedInv, RowsKnown
    <3>2. CASE t \in SeededTables /\ x \in Full(t, s)
      <4>1. x = <<x[1], x[2]>> /\ x[1] = s /\ s # Program
        BY <3>2, SeedersAssumption DEF Full
      <4> QED
        BY <1>3, <3>2, <4>1
    <3> QED
      BY <2>1, <3>1, <3>2
  <2>6. ASSUME NEW q \in Seeders, q # s PROVE Own(q)' /\ Clean(q)' /\ Past(q)'
    <3>1. Unmoved(q) /\ Own(q) /\ Past(q)
      BY <1>3, <2>6 DEF OthersUnmoved, SeedInv
    <3>2. Own(q)'
      BY <3>1, OwnStays
    <3>3. Clean(q)'
      BY <1>1, <2>6, <3>1, NoOtherAdds DEF Clean, Unmoved
    <3>4. Past(q)'
      <4> SUFFICES ASSUME phase[q] \in {"seeding", "altering"}, NEW t \in Tables
                   PROVE  /\ \A x \in before[q][t] :
                               /\ x[1] = Program => x[2] \in Nat /\ x[2] <= written'
                               /\ x[1] \in Seeders => HasEnded(x[1])'
                          /\ at[q] >= 18 /\ erased[q] = {} => stored'[t] \cap before[q][t] = {}
        BY <3>1 DEF Past, Unmoved
      <4>1. /\ \A x \in before[q][t] :
                 /\ x[1] = Program => x[2] \in Nat /\ x[2] <= written
                 /\ x[1] \in Seeders => HasEnded(x[1])
            /\ at[q] >= 18 /\ erased[q] = {} => stored[t] \cap before[q][t] = {}
        BY <3>1 DEF Past
      <4>2. \A x \in before[q][t] : x \notin Full(t, s)
        BY <1>1, <4>1 DEF Full, HasEnded
      <4> QED
        BY <1>1, <1>3, <2>1, <4>1, <4>2
    <3> QED
      BY <3>2, <3>3, <3>4
  <2> QED
    BY <1>3, <2>2, <2>3, <2>4, <2>5, <2>6 DEF SeedInv
<1> QED
  BY <1>4, <1>5 DEF Commit

LEMMA ProgramHolds ==
  ASSUME SeedInv, ProgramWrites
  PROVE  SeedInv'
<1>1. PICK t : stored' = [stored EXCEPT ![t] = @ \cup {<<Program, written + 1>>}]
  BY DEF ProgramWrites
<1>2. /\ UNCHANGED <<phase, at, erased, added, waiting, counts, before>> /\ written' = written + 1
      /\ written \in Nat /\ written' \in Nat
  BY DEF ProgramWrites, SeedInv, SeedTypeOK
<1>3. PICK new : new = <<Program, written + 1>>
  OBVIOUS
<1>4. new = <<new[1], new[2]>> /\ new[1] = Program /\ new[2] = written'
  BY <1>2, <1>3
<1>5. \A u \in Tables : \A x \in stored'[u] : x \in stored[u] \/ x = new
  BY <1>1, <1>3 DEF SeedInv, SeedTypeOK
<1>6. \A u \in Tables : stored[u] \subseteq stored'[u]
  BY <1>1 DEF SeedInv, SeedTypeOK
<1>7. SeedTypeOK'
  BY <1>1, <1>2 DEF SeedInv, SeedTypeOK
<1>8. \A u \in SeededTables : SeededRows(u)' = SeededRows(u)
  BY <1>4, <1>5, <1>6, SeedTables DEF SeededRows
<1>9. DataIsOfOneSeed'
  BY <1>8 DEF DataIsOfOneSeed, SeedInv
<1>10. RowsKnown'
  <2> SUFFICES ASSUME NEW u \in Tables, NEW x \in stored'[u]
               PROVE  /\ x = <<x[1], x[2]>>
                      /\ x[1] = Program => x[2] \in Nat /\ x[2] <= written'
                      /\ x[1] \in Seeders => HasEnded(x[1])'
                      /\ u \notin SeededTables => x[1] = Program
    BY DEF RowsKnown
  <2>1. CASE x \in stored[u]
    BY <1>2, <2>1 DEF SeedInv, RowsKnown, HasEnded
  <2>2. CASE x = new
    BY <1>2, <1>4, <2>2, SeedersAssumption
  <2> QED
    BY <1>5, <2>1, <2>2
<1>11. Apart'
  BY <1>2 DEF SeedInv, Apart, Uses
<1>12. ASSUME NEW s \in Seeders PROVE Own(s)' /\ Clean(s)' /\ Past(s)'
  <2>1. Own(s) /\ Clean(s) /\ Past(s) /\ Unmoved(s)
    BY <1>2 DEF SeedInv, Unmoved
  <2>2. Own(s)'
    BY <2>1, OwnStays
  <2>3. Clean(s)'
    BY <1>2, <1>8, <2>1 DEF Clean, IsEmpty
  <2>4. Past(s)'
    <3> SUFFICES ASSUME phase[s] \in {"seeding", "altering"}, NEW u \in Tables
                 PROVE  /\ \A x \in before[s][u] :
                             /\ x[1] = Program => x[2] \in Nat /\ x[2] <= written'
                             /\ x[1] \in Seeders => HasEnded(x[1])'
                        /\ at[s] >= 18 /\ erased[s] = {} => stored'[u] \cap before[s][u] = {}
      BY <1>2 DEF Past
    <3>1. /\ \A x \in before[s][u] :
               /\ x[1] = Program => x[2] \in Nat /\ x[2] <= written
               /\ x[1] \in Seeders => HasEnded(x[1])
          /\ at[s] >= 18 /\ erased[s] = {} => stored[u] \cap before[s][u] = {}
      BY <2>1 DEF Past
    <3>2. new \notin before[s][u]
      BY <1>2, <1>4, <3>1
    <3>3. \A x \in before[s][u] : x[1] = Program => x[2] \in Nat /\ x[2] <= written'
      <4> SUFFICES ASSUME NEW x \in before[s][u], x[1] = Program PROVE x[2] \in Nat /\ x[2] <= written'
        OBVIOUS
      <4>1. x[2] \in Nat /\ x[2] <= written
        BY <3>1
      <4> QED
        BY <1>2, <4>1
    <3> QED
      BY <1>2, <1>5, <3>1, <3>2, <3>3 DEF HasEnded
  <2> QED
    BY <2>2, <2>3, <2>4
<1> QED
  BY <1>7, <1>9, <1>10, <1>11, <1>12 DEF SeedInv

LEMMA SeedInvHolds == Spec => []SeedInv
<1>1. ASSUME SeedInv, [Next]_vars PROVE SeedInv'
  <2>1. CASE UNCHANGED vars
    <3>1. UNCHANGED <<stored, phase, at, erased, added, waiting, counts, before, written>>
      BY <2>1 DEF vars
    <3>2. SeedTypeOK' /\ RowsKnown' /\ Apart' /\ DataIsOfOneSeed'
      <4>1. SeedTypeOK'
        BY <1>1, <3>1 DEF SeedInv, SeedTypeOK
      <4>2. RowsKnown'
        BY <1>1, <3>1 DEF SeedInv, RowsKnown, HasEnded
      <4>3. Apart'
        BY <1>1, <3>1 DEF SeedInv, Apart, Uses
      <4>4. DataIsOfOneSeed'
        BY <1>1, <3>1, SameData DEF SeedInv
      <4> QED
        BY <4>1, <4>2, <4>3, <4>4
    <3>3. \A s \in Seeders : Unmoved(s)
      BY <3>1 DEF Unmoved
    <3>4. Shrinks
      BY <3>1 DEF Shrinks, HasEnded
    <3> QED
      BY <1>1, <3>2, <3>3, <3>4, OwnStays, ShrinksKeeps DEF SeedInv
  <2>2. CASE ProgramWrites
    BY <1>1, <2>2, ProgramHolds
  <2>3. ASSUME NEW s \in Seeders, Step(s) PROVE SeedInv'
    <3>1. CASE PartialSchema(s) \/ DuplicateKey(s) \/ Fail(s)
      BY <1>1, <3>1, StopHolds DEF PartialSchema, DuplicateKey, Fail
    <3> QED
      BY <1>1, <2>3, <3>1, StartHolds, ReachedHolds, DeleteHolds, PresentHolds, AbsentHolds,
         AlterHolds, CollectHolds, InsertHolds, CommitHolds DEF Step
  <2> QED
    BY <1>1, <2>1, <2>2, <2>3 DEF Next
<1> QED
  BY <1>1, InitHolds, PTL DEF Spec

(* Whoever looks at the committed data finds one complete seed or none.    *)
THEOREM SeedsAreWhole == Spec => []DataIsOfOneSeed
<1>1. SeedInv => DataIsOfOneSeed
  BY DEF SeedInv
<1> QED
  BY <1>1, SeedInvHolds, PTL

LEMMA OnlyCommitEndsWell ==
  ASSUME SeedInv, [Next]_vars, NEW s \in Seeders, phase[s] # "ok", phase'[s] = "ok"
  PROVE  Commit(s) /\ stored' = Committed(s)
<1> SUFFICES ASSUME NEW q \in Seeders, Step(q) PROVE Commit(s) /\ stored' = Committed(s)
  BY DEF Next, vars, ProgramWrites
<1>1. phase = [r \in Seeders |-> phase[r]]
  BY DEF SeedInv, SeedTypeOK
<1>2. CASE Commit(q)
  BY <1>1, <1>2 DEF Commit, End, Stop
<1>3. CASE Start(q) \/ NotReached(q) \/ Reached(q)
  BY <1>1, <1>3 DEF Start, NotReached, Reached
<1>4. CASE PartialSchema(q) \/ DuplicateKey(q) \/ Fail(q) \/ Alter(q)
  BY <1>1, <1>4 DEF PartialSchema, DuplicateKey, Fail, Alter, Stop, End
<1>5. CASE Absent(q)
  BY <1>1, <1>5 DEF Absent
<1>6. CASE Delete(q) \/ Present(q) \/ CollectRows(q) \/ InsertRows(q)
  BY <1>6 DEF Delete, Present, CollectRows, InsertRows, Go, GoTo
<1> QED
  BY <1>2, <1>3, <1>4, <1>5, <1>6 DEF Step

(* A seeder that ends well has replaced everything, and counted it right.  *)
THEOREM SeedsReplaceEverything == Spec => SuccessRebuilds
<1>1. SeedInv /\ [Next]_vars =>
        [\A s \in Seeders : phase[s] # "ok" /\ phase'[s] = "ok" =>
           /\ \A t \in Tables : stored'[t] \cap before[s][t] = {}
           /\ \A t \in SeededTables : Full(t, s) \subseteq stored'[t]
           /\ \A t \in CountedTables :
                counts[s][t] = Cardinality({x \in stored'[t] : x[1] = s})]_vars
  <2> SUFFICES ASSUME SeedInv, [Next]_vars, NEW s \in Seeders, phase[s] # "ok", phase'[s] = "ok"
               PROVE  /\ \A t \in Tables : stored'[t] \cap before[s][t] = {}
                      /\ \A t \in SeededTables : Full(t, s) \subseteq stored'[t]
                      /\ \A t \in CountedTables :
                           counts[s][t] = Cardinality({x \in stored'[t] : x[1] = s})
    OBVIOUS
  <2>1. stored' = Committed(s) /\ phase[s] = "seeding" /\ at[s] = Final + 1
    BY OnlyCommitEndsWell, TransactionLists DEF Commit
  <2>2. /\ \A t \in Tables : \A x \in stored'[t] :
             \/ x \in stored[t] /\ erased[s] = {}
             \/ t \in SeededTables /\ x \in Full(t, s)
        /\ \A t \in SeededTables : Full(t, s) \subseteq stored'[t]
    BY <2>1, CommittedIsWhole
  <2>3. Past(s) /\ RowsKnown /\ Collected(s) /\ ~HasEnded(s) /\ Final + 1 >= 18
    BY <2>1, DaysAssumption DEF SeedInv, Own, HasEnded, Final
  <2>4. ASSUME NEW t \in Tables PROVE stored'[t] \cap before[s][t] = {}
    <3>1. erased[s] = {} => stored[t] \cap before[s][t] = {}
      BY <2>1, <2>3 DEF Past
    <3>2. \A x \in before[s][t] : x \notin Full(t, s)
      BY <2>1, <2>3 DEF Past, Full
    <3> QED
      BY <2>2, <3>1, <3>2
  <2>5. ASSUME NEW t \in CountedTables
        PROVE  counts[s][t] = Cardinality({x \in stored'[t] : x[1] = s})
    <3>1. t \in SeededTables /\ t \in Tables
      BY SeedTables DEF CountedTables
    <3>2. \A x \in stored[t] : x[1] # s
      BY <2>3, <3>1 DEF RowsKnown
    <3>3. \A x \in Full(t, s) : x[1] = s
      BY DEF Full
    <3>4. {x \in stored'[t] : x[1] = s} = Full(t, s)
      BY <2>2, <3>1, <3>2, <3>3
    <3>5. added[s][t] = Full(t, s) /\ counts[s][t] = Cardinality(added[s][t])
      BY <2>1, <2>3, <3>1, AllIsAdded DEF Collected
    <3> QED
      BY <3>4, <3>5
  <2> QED
    BY <2>2, <2>4, <2>5
<1> QED
  BY <1>1, SeedInvHolds, PTL DEF Spec, SuccessRebuilds

-------------------------------------------------------------------------------
(* GrpoExport: what its examples are.                                      *)

(* A record is judged as what it is about, and taught if it was earned.    *)
IsSound(r) ==
  /\ r.kind = "prediction" => r.divergence = GapOf(r.about, cycle[r.round].cases).divergence
  /\ IsPositive(r) => IsEarned(r)

AreSound(s) == IsSequence(s) /\ \A r \in ToSet(s) : IsSound(r)

(* The records in memory and on disk are sound, of rounds of this cycle.   *)
ExamplesInv ==
  /\ cycle \in Cycles /\ shown \in Nat
  /\ export.listed \in Seq(DOMAIN cycle) /\ export.read \in Nat
  /\ \A l \in LayerNames : AreSound(export.layers[l])
  /\ \A file \in DOMAIN output : \A r \in ToSet(output[file]) : IsSound(r)
  /\ Positives \in DOMAIN output => \A r \in ToSet(output[Positives]) : IsPositive(r)

LEMMA SoundJoined ==
  ASSUME NEW s, NEW t, AreSound(s), AreSound(t)
  PROVE  AreSound(Cat(s, t))
BY SequencesJoined DEF AreSound

LEMMA PositivesAreSound ==
  ASSUME NEW layers, \A l \in LayerNames : AreSound(layers[l])
  PROVE  \A r \in ToSet(PositivesOf(layers)) : IsSound(r) /\ IsPositive(r)
<1>1. PICK records : records = AllRecords(layers)
  OBVIOUS
<1>2. AreSound(records)
  <2>1. /\ AreSound(layers[Controller]) /\ AreSound(layers[SubAgent])
        /\ AreSound(layers[CodingFix])
    BY FilesInOrder
  <2>2. records = Cat(Cat(layers[Controller], layers[SubAgent]), layers[CodingFix])
    BY <1>1 DEF AllRecords, Cat
  <2> QED
    BY <2>1, <2>2, SoundJoined
<1> DEFINE S == {r \in ToSet(records) : IsPositive(r)}
           parts == [i \in DOMAIN records |->
                       IF IsPositive(records[i]) THEN <<records[i]>> ELSE <<>>]
<1>3. PICK n \in Nat : DOMAIN records = 1..n
  BY <1>2 DEF AreSound, IsSequence
<1>4. \A i \in 1..n : (IF IsPositive(records[i]) THEN <<records[i]>> ELSE <<>>) \in Seq(S)
  <2> SUFFICES ASSUME NEW i \in 1..n
               PROVE  (IF IsPositive(records[i]) THEN <<records[i]>> ELSE <<>>) \in Seq(S)
    OBVIOUS
  <2>1. IsPositive(records[i]) => records[i] \in S
    BY <1>3 DEF ToSet
  <2> HIDE DEF S
  <2>2. CASE IsPositive(records[i])
    BY <2>1, <2>2
  <2>3. CASE ~IsPositive(records[i])
    BY <2>3
  <2> QED
    BY <2>2, <2>3
<1>5. parts \in [1..n -> Seq(S)]
  <2> HIDE DEF S
  <2> QED
    BY <1>3, <1>4
<1>6. FlattenSeq(parts) \in Seq(S)
  <2> HIDE DEF S, parts
  <2> QED
    BY <1>5, FlattenedFrom
<1>7. PositivesOf(layers) = FlattenSeq(parts)
  BY <1>1 DEF PositivesOf
<1>8. \A s \in Seq(S) : ToSet(s) \subseteq S
  <2> HIDE DEF S
  <2> QED
    BY DEF ToSet
<1>9. ToSet(PositivesOf(layers)) \subseteq S
  <2> HIDE DEF S, parts
  <2> QED
    BY <1>6, <1>7, <1>8
<1> QED
  BY <1>2, <1>9 DEF AreSound

(* The records of a round, one after the other.                            *)
LEMMA ControllerIsSound ==
  ASSUME NEW n, NEW earlier
  PROVE  IsSound(ControllerRecord(n, earlier))
<1>1. PICK r : r = ControllerRecord(n, earlier)
  OBVIOUS
<1>2. r.kind = "controller" /\ r.round = n /\ r.about = earlier
  BY <1>1 DEF ControllerRecord, RecordOf
<1>3. r.reward.eligible => Fallen(MetricsBefore(n, earlier), cycle[n].metrics) = {}
  BY <1>1 DEF ControllerRecord, RecordOf, ControllerReward, Reward
<1>4. earlier # 0 => MetricsBefore(n, earlier) = cycle[earlier].metrics
  BY DEF MetricsBefore
<1> QED
  BY <1>1, <1>2, <1>3, <1>4 DEF IsSound, IsPositive, IsEarned

LEMMA TasksAreSound ==
  ASSUME cycle \in Cycles, NEW n \in DOMAIN cycle, TasksAreValid(cycle[n].tasks)
  PROVE  AreSound(TaskRecords(n))
<1>1. PICK k \in Nat : DOMAIN cycle[n].tasks.rows = 1..k
  BY CyclesAssumption DEF TasksAreValid, IsSequence
<1>2. PICK s : s = TaskRecords(n)
  OBVIOUS
<1>3. DOMAIN s = 1..k /\ \A i \in 1..k : s[i].kind = "product_task"
  BY <1>1, <1>2 DEF TaskRecords, RecordOf
<1>4. IsSequence(s)
  BY <1>1, <1>2 DEF IsSequence, TaskRecords, ToSet
<1>5. \A r \in ToSet(s) : r.kind = "product_task"
  BY <1>3 DEF ToSet
<1> QED
  BY <1>2, <1>4, <1>5 DEF AreSound, IsSound, IsEarned

(* There is one row with the key of a prediction, its own.                 *)
LEMMA PredictionsAreSound ==
  ASSUME cycle \in Cycles, NEW n \in DOMAIN cycle, GapsAreValid(GapsOf(n))
  PROVE  AreSound(PredictionRecords(n, GapsOf(n)))
<1> DEFINE predictions == cycle[n].predictions
           gaps == GapsOf(n)
<1>1. PICK k \in Nat : DOMAIN predictions = 1..k
  BY CyclesAssumption DEF IsSequence
<1>2. PICK s : s = PredictionRecords(n, gaps)
  OBVIOUS
<1>3. DOMAIN gaps = 1..k /\ \A i \in 1..k : gaps[i] = GapOf(predictions[i], cycle[n].cases)
  BY <1>1 DEF GapsOf, AnalyzeGaps
<1>4. \A i \in 1..k : gaps[i].case = predictions[i].case /\ gaps[i].aspect = predictions[i].aspect
  BY <1>3 DEF GapOf
<1>5. ASSUME NEW i \in 1..k PROVE GapFor(predictions[i], gaps) = gaps[i]
  <2>1. {j \in DOMAIN gaps : /\ gaps[j].case = predictions[i].case
                             /\ gaps[j].aspect = predictions[i].aspect} = {i}
    BY <1>3, <1>4 DEF GapsAreValid
  <2>2. Max({i}) = i
    BY DEF Max
  <2> QED
    BY <2>1, <2>2 DEF GapFor
<1>6. DOMAIN s = 1..k
  BY <1>1, <1>2 DEF PredictionRecords
<1>7. IsSequence(s)
  BY <1>1, <1>2 DEF IsSequence, PredictionRecords, ToSet
<1>8. ASSUME NEW i \in 1..k PROVE IsSound(s[i])
  <2>1. PICK p, d : p = predictions[i] /\ d = gaps[i].divergence
    OBVIOUS
  <2>2. s[i] = PredictionRecord(n, p, d)
    BY <1>1, <1>2, <1>5, <2>1 DEF PredictionRecords
  <2>3. d = GapOf(p, cycle[n].cases).divergence
    BY <1>3, <2>1
  <2>4. /\ s[i].kind = "prediction" /\ s[i].round = n /\ s[i].about = p
        /\ s[i].divergence = d /\ s[i].reward = PredictionReward(d, p.cites)
    BY <2>2 DEF PredictionRecord, RecordOf
  <2>5. s[i].reward.eligible => p.cites /\ d = Correct
    <3>1. PICK total : total = CorrectnessOf(d) + Worth(p.cites, 8, -8)
      OBVIOUS
    <3>2. PICK e : e = (d = Correct /\ p.cites /\ total > 0)
      OBVIOUS
    <3>3. s[i].reward = [total |-> total, eligible |-> e, fix |-> NoFix]
      BY <2>4, <3>1, <3>2, Zenon DEF PredictionReward, Reward
    <3>4. s[i].reward.eligible = e
      BY <3>3
    <3> QED
      BY <3>2, <3>4, Zenon
  <2> QED
    BY <2>3, <2>4, <2>5 DEF IsSound, IsPositive, IsEarned
<1> QED
  BY <1>2, <1>6, <1>7, <1>8 DEF AreSound, ToSet

LEMMA FixIsSound ==
  ASSUME cycle \in Cycles, NEW n \in DOMAIN cycle, NEW earlier \in DOMAIN cycle
  PROVE  IsSound(CodingFixRecord(n, earlier))
<1>1. PICK r : r = CodingFixRecord(n, earlier)
  OBVIOUS
<1>2. PICK targets : targets = TargetsOf(cycle[earlier])
  OBVIOUS
<1>3. PICK b, a : b = cycle[earlier] /\ a = cycle[n]
  OBVIOUS
<1>4. r.kind = "coding_fix" /\ r.round = n /\ r.about = earlier
  BY <1>1 DEF CodingFixRecord, RecordOf
<1>5. PICK fix : fix = AssessCodingFix(b, a, targets, a.fix, ProposedOf(b))
  OBVIOUS
<1>6. r.reward.eligible => fix.effective /\ ~fix.regressed
  BY <1>1, <1>2, <1>3, <1>5 DEF CodingFixRecord, RecordOf, CodingFixReward, Reward
<1>7. fix.effective => Effective(b.cases, a.cases, targets)
  BY <1>5 DEF AssessCodingFix
<1>8. ~fix.regressed => LostCases(b.cases, a.cases) = {} /\ Fallen(b.metrics, a.metrics) = {}
  BY <1>5 DEF AssessCodingFix
<1>9. Effective(b.cases, a.cases, targets) => Repaired(b, a)
  BY <1>2, <1>3 DEF Effective, Recovered, Repaired, Common
<1>10. LostCases(b.cases, a.cases) = {} /\ Fallen(b.metrics, a.metrics) = {} => BrokeNothing(b, a)
  <2> SUFFICES ASSUME LostCases(b.cases, a.cases) = {}, Fallen(b.metrics, a.metrics) = {}
               PROVE  BrokeNothing(b, a)
    OBVIOUS
  <2>1. \A c \in Common(b, a) : CasePassed(b.cases[c]) => CasePassed(a.cases[c])
    BY DEF LostCases, Common
  <2>2. ASSUME NEW m \in DOMAIN b.metrics \cap DOMAIN a.metrics
        PROVE  a.metrics[m] >= b.metrics[m]
    <3>1. a.metrics[m] \in Int /\ b.metrics[m] \in Int
      BY <1>3, CyclesAssumption
    <3>2. ~(a.metrics[m] < b.metrics[m])
      BY DEF Fallen
    <3> QED
      BY <3>1, <3>2
  <2> QED
    BY <2>1, <2>2 DEF BrokeNothing
<1> QED
  BY <1>1, <1>3, <1>4, <1>6, <1>7, <1>8, <1>9, <1>10 DEF IsSound, IsPositive, IsEarned

LEMMA OneIsSound ==
  ASSUME NEW r, IsSound(r)
  PROVE  AreSound(<<r>>) /\ AreSound(<<>>)
<1>1. ToSet(<<r>>) = {r} /\ <<r>> \in Seq({r})
  BY DEF ToSet
<1>2. ToSet(<<>>) = {} /\ <<>> \in Seq({})
  BY DEF ToSet
<1> QED
  BY <1>1, <1>2 DEF AreSound, IsSequence

LEMMA RoundIsSound ==
  ASSUME cycle \in Cycles, NEW n \in DOMAIN cycle, NEW earlier,
         earlier = 0 \/ earlier \in DOMAIN cycle, RoundIsValid(n, earlier)
  PROVE  \A l \in LayerNames : AreSound(RecordsOf(n, earlier)[l])
<1>1. AreSound(<<ControllerRecord(n, earlier)>>) /\ AreSound(<<>>)
  BY ControllerIsSound, OneIsSound
<1>2. AreSound(Cat(TaskRecords(n), PredictionRecords(n, GapsOf(n))))
  BY TasksAreSound, PredictionsAreSound, SoundJoined DEF RoundIsValid
<1>3. AreSound(IF HasFix(n, earlier) THEN <<CodingFixRecord(n, earlier)>> ELSE <<>>)
  BY <1>1, FixIsSound, OneIsSound DEF HasFix
<1>4. /\ RecordsOf(n, earlier)[Controller] = <<ControllerRecord(n, earlier)>>
      /\ RecordsOf(n, earlier)[SubAgent] = Cat(TaskRecords(n), PredictionRecords(n, GapsOf(n)))
      /\ RecordsOf(n, earlier)[CodingFix]
           = (IF HasFix(n, earlier) THEN <<CodingFixRecord(n, earlier)>> ELSE <<>>)
  BY FilesInOrder DEF RecordsOf, LayerNames, Cat, Controller, SubAgent, CodingFix
<1> QED
  BY <1>1, <1>2, <1>3, <1>4, FilesInOrder

(* A step of the cycle or of the exporter that reads and writes nothing.   *)
LEMMA NothingIsTaught ==
  ASSUME ExamplesInv, cycle' = cycle, output' = output, shown' \in Nat,
         export'.listed \in Seq(DOMAIN cycle), export'.read \in Nat,
         \A l \in LayerNames : AreSound(export'.layers[l])
  PROVE  ExamplesInv'
<1>1. \A r : IsSound(r)' <=> IsSound(r)
  BY DEF IsSound, IsEarned, Repaired, BrokeNothing
<1> QED
  BY <1>1 DEF ExamplesInv, AreSound

LEMMA ExamplesInvInit == ExportInit => ExamplesInv
<1> SUFFICES ASSUME ExportInit PROVE ExamplesInv
  OBVIOUS
<1>1. \A l \in LayerNames : Off.layers[l] = <<>>
  BY DEF Off, NoLayers, LayerNames
<1>2. AreSound(<<>>)
  BY DEF AreSound, IsSequence, ToSet
<1>3. cycle \in Cycles /\ shown \in Nat /\ export = Off /\ DOMAIN output = {}
  BY DEF ExportInit
<1>4. Off.listed \in Seq(DOMAIN cycle) /\ Off.read \in Nat
  BY DEF Off
<1>5. Positives \notin DOMAIN output
  BY <1>3
<1> QED
  BY <1>1, <1>2, <1>3, <1>4, <1>5 DEF ExamplesInv

LEMMA ExamplesInvNext ==
  ASSUME ExamplesInv, ExportInv, [ExportNext]_grpo
  PROVE  ExamplesInv'
<1>1. /\ cycle \in Cycles /\ shown \in Nat
      /\ export.listed \in Seq(DOMAIN cycle) /\ export.read \in Nat
      /\ \A l \in LayerNames : AreSound(export.layers[l])
  BY DEF ExamplesInv
<1>2. /\ DOMAIN export = {"pc", "listed", "read", "layers"}
      /\ export.layers = LayersIn(export.layers)
  BY DEF ExportInv
<1>3. /\ \A l \in LayerNames : AreSound(Off.layers[l])
      /\ Off.listed \in Seq(DOMAIN cycle) /\ Off.read \in Nat
      /\ DOMAIN Off = {"pc", "listed", "read", "layers"}
  <2>1. \A l \in LayerNames : Off.layers[l] = <<>>
    BY DEF Off, NoLayers, LayerNames
  <2>2. AreSound(<<>>)
    BY DEF AreSound, IsSequence, ToSet
  <2> QED
    BY <2>1, <2>2 DEF Off
<1>4. CASE CreateRound \/ FinishRound \/ WriteManifest \/ RefuseRound \/ UNCHANGED grpo
  <2>1. /\ cycle' = cycle /\ output' = output /\ shown' \in {shown, shown + 1}
        /\ export'.listed = export.listed /\ export'.read = export.read
        /\ export'.layers = export.layers
    BY <1>2, <1>4 DEF CreateRound, FinishRound, WriteManifest, RefuseRound, FailExport,
                      Continue, grpo
  <2> QED
    BY <1>1, <2>1, NothingIsTaught
<1>5. CASE Die
  <2>1. cycle' = cycle /\ output' = output /\ export' = Off /\ shown' = shown
    BY <1>5 DEF Die, Continue
  <2> QED
    BY <1>1, <1>3, <2>1, NothingIsTaught
<1>6. CASE StartExport
  <2>1. PICK from \in DOMAIN cycle : \E to \in from..Len(cycle) :
          LET last   == IF to < shown THEN to ELSE shown
              listed == [i \in 1..(last - from + 1) |-> from + i - 1]
          IN  export' = [Off EXCEPT !.pc = IF listed = <<>> THEN "failed" ELSE "reading",
                                    !.listed = listed]
    BY <1>6 DEF StartExport
  <2>9. PICK to \in from..Len(cycle) :
          LET last   == IF to < shown THEN to ELSE shown
              listed == [i \in 1..(last - from + 1) |-> from + i - 1]
          IN  export' = [Off EXCEPT !.pc = IF listed = <<>> THEN "failed" ELSE "reading",
                                    !.listed = listed]
    BY <2>1
  <2>2. PICK last : last = IF to < shown THEN to ELSE shown
    OBVIOUS
  <2>3. PICK listed : listed = [i \in 1..(last - from + 1) |-> from + i - 1]
    OBVIOUS
  <2>4. export' = [Off EXCEPT !.pc = IF listed = <<>> THEN "failed" ELSE "reading",
                              !.listed = listed]
    BY <2>2, <2>3, <2>9
  <2>5. cycle' = cycle /\ output' = output /\ shown' = shown
    BY <1>6 DEF StartExport
  <2>6. export'.listed = listed /\ export'.layers = Off.layers /\ export'.read = Off.read
    BY <1>3, <2>4
  <2>7. listed \in Seq(DOMAIN cycle)
    <3>1. Len(cycle) \in Nat /\ DOMAIN cycle = 1..Len(cycle) /\ shown \in Nat
      BY CyclesAssumption DEF ExamplesInv, IsSequence
    <3>2. last \in Int /\ last <= Len(cycle) /\ from \in Nat /\ 1 <= from
      BY <2>2, <2>9, <3>1
    <3>3. ASSUME NEW i \in 1..(last - from + 1) PROVE from + i - 1 \in DOMAIN cycle
      BY <3>1, <3>2
    <3>4. PICK k : k = last - from + 1
      OBVIOUS
    <3>5. k \in Int /\ (k \in Nat \/ (0 \in Nat /\ 1..k = 1..0))
      BY <3>2, <3>4
    <3>6. listed = [i \in 1..k |-> from + i - 1]
      BY <2>3, <3>4
    <3>7. PICK length \in Nat : listed = [i \in 1..length |-> from + i - 1]
      BY <3>5, <3>6
    <3>8. DOMAIN listed = 1..k /\ DOMAIN listed = 1..length
      BY <3>6, <3>7
    <3>9. \A i \in 1..length : listed[i] \in DOMAIN cycle
      BY <3>3, <3>4, <3>6, <3>8
    <3> QED
      BY <3>7, <3>9
  <2> QED
    BY <1>1, <1>3, <2>5, <2>6, <2>7, NothingIsTaught
<1>7. CASE ReadRound
  <2>1. PICK n, earlier : n = ReadsRound /\ earlier = ReadsBefore
    OBVIOUS
  <2>2. n \in DOMAIN cycle /\ (earlier = 0 \/ earlier \in DOMAIN cycle)
    <3>1. export.read + 1 \in 1..Len(export.listed)
      BY <1>1, <1>7 DEF ReadRound, Reads
    <3>2. export.read # 0 => export.read \in 1..Len(export.listed)
      BY <1>1, <3>1
    <3> QED
      BY <1>1, <2>1, <3>1, <3>2 DEF ReadsRound, ReadsBefore
  <2>3. PICK records : records = RecordsOf(n, earlier)
    OBVIOUS
  <2>4. \A l \in LayerNames : AreSound(records[l])
    BY <1>1, <1>7, <2>1, <2>2, <2>3, RoundIsSound DEF ReadRound, IsReadable
  <2>5. /\ export' = [export EXCEPT !.read = @ + 1, !.layers = Extend(@, records)]
        /\ cycle' = cycle /\ output' = output /\ shown' = shown
    BY <1>7, <2>1, <2>3 DEF ReadRound, Continue
  <2>6. /\ export'.listed = export.listed /\ export'.read = export.read + 1
        /\ export'.layers = Extend(export.layers, records)
    BY <1>2, <2>5
  <2>7. \A l \in LayerNames : export'.layers[l] = Cat(export.layers[l], records[l])
    BY <1>2, <2>6 DEF Extend, Cat, LayersIn
  <2>8. \A l \in LayerNames : AreSound(export'.layers[l])
    BY <1>1, <2>4, <2>7, SoundJoined
  <2> QED
    BY <1>1, <2>5, <2>6, <2>8, NothingIsTaught
<1>8. CASE WriteOutput
  <2>1. PICK file : file = FileOrder[NextFile]
    OBVIOUS
  <2>2. /\ output' = [f \in DOMAIN output \cup {file} |-> IF f = file THEN ContentOf(file)
                                                        ELSE output[f]]
        /\ export' = [export EXCEPT !.pc = file] /\ cycle' = cycle /\ shown' = shown
    BY <1>8, <2>1 DEF WriteOutput
  <2>3. /\ export'.listed = export.listed /\ export'.read = export.read
        /\ export'.layers = export.layers
    BY <1>2, <2>2
  <2>4. file \in FileNames
    BY <1>8, <2>1 DEF WriteOutput, FileNames, ToSet
  <2>5. /\ \A r \in ToSet(ContentOf(file)) : IsSound(r)
        /\ file = Positives => \A r \in ToSet(ContentOf(file)) : IsPositive(r)
    <3>1. file # Positives => file \in LayerNames
      BY <2>4, FilesInOrder
    <3> QED
      BY <1>1, <3>1, PositivesAreSound DEF ContentOf, AreSound
  <2>6. \A r : IsSound(r)' <=> IsSound(r)
    BY <2>2 DEF IsSound, IsEarned, Repaired, BrokeNothing
  <2>7. \A f \in DOMAIN output' : \A r \in ToSet(output'[f]) : IsSound(r)
    BY <2>2, <2>5 DEF ExamplesInv
  <2>8. Positives \in DOMAIN output' => \A r \in ToSet(output'[Positives]) : IsPositive(r)
    BY <2>2, <2>5 DEF ExamplesInv
  <2> QED
    BY <1>1, <2>2, <2>3, <2>6, <2>7, <2>8 DEF ExamplesInv, AreSound
<1> QED
  BY <1>4, <1>5, <1>6, <1>7, <1>8 DEF ExportNext

(* export_cycle: whatever it writes teaches what happened: a prediction    *)
(* has the divergence that is its own, and what is offered as a positive   *)
(* example was earned, for all cycles, at every step of every export.      *)
THEOREM ExamplesTeachTheTruth == ExportSpec => []ExamplesAreEarned
<1>1. ExamplesInv => ExamplesAreEarned
  <2> SUFFICES ASSUME ExamplesInv PROVE GradesAreTheirOwn /\ PositivesAreEarned
    BY DEF ExamplesAreEarned
  <2>1. \A file : \A r \in Written(file) : IsSound(r)
    BY DEF ExamplesInv, Written
  <2>2. \A r \in Written(Positives) : IsPositive(r)
    BY DEF ExamplesInv, Written
  <2> QED
    BY <2>1, <2>2 DEF GradesAreTheirOwn, PositivesAreEarned, IsSound
<1>2. ExportSpec => [](ExportInv /\ ExamplesInv)
  BY ExportInvInit, ExportInvNext, ExamplesInvInit, ExamplesInvNext, PTL DEF ExportSpec
<1> QED
  BY <1>1, <1>2, PTL

-------------------------------------------------------------------------------
(* ScenarioSeed: the logs of the rows.                                     *)

(* No entry of the log of a row between i and j, and none after i, is of   *)
(* the field of the entry i.                                               *)
IsNext(log, i, j) ==
  /\ j > i /\ log[j].field = log[i].field
  /\ \A k \in DOMAIN log : k > i /\ k < j => log[k].field # log[i].field
IsLast(log, i) == \A k \in DOMAIN log : k > i => log[k].field # log[i].field

IsOfScenario(entry, s) == \E j \in DOMAIN s.shocks : s.shocks[j].id = entry.shock

Explains(log, is, s) ==
  \A i \in DOMAIN log :
    /\ log[i].field \in Fields /\ IsOfScenario(log[i], s)
    /\ IsLast(log, i) => log[i].after = is[log[i].field]
    /\ \A j \in DOMAIN log : IsNext(log, i, j) => log[i].after = log[j].before

IsExplained(line, s) == Explains(line.log, line.is, s)

IsRow(line) ==
  /\ DOMAIN line = {"day", "at", "is", "log"} /\ DOMAIN line.is = Fields
  /\ IsSequence(line.log)

LEMMA ExplainedRows ==
  ASSUME NEW rows, NEW s, \A line \in rows : IsRow(line) /\ IsExplained(line, s)
  PROVE  LogsExplain(rows, s)
<1> SUFFICES ASSUME NEW line \in rows, NEW i \in DOMAIN line.log
             PROVE  LET entry == line.log[i]
                        later == {j \in DOMAIN line.log : j > i /\ line.log[j].field = entry.field}
                    IN  /\ \E j \in DOMAIN s.shocks : s.shocks[j].id = entry.shock
                        /\ entry.after = IF later = {} THEN line.is[entry.field]
                                         ELSE line.log[Min(later)].before
  BY DEF LogsExplain
<1>1. PICK log : log = line.log
  OBVIOUS
<1>2. PICK later : later = {j \in DOMAIN log : j > i /\ log[j].field = log[i].field}
  OBVIOUS
<1>3. IsExplained(line, s) /\ DOMAIN log \subseteq Nat
  BY <1>1 DEF IsRow, IsSequence
<1>4. CASE later = {}
  <2>1. IsLast(log, i)
    BY <1>1, <1>2, <1>4 DEF IsLast
  <2> QED
    BY <1>1, <1>2, <1>3, <1>4, <2>1 DEF IsExplained, Explains, IsOfScenario
<1>5. CASE later # {}
  <2>1. later \in SUBSET Nat
    BY <1>2, <1>3
  <2>2. Min(later) \in later /\ \A k \in later : Min(later) <= k
    BY <1>5, <2>1, MinIsMin
  <2>3. PICK m : m = Min(later)
    OBVIOUS
  <2>4. m \in DOMAIN log /\ m \in Nat /\ m > i /\ log[m].field = log[i].field
    BY <1>2, <1>3, <2>2, <2>3
  <2>5. \A k \in DOMAIN log : k > i /\ k < m => log[k].field # log[i].field
    <3> SUFFICES ASSUME NEW k \in DOMAIN log, k > i, k < m, log[k].field = log[i].field
                 PROVE  FALSE
      OBVIOUS
    <3>1. k \in later /\ k \in Nat
      BY <1>2, <1>3
    <3>2. m <= k
      BY <2>2, <2>3, <3>1
    <3> QED
      BY <2>4, <3>1, <3>2
  <2>6. IsNext(log, i, m)
    BY <2>4, <2>5 DEF IsNext
  <2> QED
    BY <1>1, <1>2, <1>3, <1>5, <2>3, <2>4, <2>6 DEF IsExplained, Explains, IsOfScenario
<1> QED
  BY <1>4, <1>5

(* An operation on a row adds an entry that explains its new value.        *)
LEMMA AppendedEntry ==
  ASSUME NEW log, IsSequence(log), NEW entry
  PROVE  \E n \in Nat : /\ DOMAIN log = 1..n
                        /\ DOMAIN Append(log, entry) = 1..(n + 1)
                        /\ Append(log, entry)[n + 1] = entry
                        /\ \A i \in 1..n : Append(log, entry)[i] = log[i]
                        /\ IsSequence(Append(log, entry))
<1> DEFINE S == ToSet(log) \cup {entry}
<1>1. log \in Seq(S)
  BY DEF IsSequence
<1>2. entry \in S
  OBVIOUS
<1>3. PICK n \in Nat : n = Len(log) /\ DOMAIN log = 1..n
  BY DEF IsSequence
<1> HIDE DEF S
<1>4. /\ Append(log, entry) \in Seq(S)
      /\ Len(Append(log, entry)) = n + 1
      /\ \A i \in 1..n : Append(log, entry)[i] = log[i]
      /\ Append(log, entry)[n + 1] = entry
  BY <1>1, <1>2, <1>3, AppendProperties
<1>5. PICK t : t = Append(log, entry)
  OBVIOUS
<1>6. t \in Seq(ToSet(t))
  BY <1>4, <1>5 DEF ToSet
<1> QED
  BY <1>3, <1>4, <1>5, <1>6 DEF IsSequence

LEMMA OperatedRow ==
  ASSUME NEW line, NEW s, IsRow(line), IsExplained(line, s), NEW shock, NEW o, o.field \in Fields,
         \E j \in DOMAIN s.shocks : s.shocks[j] = shock,
         NEW done, done = [line EXCEPT !.is[o.field] = Applied(@, o),
                                      !.log = Append(@, LogEntry(shock, o, line.is[o.field]))]
  PROVE  IsRow(done) /\ IsExplained(done, s)
<1>1. PICK value, entry : /\ value = Applied(line.is[o.field], o)
                          /\ entry = LogEntry(shock, o, line.is[o.field])
  OBVIOUS
<1>2. /\ entry.field = o.field /\ entry.before = line.is[o.field] /\ entry.after = value
      /\ entry.shock = shock.id
  BY <1>1 DEF LogEntry
<1>3. PICK log : log = Append(line.log, entry)
  OBVIOUS
<1>4. /\ DOMAIN done = DOMAIN line /\ done.log = log
      /\ done.is = [line.is EXCEPT ![o.field] = value]
  BY <1>1, <1>3 DEF IsRow
<1>5. DOMAIN done.is = Fields /\ done.is[o.field] = value
  BY <1>4 DEF IsRow
<1>6. \A f \in Fields : f # o.field => done.is[f] = line.is[f]
  BY <1>4 DEF IsRow
<1>7. PICK n \in Nat : /\ DOMAIN line.log = 1..n /\ DOMAIN log = 1..(n + 1)
                       /\ log[n + 1] = entry /\ \A i \in 1..n : log[i] = line.log[i]
                       /\ IsSequence(log)
  BY <1>3, AppendedEntry DEF IsRow
<1>8. IsRow(done)
  BY <1>4, <1>5, <1>7 DEF IsRow
<1>9. IsOfScenario(entry, s)
  BY <1>2 DEF IsOfScenario
<1>10. ASSUME NEW i \in 1..(n + 1) PROVE i \in 1..n \/ i = n + 1
  OBVIOUS
<1>11. \A i \in 1..n : i \in 1..(n + 1) /\ i < n + 1 /\ n + 1 > i
  OBVIOUS
<1>12. n + 1 \in 1..(n + 1)
  OBVIOUS
<1>13. ASSUME NEW i \in 1..(n + 1) PROVE log[i].field \in Fields /\ IsOfScenario(log[i], s)
  BY <1>2, <1>7, <1>9, <1>10 DEF IsExplained, Explains
<1>14. ASSUME NEW i \in 1..(n + 1), IsLast(log, i)
       PROVE  log[i].after = done.is[log[i].field]
  <2>1. CASE i = n + 1
    BY <1>2, <1>5, <1>7, <2>1
  <2>2. CASE i \in 1..n
    <3>1. log[i].field # o.field
      BY <1>2, <1>7, <1>11, <1>12, <1>14, <2>2 DEF IsLast
    <3>2. IsLast(line.log, i)
      BY <1>7, <1>11, <1>14, <2>2 DEF IsLast
    <3>3. line.log[i].after = line.is[line.log[i].field]
      BY <1>7, <2>2, <3>2 DEF IsExplained, Explains
    <3>4. line.log[i].field \in Fields
      BY <1>7, <2>2 DEF IsExplained, Explains
    <3> QED
      BY <1>6, <1>7, <2>2, <3>1, <3>3, <3>4
  <2> QED
    BY <1>10, <2>1, <2>2
<1>15. ASSUME NEW i \in 1..(n + 1), NEW j \in 1..(n + 1), IsNext(log, i, j)
       PROVE  log[i].after = log[j].before
  <2>1. i \in 1..n /\ j > i
    BY <1>15 DEF IsNext
  <2>2. CASE j \in 1..n
    <3>1. IsNext(line.log, i, j)
      BY <1>7, <1>11, <1>15, <2>1, <2>2 DEF IsNext
    <3> QED
      BY <1>7, <2>1, <2>2, <3>1 DEF IsExplained, Explains
  <2>3. CASE j = n + 1
    <3>1. line.log[i].field = o.field
      BY <1>2, <1>7, <1>15, <2>1, <2>3 DEF IsNext
    <3>2. IsLast(line.log, i)
      BY <1>7, <1>11, <1>15, <2>1, <2>3 DEF IsLast, IsNext
    <3>3. line.log[i].after = line.is[o.field]
      BY <1>7, <2>1, <3>1, <3>2 DEF IsExplained, Explains
    <3> QED
      BY <1>2, <1>7, <2>1, <2>3, <3>3
  <2> QED
    BY <1>10, <2>2, <2>3
<1>16. IsExplained(done, s)
  <2>1. Explains(log, done.is, s)
    BY <1>7, <1>13, <1>14, <1>15 DEF Explains
  <2> QED
    BY <1>4, <2>1 DEF IsExplained
<1> QED
  BY <1>8, <1>16

AreExplained(rows, s) == \A line \in rows : IsRow(line) /\ IsExplained(line, s)

(* What is read of a scenario as a list is one.                            *)
HasLists(s) ==
  /\ IsSequence(s.shocks)
  /\ \A shock \in ToSet(s.shocks) : IsSequence(shock.operations)

LEMMA OperationsAreOwn ==
  ASSUME NEW s, HasLists(s)
  PROVE  /\ Len(Operations(s)) \in Nat
         /\ \A k \in 1..Len(Operations(s)) :
              \E j \in DOMAIN s.shocks : s.shocks[j] = Operations(s)[k][1]
<1> DEFINE Pairs == UNION {{<<s.shocks[i], o>> : o \in ToSet(s.shocks[i].operations)} :
                             i \in DOMAIN s.shocks}
           part(i) == [j \in DOMAIN s.shocks[i].operations |->
                         <<s.shocks[i], s.shocks[i].operations[j]>>]
           parts == [i \in DOMAIN s.shocks |-> part(i)]
<1>1. PICK n \in Nat : DOMAIN s.shocks = 1..n
  BY DEF HasLists, IsSequence
<1>2. ASSUME NEW i \in 1..n PROVE part(i) \in Seq(Pairs)
  <2>1. s.shocks[i] \in ToSet(s.shocks)
    BY <1>1 DEF ToSet
  <2>2. PICK m \in Nat : DOMAIN s.shocks[i].operations = 1..m
    BY <2>1 DEF HasLists, IsSequence
  <2>3. \A j \in 1..m : <<s.shocks[i], s.shocks[i].operations[j]>> \in Pairs
    BY <1>1, <2>2 DEF ToSet
  <2> HIDE DEF Pairs
  <2> QED
    BY <2>2, <2>3
<1>3. parts \in [1..n -> Seq(Pairs)]
  <2> HIDE DEF Pairs, part
  <2> QED
    BY <1>1, <1>2
<1>4. Operations(s) \in Seq(Pairs)
  <2>1. FlattenSeq(parts) \in Seq(Pairs)
    <3> HIDE DEF Pairs, parts
    <3> QED
      BY <1>3, FlattenedFrom
  <2> QED
    BY <2>1 DEF Operations
<1>5. \A p \in Pairs : \E j \in DOMAIN s.shocks : s.shocks[j] = p[1]
  OBVIOUS
<1>6. PICK operations : operations = Operations(s)
  OBVIOUS
<1>7. Len(operations) \in Nat /\ \A k \in 1..Len(operations) : operations[k] \in Pairs
  <2> HIDE DEF Pairs
  <2> QED
    BY <1>4, <1>6
<1> HIDE DEF Pairs
<1> QED
  BY <1>5, <1>6, <1>7

LEMMA OperatedRows ==
  ASSUME NEW rows, NEW s, AreExplained(rows, s), NEW shock, NEW o,
         \E j \in DOMAIN s.shocks : s.shocks[j] = shock,
         ~OperationFails(rows, s, shock, o)
  PROVE  AreExplained(Operate(rows, s, shock, o), s)
<1>1. o.field \in Fields
  BY DEF OperationFails, OperationValid
<1>2. SUFFICES ASSUME NEW line \in rows, NEW done,
                      done = [line EXCEPT !.is[o.field] = Applied(@, o),
                                         !.log = Append(@, LogEntry(shock, o, line.is[o.field]))]
               PROVE  IsRow(done) /\ IsExplained(done, s)
  BY DEF AreExplained, Operate
<1> QED
  BY <1>1, <1>2, OperatedRow DEF AreExplained

(* The function by which OperateAll is defined exists.                     *)
LEMMA OperateAllUnfolds ==
  ASSUME NEW rows, NEW s, HasLists(s)
  PROVE  \E after : /\ OperateAll(rows, s) = after[Len(Operations(s))]
                    /\ after = [k \in 0..Len(Operations(s)) |->
                         IF k = 0 THEN [ok |-> TRUE, rows |-> rows]
                         ELSE OperateUnlessFailed(after[k - 1], s, Operations(s)[k][1],
                                                  Operations(s)[k][2])]
<1>1. PICK operations : operations = Operations(s)
  OBVIOUS
<1> DEFINE Unfold(f, k) ==
             IF k = 0 THEN [ok |-> TRUE, rows |-> rows]
             ELSE OperateUnlessFailed(f[k - 1], s, operations[k][1], operations[k][2])
           X == {n \in Nat : \E f : f = [k \in 0..n |-> Unfold(f, k)]}
<1>2. \A f, g, k : (k # 0 => f[k - 1] = g[k - 1]) => Unfold(f, k) = Unfold(g, k)
  OBVIOUS
<1> HIDE DEF Unfold
<1>3. 0 \in X
  <2> DEFINE g == [k \in 0..0 |-> Unfold(<<>>, k)]
  <2>1. \A k \in 0..0 : Unfold(<<>>, k) = Unfold(g, k)
    <3> HIDE DEF g
    <3> QED
      BY <1>2
  <2>2. g = [k \in 0..0 |-> Unfold(g, k)]
    BY <2>1
  <2> HIDE DEF g
  <2> QED
    BY <2>2
<1>4. ASSUME NEW n \in Nat, n \in X PROVE n + 1 \in X
  <2>1. PICK f : f = [k \in 0..n |-> Unfold(f, k)]
    BY <1>4
  <2> DEFINE g == [k \in 0..(n + 1) |-> IF k <= n THEN f[k] ELSE Unfold(f, k)]
  <2>2. \A k \in 0..(n + 1) : g[k] = Unfold(g, k)
    <3> SUFFICES ASSUME NEW k \in 0..(n + 1) PROVE g[k] = Unfold(g, k)
      OBVIOUS
    <3>1. k # 0 => k - 1 \in 0..n /\ g[k - 1] = f[k - 1]
      OBVIOUS
    <3>2. k <= n => f[k] = Unfold(f, k)
      BY <2>1
    <3>3. g[k] = Unfold(f, k)
      BY <3>2
    <3> QED
      BY <1>2, <3>1, <3>3
  <2>3. g = [k \in 0..(n + 1) |-> Unfold(g, k)]
    BY <2>2
  <2> HIDE DEF g
  <2> QED
    BY <2>3
<1>5. Len(operations) \in X
  <2>1. Len(operations) \in Nat
    BY <1>1, OperationsAreOwn
  <2> HIDE DEF X
  <2> QED
    BY <1>3, <1>4, <2>1, InductionOverNat
<1>6. PICK after : after = CHOOSE f : f = [k \in 0..Len(operations) |-> Unfold(f, k)]
  OBVIOUS
<1>7. after = [k \in 0..Len(operations) |-> Unfold(after, k)]
  BY <1>5, <1>6
<1>8. OperateAll(rows, s) = after[Len(operations)]
  BY <1>1, <1>6 DEF OperateAll, Unfold
<1> QED
  BY <1>1, <1>7, <1>8 DEF Unfold

(* When no operation fails, the logs explain the rows of a scenario.       *)
LEMMA OperateAllExplains ==
  ASSUME NEW rows, NEW s, HasLists(s), AreExplained(rows, s)
  PROVE  OperateAll(rows, s).ok => AreExplained(OperateAll(rows, s).rows, s)
<1>1. PICK operations : operations = Operations(s)
  OBVIOUS
<1>2. PICK n \in Nat : n = Len(operations)
  BY <1>1, OperationsAreOwn
<1>0. PICK after : /\ OperateAll(rows, s) = after[Len(Operations(s))]
                   /\ after = [k \in 0..Len(Operations(s)) |->
                        IF k = 0 THEN [ok |-> TRUE, rows |-> rows]
                        ELSE OperateUnlessFailed(after[k - 1], s, Operations(s)[k][1],
                                                 Operations(s)[k][2])]
  BY OperateAllUnfolds
<1>3. /\ OperateAll(rows, s) = after[n]
      /\ after = [k \in 0..n |->
           IF k = 0 THEN [ok |-> TRUE, rows |-> rows]
           ELSE OperateUnlessFailed(after[k - 1], s, operations[k][1], operations[k][2])]
  BY <1>0, <1>1, <1>2
<1> DEFINE Good(c) == DOMAIN c = {"ok", "rows"} /\ (c.ok => AreExplained(c.rows, s))
           X == {k \in Nat : k <= n => Good(after[k])}
<1>4. 0 \in X
  <2>1. 0 \in 0..n
    OBVIOUS
  <2>2. after[0] = [ok |-> TRUE, rows |-> rows]
    BY <1>3, <2>1
  <2> QED
    BY <2>2
<1>5. ASSUME NEW k \in Nat, k \in X PROVE k + 1 \in X
  <2> SUFFICES ASSUME k + 1 <= n PROVE Good(after[k + 1])
    OBVIOUS
  <2>1. k + 1 \in 0..n /\ k + 1 # 0 /\ (k + 1) - 1 = k /\ k <= n /\ k + 1 \in 1..n
    OBVIOUS
  <2>2. PICK c, shock, o : c = after[k] /\ shock = operations[k + 1][1] /\ o = operations[k + 1][2]
    OBVIOUS
  <2>3. after[k + 1] = OperateUnlessFailed(c, s, shock, o)
    BY <1>3, <2>1, <2>2
  <2>4. Good(c)
    BY <1>5, <2>1, <2>2
  <2>5. \E j \in DOMAIN s.shocks : s.shocks[j] = shock
    BY <1>1, <1>2, <2>1, <2>2, OperationsAreOwn
  <2>6. CASE ~c.ok \/ OperationFails(c.rows, s, shock, o)
    <3>1. after[k + 1] = [c EXCEPT !.ok = FALSE]
      BY <2>3, <2>6 DEF OperateUnlessFailed
    <3> QED
      BY <2>4, <3>1
  <2>7. CASE c.ok /\ ~OperationFails(c.rows, s, shock, o)
    <3>1. after[k + 1] = [c EXCEPT !.rows = Operate(@, s, shock, o)]
      BY <2>3, <2>7 DEF OperateUnlessFailed
    <3>2. after[k + 1].rows = Operate(c.rows, s, shock, o) /\ DOMAIN after[k + 1] = DOMAIN c
      BY <2>4, <3>1
    <3>3. AreExplained(Operate(c.rows, s, shock, o), s)
      BY <2>4, <2>5, <2>7, OperatedRows
    <3> QED
      BY <2>4, <3>2, <3>3
  <2> QED
    BY <2>6, <2>7
<1>6. n \in X
  <2> HIDE DEF X
  <2> QED
    BY <1>4, <1>5, InductionOverNat
<1> QED
  BY <1>3, <1>6

-------------------------------------------------------------------------------
(* ScenarioSeed: what is compiled.                                         *)

LEMMA AppendedTo ==
  ASSUME NEW log, IsSequence(log), NEW n \in Nat, DOMAIN log = 1..n, NEW entry
  PROVE  /\ IsSequence(Append(log, entry)) /\ DOMAIN Append(log, entry) = 1..(n + 1)
         /\ Append(log, entry)[n + 1] = entry
         /\ \A i \in 1..n : Append(log, entry)[i] = log[i]
<1>1. PICK m \in Nat : /\ DOMAIN log = 1..m
                       /\ DOMAIN Append(log, entry) = 1..(m + 1)
                       /\ Append(log, entry)[m + 1] = entry
                       /\ \A i \in 1..m : Append(log, entry)[i] = log[i]
                       /\ IsSequence(Append(log, entry))
  BY AppendedEntry
<1>2. m = n
  BY <1>1
<1> QED
  BY <1>1, <1>2

LEMMA TwoFiles ==
  ASSUME NEW x, NEW y
  PROVE  IsSequence(<<x, y>>) /\ ToSet(<<x, y>>) = {x, y}
<1>1. <<x, y>> \in Seq({x, y})
  OBVIOUS
<1>2. ToSet(<<x, y>>) = {<<x, y>>[i] : i \in 1..2}
  BY DEF ToSet
<1>3. 1..2 = {1, 2}
  OBVIOUS
<1>4. ToSet(<<x, y>>) = {x, y}
  BY <1>2, <1>3
<1> QED
  BY <1>1, <1>4 DEF IsSequence

LEMMA ThreeFiles ==
  ASSUME NEW x, NEW y, NEW z
  PROVE  IsSequence(<<x, y, z>>) /\ ToSet(<<x, y, z>>) = {x, y, z}
<1>1. <<x, y, z>> \in Seq({x, y, z})
  OBVIOUS
<1>2. ToSet(<<x, y, z>>) = {<<x, y, z>>[i] : i \in 1..3}
  BY DEF ToSet
<1>3. 1..3 = {1, 2, 3}
  OBVIOUS
<1>4. ToSet(<<x, y, z>>) = {x, y, z}
  BY <1>2, <1>3
<1> QED
  BY <1>1, <1>4 DEF IsSequence

(* The paths of the files.                                                 *)
LEMMA PathsDiffer ==
  /\ \A p \in {<<"baseline">>, <<"catalog_snapshot">>, <<"scenario_spec_snapshot">>,
               <<"eval_cases_public">>, <<"eval_cases_private">>, <<"eval_case_manifest">>,
               Report, Manifest, Temporary} :
       \A id : RowsOf(id) # p /\ TruthOf(id) # p
  /\ \A x, y : RowsOf(x) # TruthOf(y)
  /\ \A x, y : RowsOf(x) = RowsOf(y) => x = y
  /\ \A x, y : TruthOf(x) = TruthOf(y) => x = y
<1>1. \A x, y, z : <<x, y>> # <<z>>
  <2> SUFFICES ASSUME NEW x, NEW y, NEW z, <<x, y>> = <<z>> PROVE FALSE
    OBVIOUS
  <2>1. Len(<<x, y>>) = 2 /\ Len(<<z>>) = 1
    OBVIOUS
  <2> QED
    BY <2>1
<1> QED
  BY <1>1 DEF RowsOf, TruthOf, Report, Manifest, Temporary

LEMMA BaselineIsExplained ==
  ASSUME NEW set, NEW catalog, NEW seed, NEW s
  PROVE  AreExplained(RelevantRows(BaselineRows(set, catalog, seed), s), s)
<1>1. \A line \in RelevantRows(BaselineRows(set, catalog, seed), s) :
        \E day, entity : line = BaselineRow(catalog, seed, day, entity)
  <2> DEFINE D == UNION {RelevantDates(set[i]) : i \in DOMAIN set}
  <2>1. PICK days, entities : days = Min(D)..Max(D) /\ entities = Entities(catalog)
    OBVIOUS
  <2>2. BaselineRows(set, catalog, seed) =
          {BaselineRow(catalog, seed, day, entity) : day \in days, entity \in entities}
    BY <2>1 DEF BaselineRows
  <2>3. ASSUME NEW line \in BaselineRows(set, catalog, seed)
        PROVE  \E day \in days, entity \in entities : line = BaselineRow(catalog, seed, day, entity)
    BY <2>2
  <2> QED
    BY <2>3 DEF RelevantRows
<1>2. ASSUME NEW day, NEW entity
      PROVE  IsRow(BaselineRow(catalog, seed, day, entity))
             /\ IsExplained(BaselineRow(catalog, seed, day, entity), s)
  <2>1. PICK line : line = BaselineRow(catalog, seed, day, entity)
    OBVIOUS
  <2>2. DOMAIN line = {"day", "at", "is", "log"} /\ line.log = <<>> /\ DOMAIN line.is = Fields
    BY <2>1 DEF BaselineRow, Fields
  <2>3. IsSequence(<<>>) /\ Explains(<<>>, line.is, s)
    BY DEF IsSequence, ToSet, Explains
  <2> QED
    BY <2>1, <2>2, <2>3 DEF IsRow, IsExplained
<1> QED
  BY <1>1, <1>2 DEF AreExplained

Lowest(input)  == BaselineRows(input.scenarios, input.catalog, input.seed)
Made(input, i) == OperateAll(RelevantRows(Lowest(input), input.scenarios[i]), input.scenarios[i])
Label(input, i) == TruthOfScenario(input.scenarios[i], i, input.seed, Made(input, i).rows)

Snapshots(input) ==
  {File(<<"baseline">>, <<input.catalog, input.seed>>),
   File(<<"catalog_snapshot">>, input.catalog),
   File(<<"scenario_spec_snapshot">>, input.scenarios)}

RowFiles(input, n) == {File(RowsOf(input.scenarios[j].id), Made(input, j).rows) : j \in 1..n}
LabelFiles(input, n) == {File(TruthOf(input.scenarios[j].id), Label(input, j)) : j \in 1..n}

(* Files, none of which is a manifest.                                     *)
AreData(list) == IsSequence(list) /\ \A f \in ToSet(list) : f.path # Manifest

(* The first n scenarios are compiled as if each were alone.               *)
IsMadeUpTo(input, n, c) ==
  /\ DOMAIN c = {"ok", "baseline", "rows", "truths", "todo"}
  /\ AreData(c.todo)
  /\ c.ok =>
       /\ c.baseline = Lowest(input)
       /\ IsSequence(c.rows) /\ DOMAIN c.rows = 1..n
       /\ IsSequence(c.truths) /\ DOMAIN c.truths = 1..n
       /\ \A j \in 1..n : /\ Made(input, j).ok /\ c.rows[j] = Made(input, j).rows
                          /\ c.truths[j] = Label(input, j)
       /\ ToSet(c.todo) = Snapshots(input) \cup RowFiles(input, n) \cup LabelFiles(input, n)

LEMMA NoneIsMade ==
  ASSUME NEW input
  PROVE  IsMadeUpTo(input, 0, NoScenario(input))
<1>1. PICK c : c = NoScenario(input)
  OBVIOUS
<1>2. PICK a, b, d : /\ a = File(<<"baseline">>, <<input.catalog, input.seed>>)
                     /\ b = File(<<"catalog_snapshot">>, input.catalog)
                     /\ d = File(<<"scenario_spec_snapshot">>, input.scenarios)
  OBVIOUS
<1>3. /\ DOMAIN c = {"ok", "baseline", "rows", "truths", "todo"}
      /\ c.baseline = Lowest(input) /\ c.rows = <<>> /\ c.truths = <<>> /\ c.todo = <<a, b, d>>
  BY <1>1, <1>2 DEF NoScenario, Lowest
<1>4. IsSequence(<<a, b, d>>) /\ ToSet(<<a, b, d>>) = {a, b, d}
  BY ThreeFiles
<1>5. a.path # Manifest /\ b.path # Manifest /\ d.path # Manifest
  BY <1>2 DEF File, Manifest
<1>6. IsSequence(<<>>) /\ DOMAIN <<>> = 1..0
  BY DEF IsSequence, ToSet
<1>7. 1..0 = {}
  OBVIOUS
<1>8. RowFiles(input, 0) = {} /\ LabelFiles(input, 0) = {}
  BY <1>7 DEF RowFiles, LabelFiles
<1>9. Snapshots(input) = {a, b, d}
  BY <1>2 DEF Snapshots
<1>10. AreData(c.todo)
  BY <1>3, <1>4, <1>5 DEF AreData
<1> QED
  BY <1>1, <1>3, <1>4, <1>6, <1>7, <1>8, <1>9, <1>10 DEF IsMadeUpTo

LEMMA OneMoreIsMade ==
  ASSUME NEW input, NEW n \in Nat, NEW c, IsMadeUpTo(input, n, c),
         NEW s, s = input.scenarios[n + 1]
  PROVE  IsMadeUpTo(input, n + 1, AddComposed(c, s, n + 1, input.seed, Compose(c.baseline, s)))
<1>1. PICK composed : composed = Compose(c.baseline, s)
  OBVIOUS
<1>2. PICK truth : truth = TruthOfScenario(s, n + 1, input.seed, composed.rows)
  OBVIOUS
<1>3. PICK d : d = AddScenario(c, s, composed, truth)
  OBVIOUS
<1>4. AddComposed(c, s, n + 1, input.seed, Compose(c.baseline, s)) = d
  BY <1>1, <1>2, <1>3 DEF AddComposed
<1>5. CASE d = [c EXCEPT !.ok = FALSE]
  <2>1. DOMAIN d = DOMAIN c /\ ~d.ok /\ d.todo = c.todo
    BY <1>5 DEF IsMadeUpTo
  <2> QED
    BY <1>4, <2>1 DEF IsMadeUpTo
<1>6. CASE d # [c EXCEPT !.ok = FALSE]
  <2>1. c.ok /\ composed.ok
    BY <1>3, <1>6 DEF AddScenario
  <2>2. PICK x, y : x = File(RowsOf(s.id), composed.rows) /\ y = File(TruthOf(s.id), truth)
    OBVIOUS
  <2>3. d = [c EXCEPT !.baseline = composed.baseline,
                      !.rows = Append(@, composed.rows),
                      !.truths = Append(@, truth),
                      !.todo = @ \o <<x, y>>]
    BY <1>3, <1>6, <2>2 DEF AddScenario
  <2>4. /\ DOMAIN d = DOMAIN c /\ d.baseline = composed.baseline
        /\ d.rows = Append(c.rows, composed.rows) /\ d.truths = Append(c.truths, truth)
        /\ d.todo = Cat(c.todo, <<x, y>>)
    BY <2>3 DEF IsMadeUpTo, Cat
  <2>5. c.baseline = Lowest(input)
    BY <2>1 DEF IsMadeUpTo
  <2>6. /\ composed.ok = Made(input, n + 1).ok /\ composed.rows = Made(input, n + 1).rows
        /\ composed.baseline = Lowest(input)
    BY <1>1, <2>5 DEF Compose, WithBaseline, Made
  <2>7. truth = Label(input, n + 1)
    BY <1>2, <2>6 DEF Label
  <2>8. /\ IsSequence(d.rows) /\ DOMAIN d.rows = 1..(n + 1) /\ d.rows[n + 1] = composed.rows
        /\ \A j \in 1..n : d.rows[j] = c.rows[j]
    <3>1. IsSequence(c.rows) /\ DOMAIN c.rows = 1..n
      BY <2>1 DEF IsMadeUpTo
    <3> QED
      BY <2>4, <3>1, AppendedTo
  <2>9. /\ IsSequence(d.truths) /\ DOMAIN d.truths = 1..(n + 1) /\ d.truths[n + 1] = truth
        /\ \A j \in 1..n : d.truths[j] = c.truths[j]
    <3>1. IsSequence(c.truths) /\ DOMAIN c.truths = 1..n
      BY <2>1 DEF IsMadeUpTo
    <3> QED
      BY <2>4, <3>1, AppendedTo
  <2>10. IsSequence(<<x, y>>) /\ ToSet(<<x, y>>) = {x, y}
    BY TwoFiles
  <2>11. IsSequence(d.todo) /\ ToSet(d.todo) = ToSet(c.todo) \cup {x, y}
    <3>1. IsSequence(c.todo)
      BY DEF IsMadeUpTo, AreData
    <3>2. PICK z : z = <<x, y>>
      OBVIOUS
    <3>3. IsSequence(Cat(c.todo, z)) /\ ToSet(Cat(c.todo, z)) = ToSet(c.todo) \cup ToSet(z)
      BY <2>10, <3>1, <3>2, SequencesJoined
    <3> QED
      BY <2>4, <2>10, <3>2, <3>3
  <2>12. AreData(d.todo)
    <3>1. x.path # Manifest /\ y.path # Manifest
      BY <2>2, PathsDiffer DEF File
    <3> QED
      BY <2>11, <3>1 DEF IsMadeUpTo, AreData
  <2>13. 1..(n + 1) = (1..n) \cup {n + 1}
    OBVIOUS
  <2>14. /\ RowFiles(input, n + 1) = RowFiles(input, n) \cup {x}
         /\ LabelFiles(input, n + 1) = LabelFiles(input, n) \cup {y}
    BY <2>2, <2>6, <2>7, <2>13 DEF RowFiles, LabelFiles
  <2>15. ToSet(d.todo) = Snapshots(input) \cup RowFiles(input, n + 1) \cup LabelFiles(input, n + 1)
    BY <2>1, <2>11, <2>14 DEF IsMadeUpTo
  <2>16. \A j \in 1..(n + 1) : /\ Made(input, j).ok /\ d.rows[j] = Made(input, j).rows
                               /\ d.truths[j] = Label(input, j)
    BY <2>1, <2>6, <2>7, <2>8, <2>9, <2>13 DEF IsMadeUpTo
  <2>17. DOMAIN d = {"ok", "baseline", "rows", "truths", "todo"}
    BY <2>4 DEF IsMadeUpTo
  <2> QED
    BY <1>4, <2>4, <2>6, <2>8, <2>9, <2>12, <2>15, <2>16, <2>17 DEF IsMadeUpTo
<1> QED
  BY <1>5, <1>6

(* The function by which Scenarios is defined exists.                      *)
LEMMA ScenariosUnfold ==
  ASSUME NEW input, NEW n \in Nat, n = Len(input.scenarios)
  PROVE  \E after : /\ Scenarios(input) = after[n]
                    /\ after = [i \in 0..n |->
                         IF i = 0 THEN NoScenario(input)
                         ELSE AddComposed(after[i - 1], input.scenarios[i], i, input.seed,
                                          Compose(after[i - 1].baseline, input.scenarios[i]))]
<1> DEFINE Unfold(f, i) ==
             IF i = 0 THEN NoScenario(input)
             ELSE AddComposed(f[i - 1], input.scenarios[i], i, input.seed,
                              Compose(f[i - 1].baseline, input.scenarios[i]))
           X == {m \in Nat : \E f : f = [i \in 0..m |-> Unfold(f, i)]}
<1>1. \A f, g, i : (i # 0 => f[i - 1] = g[i - 1]) => Unfold(f, i) = Unfold(g, i)
  OBVIOUS
<1> HIDE DEF Unfold
<1>2. 0 \in X
  <2> DEFINE g == [i \in 0..0 |-> Unfold(<<>>, i)]
  <2>1. \A i \in 0..0 : Unfold(<<>>, i) = Unfold(g, i)
    <3> HIDE DEF g
    <3> QED
      BY <1>1
  <2>2. g = [i \in 0..0 |-> Unfold(g, i)]
    BY <2>1
  <2> HIDE DEF g
  <2> QED
    BY <2>2
<1>3. ASSUME NEW m \in Nat, m \in X PROVE m + 1 \in X
  <2>1. PICK f : f = [i \in 0..m |-> Unfold(f, i)]
    BY <1>3
  <2> DEFINE g == [i \in 0..(m + 1) |-> IF i <= m THEN f[i] ELSE Unfold(f, i)]
  <2>2. \A i \in 0..(m + 1) : g[i] = Unfold(g, i)
    <3> SUFFICES ASSUME NEW i \in 0..(m + 1) PROVE g[i] = Unfold(g, i)
      OBVIOUS
    <3>1. i # 0 => i - 1 \in 0..m /\ g[i - 1] = f[i - 1]
      OBVIOUS
    <3>2. i <= m => f[i] = Unfold(f, i)
      BY <2>1
    <3>3. g[i] = Unfold(f, i)
      BY <3>2
    <3> QED
      BY <1>1, <3>1, <3>3
  <2>3. g = [i \in 0..(m + 1) |-> Unfold(g, i)]
    BY <2>2
  <2> HIDE DEF g
  <2> QED
    BY <2>3
<1>4. n \in X
  <2> HIDE DEF X
  <2> QED
    BY <1>2, <1>3, InductionOverNat
<1>5. PICK after : after = CHOOSE f : f = [i \in 0..n |-> Unfold(f, i)]
  OBVIOUS
<1>6. after = [i \in 0..n |-> Unfold(after, i)]
  BY <1>4, <1>5
<1>7. Scenarios(input) = after[n]
  BY <1>5 DEF Scenarios, Unfold
<1> QED
  BY <1>6, <1>7 DEF Unfold

LEMMA AllAreMade ==
  ASSUME NEW input, NEW n \in Nat, n = Len(input.scenarios)
  PROVE  IsMadeUpTo(input, n, Scenarios(input))
<1>1. PICK after : /\ Scenarios(input) = after[n]
                   /\ after = [i \in 0..n |->
                        IF i = 0 THEN NoScenario(input)
                        ELSE AddComposed(after[i - 1], input.scenarios[i], i, input.seed,
                                         Compose(after[i - 1].baseline, input.scenarios[i]))]
  BY ScenariosUnfold
<1> DEFINE X == {i \in Nat : i <= n => IsMadeUpTo(input, i, after[i])}
<1>2. 0 \in X
  <2>1. 0 \in 0..n
    OBVIOUS
  <2>2. after[0] = NoScenario(input)
    BY <1>1, <2>1
  <2> QED
    BY <2>2, NoneIsMade
<1>3. ASSUME NEW i \in Nat, i \in X PROVE i + 1 \in X
  <2> SUFFICES ASSUME i + 1 <= n PROVE IsMadeUpTo(input, i + 1, after[i + 1])
    OBVIOUS
  <2>1. i + 1 \in 0..n /\ i + 1 # 0 /\ (i + 1) - 1 = i /\ i <= n
    OBVIOUS
  <2>2. PICK c, s : c = after[i] /\ s = input.scenarios[i + 1]
    OBVIOUS
  <2>3. after[i + 1] = AddComposed(c, s, i + 1, input.seed, Compose(c.baseline, s))
    BY <1>1, <2>1, <2>2
  <2>4. IsMadeUpTo(input, i, c)
    BY <1>3, <2>1, <2>2
  <2> QED
    BY <2>2, <2>3, <2>4, OneMoreIsMade
<1>4. n \in X
  <2> HIDE DEF X
  <2> QED
    BY <1>2, <1>3, InductionOverNat
<1> QED
  BY <1>1, <1>4

Public  == <<"eval_cases_public">>
Private == <<"eval_cases_private">>

(* The files of a data set have all that a manifest vouches for.           *)
AreTruthsOf(truths, set, seed, data) ==
  /\ File(Public, PublicCases(set)) \in data
  /\ File(Private, truths) \in data
  /\ \A i \in DOMAIN set :
       LET s == set[i]
       IN  \E rows, truth :
             /\ File(RowsOf(s.id), rows) \in data /\ File(TruthOf(s.id), truth) \in data
             /\ truth = TruthOfScenario(s, i, seed, rows) /\ truths[i] = truth
             /\ EffectValid(s, rows) /\ ControlsValid(s, rows) /\ LogsExplain(rows, s)

Vouched(input, data) ==
  /\ \A f, g \in data : f.path = g.path => f = g
  /\ \E truths : AreTruthsOf(truths, input.scenarios, input.seed, data)

(* What is written for an input: data, and the manifest after them when    *)
(* all is well.                                                            *)
IsCompiled(input, c) ==
  IF c.end = "ok"
  THEN \E data : /\ c.todo = Cat(data, <<File(Manifest, ManifestOf(input))>>)
                 /\ AreData(data) /\ Vouched(input, ToSet(data))
  ELSE AreData(c.todo)

(* The files beside those of the scenarios.                                *)
CaseSet(input, truths) ==
  {File(Public, PublicCases(input.scenarios)), File(Private, truths),
   File(<<"eval_case_manifest">>, <<PublicCases(input.scenarios), truths>>),
   File(Report, TRUE)}

DataSet(input, n, truths) ==
  Snapshots(input) \cup RowFiles(input, n) \cup LabelFiles(input, n) \cup CaseSet(input, truths)

LEMMA PathsAreOwn ==
  ASSUME NEW input, NEW n \in Nat,
         \A i, j \in 1..n : input.scenarios[i].id = input.scenarios[j].id => i = j, NEW truths
  PROVE  \A f, g \in DataSet(input, n, truths) : f.path = g.path => f = g
<1> DEFINE others == Snapshots(input) \cup CaseSet(input, truths)
<1>0. \A path, content : File(path, content).path = path
  BY DEF File
<1>1. \A f, g \in others : f.path = g.path => f = g
  <2> DEFINE content(name) ==
               CASE name = "baseline"               -> <<input.catalog, input.seed>>
                 [] name = "catalog_snapshot"       -> input.catalog
                 [] name = "scenario_spec_snapshot" -> input.scenarios
                 [] name = "eval_cases_public"      -> PublicCases(input.scenarios)
                 [] name = "eval_cases_private"     -> truths
                 [] name = "eval_case_manifest"     -> <<PublicCases(input.scenarios), truths>>
                 [] OTHER                           -> TRUE
  <2>1. /\ content("baseline") = <<input.catalog, input.seed>>
        /\ content("catalog_snapshot") = input.catalog
        /\ content("scenario_spec_snapshot") = input.scenarios
        /\ content("eval_cases_public") = PublicCases(input.scenarios)
        /\ content("eval_cases_private") = truths
        /\ content("eval_case_manifest") = <<PublicCases(input.scenarios), truths>>
        /\ content("data_quality_report") = TRUE
    OBVIOUS
  <2> HIDE DEF content
  <2>2. \A f \in Snapshots(input) : \E name : f = File(<<name>>, content(name))
    BY <2>1 DEF Snapshots
  <2>3. \A f \in CaseSet(input, truths) : \E name : f = File(<<name>>, content(name))
    BY <2>1 DEF CaseSet, Public, Private, Report
  <2>4. \A f \in others : \E name : f = File(<<name>>, content(name))
    BY <2>2, <2>3
  <2> HIDE DEF others
  <2> SUFFICES ASSUME NEW f \in others, NEW g \in others, f.path = g.path PROVE f = g
    OBVIOUS
  <2>5. PICK x : f = File(<<x>>, content(x))
    BY <2>4
  <2>6. PICK y : g = File(<<y>>, content(y))
    BY <2>4
  <2>7. <<x>> = <<y>>
    BY <1>0, <2>5, <2>6
  <2>8. x = y
    BY <2>7
  <2> QED
    BY <2>5, <2>6, <2>8
<1>2. \A f \in others : \A id : f.path # RowsOf(id) /\ f.path # TruthOf(id)
  BY PathsDiffer DEF Snapshots, CaseSet, File, Public, Private
<1>3. \A f \in RowFiles(input, n) : \E j \in 1..n :
        f = File(RowsOf(input.scenarios[j].id), Made(input, j).rows)
  BY DEF RowFiles
<1>4. \A f \in LabelFiles(input, n) : \E j \in 1..n :
        f = File(TruthOf(input.scenarios[j].id), Label(input, j))
  BY DEF LabelFiles
<1> HIDE DEF others
<1>7. \A f, g \in RowFiles(input, n) : f.path = g.path => f = g
  BY <1>0, <1>3, PathsDiffer
<1>8. \A f, g \in LabelFiles(input, n) : f.path = g.path => f = g
  BY <1>0, <1>4, PathsDiffer
<1>9. \A f \in RowFiles(input, n), g \in LabelFiles(input, n) : f.path # g.path
  BY <1>0, <1>3, <1>4, PathsDiffer
<1>10. \A f \in others, g \in RowFiles(input, n) \cup LabelFiles(input, n) : f.path # g.path
  BY <1>0, <1>2, <1>3, <1>4
<1>11. DataSet(input, n, truths) = others \cup RowFiles(input, n) \cup LabelFiles(input, n)
  BY DEF DataSet, others
<1> QED
  BY <1>1, <1>7, <1>8, <1>9, <1>10, <1>11

LEMMA OneAfterTheOther ==
  ASSUME NEW s, IsSequence(s), NEW x, NEW y
  PROVE  Cat(s, <<x, y>>) = Cat(Cat(s, <<x>>), <<y>>)
<1> DEFINE S == ToSet(s) \cup {x, y}
<1>1. s \in Seq(S)
  BY DEF IsSequence
<1>2. x \in S /\ y \in S
  OBVIOUS
<1> HIDE DEF S
<1>3. <<x>> \in Seq(S) /\ <<y>> \in Seq(S) /\ <<x, y>> \in Seq(S)
  BY <1>2
<1>4. PICK t : t = <<x>> \o <<y>>
  OBVIOUS
<1>5. t \in Seq(S) /\ Len(t) = 2 /\ t[1] = x /\ t[2] = y
  <2>1. Len(<<x>>) = 1 /\ Len(<<y>>) = 1
    OBVIOUS
  <2>2. /\ t \in Seq(S) /\ Len(t) = 1 + 1
        /\ \A i \in 1..(1 + 1) : t[i] = IF i <= 1 THEN <<x>>[i] ELSE <<y>>[i - 1]
    BY <1>3, <1>4, <2>1, ConcatProperties
  <2>3. t[1] = <<x>>[1] /\ t[2] = <<y>>[1]
    BY <2>2
  <2> QED
    BY <2>2, <2>3
<1>6. t = <<x, y>>
  BY <1>5
<1> QED
  BY <1>1, <1>3, <1>4, <1>6, ConcatAssociative DEF Cat

LEMMA InputsHaveLists ==
  ASSUME NEW input \in Inputs
  PROVE  /\ Len(input.scenarios) \in Nat /\ DOMAIN input.scenarios = 1..Len(input.scenarios)
         /\ \A i \in DOMAIN input.scenarios : HasLists(input.scenarios[i])
<1>1. input.scenarios \in Seq(ToSet(input.scenarios))
  BY InputsAssumption
<1>2. \A i \in DOMAIN input.scenarios : input.scenarios[i] \in ToSet(input.scenarios)
  BY DEF ToSet
<1> QED
  BY <1>1, <1>2, InputsAssumption DEF HasLists, IsSequence

(* A data set that is complete has what a manifest vouches for.            *)
LEMMA CompleteIsVouched ==
  ASSUME NEW input \in Inputs, NEW n \in Nat, n = Len(input.scenarios),
         LoadedInput(input) = "ok", NEW c, IsMadeUpTo(input, n, c), c.ok,
         QualityValid(input.scenarios, c.rows)
  PROVE  Vouched(input, ToSet(c.todo) \cup CaseSet(input, c.truths))
<1>1. PICK truths, data : truths = c.truths /\ data = ToSet(c.todo) \cup CaseSet(input, c.truths)
  OBVIOUS
<1>2. DOMAIN input.scenarios = 1..n /\ \A i \in 1..n : HasLists(input.scenarios[i])
  BY InputsHaveLists
<1>4. data = DataSet(input, n, truths)
  BY <1>1 DEF IsMadeUpTo, DataSet
<1>5. \A f, g \in data : f.path = g.path => f = g
  <2>1. Loaded(input.scenarios, input.catalog) = "ok"
    BY DEF LoadedInput
  <2>2. IsInjective([i \in 1..n |-> input.scenarios[i].id])
    BY <1>2, <2>1 DEF Loaded
  <2>3. \A i, j \in 1..n : input.scenarios[i].id = input.scenarios[j].id => i = j
    BY <2>2 DEF IsInjective
  <2> QED
    BY <1>4, <2>3, PathsAreOwn
<1>6. File(Public, PublicCases(input.scenarios)) \in data /\ File(Private, truths) \in data
  BY <1>4 DEF DataSet, CaseSet
<1>7. ASSUME NEW i \in 1..n, NEW s, s = input.scenarios[i], NEW rows, rows = Made(input, i).rows
      PROVE  /\ File(RowsOf(s.id), rows) \in data /\ File(TruthOf(s.id), Label(input, i)) \in data
             /\ Label(input, i) = TruthOfScenario(s, i, input.seed, rows)
             /\ truths[i] = Label(input, i)
             /\ EffectValid(s, rows) /\ ControlsValid(s, rows) /\ LogsExplain(rows, s)
  <2>1. File(RowsOf(s.id), rows) \in RowFiles(input, n)
    BY <1>7 DEF RowFiles
  <2>2. File(TruthOf(s.id), Label(input, i)) \in LabelFiles(input, n)
    BY <1>7 DEF LabelFiles
  <2>3. Made(input, i).ok /\ c.rows[i] = rows /\ truths[i] = Label(input, i)
    BY <1>1, <1>7 DEF IsMadeUpTo
  <2>4. EffectValid(s, rows) /\ ControlsValid(s, rows)
    BY <1>2, <1>7, <2>3 DEF QualityValid
  <2>5. AreExplained(RelevantRows(Lowest(input), s), s)
    BY BaselineIsExplained DEF Lowest
  <2>6. AreExplained(rows, s)
    BY <1>2, <1>7, <2>3, <2>5, OperateAllExplains DEF Made
  <2>7. LogsExplain(rows, s)
    BY <2>6, ExplainedRows DEF AreExplained
  <2>8. Label(input, i) = TruthOfScenario(s, i, input.seed, rows)
    BY <1>7 DEF Label
  <2> QED
    BY <1>4, <2>1, <2>2, <2>3, <2>4, <2>7, <2>8 DEF DataSet
<1>8. \A i \in DOMAIN input.scenarios :
        LET s == input.scenarios[i]
        IN  \E rows, truth :
              /\ File(RowsOf(s.id), rows) \in data /\ File(TruthOf(s.id), truth) \in data
              /\ truth = TruthOfScenario(s, i, input.seed, rows) /\ truths[i] = truth
              /\ EffectValid(s, rows) /\ ControlsValid(s, rows) /\ LogsExplain(rows, s)
  <2> SUFFICES ASSUME NEW i \in DOMAIN input.scenarios, NEW s, s = input.scenarios[i]
               PROVE  \E rows, truth :
                 /\ File(RowsOf(s.id), rows) \in data /\ File(TruthOf(s.id), truth) \in data
                 /\ truth = TruthOfScenario(s, i, input.seed, rows) /\ truths[i] = truth
                 /\ EffectValid(s, rows) /\ ControlsValid(s, rows) /\ LogsExplain(rows, s)
    OBVIOUS
  <2>1. PICK rows, truth : rows = Made(input, i).rows /\ truth = Label(input, i)
    OBVIOUS
  <2>2. /\ File(RowsOf(s.id), rows) \in data /\ File(TruthOf(s.id), truth) \in data
        /\ truth = TruthOfScenario(s, i, input.seed, rows) /\ truths[i] = truth
        /\ EffectValid(s, rows) /\ ControlsValid(s, rows) /\ LogsExplain(rows, s)
    BY <1>2, <1>7, <2>1
  <2> QED
    BY <2>2
<1> QED
  BY <1>1, <1>5, <1>6, <1>8 DEF Vouched, AreTruthsOf

(* compile_scenario_dataset, for every input.                              *)
LEMMA EveryInputIsCompiled ==
  ASSUME NEW input \in Inputs
  PROVE  IsCompiled(input, Compile(input))
<1>1. PICK sc, n : sc = Scenarios(input) /\ n = Len(input.scenarios)
  OBVIOUS
<1>2. n \in Nat /\ IsMadeUpTo(input, n, sc)
  BY <1>1, InputsHaveLists, AllAreMade
<1>3. AreData(<<>>)
  BY DEF AreData, IsSequence, ToSet
<1>4. \A end, list : Compilation(end, list).end = end /\ Compilation(end, list).todo = list
  BY DEF Compilation
<1>5. ASSUME NEW list, AreData(list) PROVE IsCompiled(input, Compilation("refused", list))
  BY <1>4, <1>5 DEF IsCompiled
<1>6. PICK done : done = Cat(sc.todo, CaseFiles(input.scenarios, sc.truths))
  OBVIOUS
<1>7. PICK x, y, z : /\ x = File(Public, PublicCases(input.scenarios))
                     /\ y = File(Private, sc.truths)
                     /\ z = File(<<"eval_case_manifest">>, <<PublicCases(input.scenarios), sc.truths>>)
  OBVIOUS
<1>8. AreData(done) /\ ToSet(done) = ToSet(sc.todo) \cup {x, y, z}
  <2>1. CaseFiles(input.scenarios, sc.truths) = <<x, y, z>>
    BY <1>7 DEF CaseFiles, Public, Private
  <2>2. PICK cases : cases = CaseFiles(input.scenarios, sc.truths)
    OBVIOUS
  <2>3. IsSequence(cases) /\ ToSet(cases) = {x, y, z}
    BY <2>1, <2>2, ThreeFiles
  <2>4. IsSequence(done) /\ ToSet(done) = ToSet(sc.todo) \cup {x, y, z}
    BY <1>2, <1>6, <2>2, <2>3, SequencesJoined DEF IsMadeUpTo, AreData
  <2>5. x.path # Manifest /\ y.path # Manifest /\ z.path # Manifest
    BY <1>7 DEF File, Public, Private, Manifest
  <2> QED
    BY <1>2, <2>4, <2>5 DEF IsMadeUpTo, AreData
<1>9. \A good : LET r == File(Report, good)
                 IN  /\ AreData(Cat(done, <<r>>))
                     /\ ToSet(Cat(done, <<r>>)) = ToSet(done) \cup {r}
  <2> SUFFICES ASSUME NEW good, NEW r, r = File(Report, good)
               PROVE  AreData(Cat(done, <<r>>)) /\ ToSet(Cat(done, <<r>>)) = ToSet(done) \cup {r}
    OBVIOUS
  <2>1. <<r>> \in Seq({r}) /\ ToSet(<<r>>) = {r}
    BY DEF ToSet
  <2>2. PICK one : one = <<r>>
    OBVIOUS
  <2>3. IsSequence(one) /\ ToSet(one) = {r}
    BY <2>1, <2>2 DEF IsSequence
  <2>4. IsSequence(Cat(done, one)) /\ ToSet(Cat(done, one)) = ToSet(done) \cup {r}
    BY <1>8, <2>3, SequencesJoined DEF AreData
  <2>5. r.path # Manifest
    BY DEF File, Report, Manifest
  <2> QED
    BY <1>8, <2>2, <2>4, <2>5 DEF AreData
<1>10. CASE LoadedInput(input) # "ok"
  <2>1. Compile(input) = Compilation(LoadedInput(input), <<>>)
    BY <1>10 DEF Compile
  <2> QED
    BY <1>3, <1>4, <1>10, <2>1 DEF IsCompiled
<1>11. CASE /\ LoadedInput(input) = "ok"
            /\ ~CampaignsCovered(input.catalog) \/ ~PublicCasesValid(input.scenarios)
  <2>1. Compile(input) = Compilation("refused", <<>>)
    BY <1>11 DEF Compile
  <2> QED
    BY <1>3, <1>5, <2>1
<1>12. CASE /\ LoadedInput(input) = "ok"
            /\ ~(~CampaignsCovered(input.catalog) \/ ~PublicCasesValid(input.scenarios))
  <2>1. Compile(input) = AfterScenarios(input, sc)
    BY <1>1, <1>12 DEF Compile
  <2>2. CASE \E line \in sc.baseline : ~Derivable(line)
    BY <1>3, <1>5, <2>1, <2>2 DEF AfterScenarios
  <2>3. CASE ~(\E line \in sc.baseline : ~Derivable(line)) /\ ~sc.ok
    <3>1. Compile(input) = Compilation("refused", sc.todo)
      BY <2>1, <2>3 DEF AfterScenarios
    <3> QED
      BY <1>2, <1>5, <3>1 DEF IsMadeUpTo
  <2>4. CASE ~(\E line \in sc.baseline : ~Derivable(line)) /\ sc.ok
    <3>1. CASE \E i \in DOMAIN sc.rows : ~ControlsComparable(input.scenarios[i], sc.rows[i])
      <4>1. Compile(input) = Compilation("refused", done)
        BY <1>6, <2>1, <2>4, <3>1 DEF AfterScenarios, Cat
      <4> QED
        BY <1>5, <1>8, <4>1
    <3>2. CASE ~(\E i \in DOMAIN sc.rows : ~ControlsComparable(input.scenarios[i], sc.rows[i]))
      <4>1. Compile(input) = AfterReport(input, done, QualityValid(input.scenarios, sc.rows))
        BY <1>6, <2>1, <2>4, <3>2 DEF AfterScenarios, Cat
      <4>2. CASE ~QualityValid(input.scenarios, sc.rows)
        <5>1. Compile(input) = Compilation("refused", Cat(done, <<File(Report, FALSE)>>))
          BY <4>1, <4>2 DEF AfterReport, Cat
        <5> QED
          BY <1>5, <1>9, <5>1
      <4>3. CASE QualityValid(input.scenarios, sc.rows)
        <5>1. PICK r, m : r = File(Report, TRUE) /\ m = File(Manifest, ManifestOf(input))
          OBVIOUS
        <5>2. Compile(input) = Compilation("ok", Cat(done, <<r, m>>))
          BY <4>1, <4>3, <5>1 DEF AfterReport, Cat
        <5>3. PICK data : data = Cat(done, <<r>>)
          OBVIOUS
        <5>4. AreData(data) /\ ToSet(data) = ToSet(done) \cup {r}
          BY <1>9, <5>1, <5>3
        <5>5. Cat(done, <<r, m>>) = Cat(data, <<m>>)
          BY <1>8, <5>3, OneAfterTheOther DEF AreData
        <5>6. ToSet(data) = ToSet(sc.todo) \cup CaseSet(input, sc.truths)
          BY <1>7, <1>8, <5>1, <5>4 DEF CaseSet
        <5>7. Vouched(input, ToSet(data))
          BY <1>1, <1>2, <1>12, <2>4, <4>3, <5>6, CompleteIsVouched
        <5>8. PICK c : c = Compile(input)
          OBVIOUS
        <5>9. c.end = "ok" /\ c.todo = Cat(data, <<m>>)
          BY <1>4, <5>2, <5>5, <5>8
        <5>10. IsCompiled(input, c)
          BY <5>1, <5>4, <5>7, <5>9 DEF IsCompiled
        <5> QED
          BY <5>8, <5>10
      <4> QED
        BY <4>2, <4>3
    <3> QED
      BY <3>1, <3>2
  <2> QED
    BY <2>2, <2>3, <2>4
<1> QED
  BY <1>10, <1>11, <1>12

-------------------------------------------------------------------------------
(* ScenarioSeed: the directory.                                            *)

IsWritten(f) == f.path \in DOMAIN files /\ files[f.path] = f.content

(* The first k files of a compilation are written, the others not yet.     *)
IsAt(c, k) ==
  /\ k \in 0..Len(c.todo) /\ todo = [i \in 1..(Len(c.todo) - k) |-> c.todo[k + i]]
  /\ c.end = "ok" => \A j \in 1..k : c.todo[j].path # Manifest => IsWritten(c.todo[j])

(* The manifest is of an input, and lists all its data.                    *)
IsManifestOf(m, input, data) ==
  /\ m.of = ManifestOf(input) /\ Vouched(input, data)
  /\ \A f \in data : f.path \in DOMAIN m.files /\ m.files[f.path] = f.content

VouchInv ==
  /\ todo # <<>> => \E input \in Inputs : \E k : IsAt(Compile(input), k)
  /\ Manifest \in DOMAIN files => \E input \in Inputs : \E data : IsManifestOf(files[Manifest], input, data)

LEMMA VouchInvInit == ScenarioInit => VouchInv
<1> SUFFICES ASSUME ScenarioInit PROVE VouchInv
  OBVIOUS
<1>1. todo = <<>> /\ DOMAIN files = {}
  BY DEF ScenarioInit
<1> QED
  BY <1>1 DEF VouchInv

(* The data first, and the manifest after it.                              *)
DataFirst(c, input, data) ==
  /\ Vouched(input, data) /\ \A f \in data : f.path # Manifest
  /\ Len(c.todo) \in Nat \ {0}
  /\ c.todo[Len(c.todo)] = File(Manifest, ManifestOf(input))
  /\ \A j \in 1..(Len(c.todo) - 1) : c.todo[j] \in data
  /\ \A f \in data : \E j \in 1..(Len(c.todo) - 1) : f = c.todo[j]

(* The files of a compilation by their places.                             *)
LEMMA CompiledInOrder ==
  ASSUME NEW input \in Inputs, NEW c, c = Compile(input)
  PROVE  /\ IsSequence(c.todo)
         /\ c.end # "ok" => \A j \in 1..Len(c.todo) : c.todo[j].path # Manifest
         /\ c.end = "ok" => \E data : DataFirst(c, input, data)
<1>1. IsCompiled(input, c)
  BY EveryInputIsCompiled
<1>2. CASE c.end # "ok"
  <2>1. AreData(c.todo)
    BY <1>1, <1>2 DEF IsCompiled
  <2>2. \A j \in 1..Len(c.todo) : c.todo[j] \in ToSet(c.todo)
    BY <2>1 DEF AreData, IsSequence
  <2> QED
    BY <1>2, <2>1, <2>2 DEF AreData
<1>3. CASE c.end = "ok"
  <2>1. PICK m : m = File(Manifest, ManifestOf(input))
    OBVIOUS
  <2>2. PICK data : c.todo = Cat(data, <<m>>) /\ AreData(data) /\ Vouched(input, ToSet(data))
    BY <1>1, <1>3, <2>1 DEF IsCompiled
  <2>3. PICK n \in Nat : DOMAIN data = 1..n /\ Lists(data, n)
    BY <2>2 DEF AreData, IsSequence, Lists
  <2>4. PICK one : one = <<m>>
    OBVIOUS
  <2>5. Lists(one, 1) /\ one[1] = m /\ IsSequence(one)
    BY <2>4 DEF Lists, IsSequence, ToSet
  <2>6. PICK list : list = Cat(data, one)
    OBVIOUS
  <2>7. /\ Lists(list, n + 1) /\ \A i \in 1..n : list[i] = data[i]
        /\ list[n + 1] = m
    BY <2>3, <2>5, <2>6, Joined
  <2>8. Len(list) = n + 1
    BY <2>7, ListsLength
  <2>9. IsSequence(list)
    BY <2>2, <2>5, <2>6, SequencesJoined DEF AreData
  <2>10. \A j \in 1..n : list[j] \in ToSet(data)
    BY <2>3, <2>7 DEF ToSet
  <2>11. \A f \in ToSet(data) : \E j \in 1..n : f = list[j]
    BY <2>3, <2>7 DEF ToSet
  <2>12. c.todo = list /\ (n + 1) - 1 = n /\ n + 1 \in Nat \ {0}
    BY <2>2, <2>4, <2>6
  <2>13. DataFirst(c, input, ToSet(data))
    BY <2>1, <2>2, <2>7, <2>8, <2>10, <2>11, <2>12 DEF AreData, DataFirst
  <2> QED
    BY <1>3, <2>9, <2>12, <2>13
<1> QED
  BY <1>2, <1>3

LEMMA NextOfTodo ==
  ASSUME NEW c, IsSequence(c.todo), NEW k, IsAt(c, k), todo # <<>>
  PROVE  /\ k \in Nat /\ k + 1 \in 1..Len(c.todo) /\ Len(c.todo) \in Nat
         /\ Head(todo) = c.todo[k + 1]
         /\ Tail(todo) = [i \in 1..(Len(c.todo) - (k + 1)) |-> c.todo[(k + 1) + i]]
<1>1. PICK n \in Nat : n = Len(c.todo) /\ DOMAIN c.todo = 1..n
  BY DEF IsSequence
<1>2. PICK list : list = c.todo
  OBVIOUS
<1>3. k \in 0..n /\ todo = [i \in 1..(n - k) |-> list[k + i]]
  BY <1>1, <1>2 DEF IsAt
<1>4. PICK m \in Nat : m = n - k
  BY <1>3
<1>5. todo = [i \in 1..m |-> list[k + i]]
  BY <1>3, <1>4
<1>6. m # 0
  <2> SUFFICES ASSUME m = 0 PROVE FALSE
    OBVIOUS
  <2>1. todo = <<>>
    BY <1>5
  <2> QED
    BY <2>1
<1>7. PICK l \in Nat : l = m - 1
  BY <1>6
<1>8. l = n - (k + 1) /\ 1 \in 1..m /\ k + 1 \in 1..n /\ k \in Nat
  BY <1>3, <1>4, <1>6, <1>7
<1> DEFINE S == {list[k + i] : i \in 1..m}
<1>9. todo \in [1..m -> S]
  BY <1>5
<1> HIDE DEF S
<1>10. todo \in Seq(S) /\ Len(todo) = m
  BY <1>9
<1>11. Head(todo) = todo[1] /\ todo[1] = list[k + 1]
  BY <1>5, <1>8, <1>10
<1>12. PICK t : t = Tail(todo)
  OBVIOUS
<1>13. /\ t \in Seq(S) /\ Len(t) = m - 1
       /\ \A i \in 1..Len(t) : t[i] = todo[i + 1]
  BY <1>6, <1>10, <1>12, HeadTailProperties
<1>14. Len(t) = l
  BY <1>7, <1>13
<1>15. t = [i \in 1..l |-> t[i]]
  BY <1>13, <1>14
<1>16. ASSUME NEW i \in 1..l PROVE t[i] = list[(k + 1) + i]
  <2>1. i + 1 \in 1..m /\ k + (i + 1) = (k + 1) + i
    BY <1>7, <1>8
  <2>2. todo[i + 1] = list[k + (i + 1)]
    BY <1>5, <2>1
  <2> QED
    BY <1>13, <1>14, <2>1, <2>2
<1>17. t = [i \in 1..l |-> list[(k + 1) + i]]
  BY <1>15, <1>16
<1>18. Tail(todo) = [i \in 1..(n - (k + 1)) |-> list[(k + 1) + i]]
  BY <1>8, <1>12, <1>17
<1>19. Head(todo) = list[k + 1]
  BY <1>11
<1> QED
  BY <1>1, <1>2, <1>8, <1>18, <1>19

LEMMA BeginVouches == VouchInv /\ BeginCompile => VouchInv'
<1> SUFFICES ASSUME VouchInv, BeginCompile PROVE VouchInv'
  OBVIOUS
<1>1. PICK input \in Inputs : todo' = Compile(input).todo
  BY DEF BeginCompile, Compilations
<1>2. PICK c : c = Compile(input)
  OBVIOUS
<1>3. IsSequence(c.todo)
  BY <1>2, CompiledInOrder
<1>4. PICK list : list = c.todo
  OBVIOUS
<1>5. PICK n \in Nat : n = Len(list)
  BY <1>3, <1>4 DEF IsSequence
<1>6. list = [i \in 1..n |-> list[i]]
  BY <1>3, <1>4, <1>5 DEF IsSequence
<1>7. list = [i \in 1..(n - 0) |-> list[0 + i]]
  <2>1. n - 0 = n /\ \A i \in 1..n : 0 + i = i
    OBVIOUS
  <2> QED
    BY <1>6, <2>1
<1>8. 0 \in 0..n
  OBVIOUS
<1>9. IsAt(c, 0)'
  BY <1>1, <1>2, <1>4, <1>5, <1>7, <1>8 DEF IsAt
<1>10. files' = files
  BY DEF BeginCompile
<1> QED
  BY <1>2, <1>9, <1>10 DEF VouchInv, IsManifestOf

LEMMA BreakVouches == VouchInv /\ Break => VouchInv'
<1> SUFFICES ASSUME VouchInv, Break PROVE VouchInv'
  OBVIOUS
<1>1. todo' = <<>>
  BY DEF Break
<1>2. Manifest \in DOMAIN files' => Manifest \in DOMAIN files /\ files'[Manifest] = files[Manifest]
  <2>1. CASE UNCHANGED files
    BY <2>1
  <2>2. CASE Put(Temporary, compiles)
    <3>1. Manifest # Temporary
      BY DEF Manifest, Temporary
    <3> QED
      BY <2>2, <3>1 DEF Put
  <2> QED
    BY <2>1, <2>2 DEF Break
<1> QED
  BY <1>1, <1>2 DEF VouchInv, IsManifestOf

LEMMA WriteVouches == VouchInv /\ WriteFile => VouchInv'
<1> SUFFICES ASSUME VouchInv, WriteFile PROVE VouchInv'
  OBVIOUS
<1>1. todo # <<>>
  BY DEF WriteFile
<1>2. PICK input \in Inputs : \E k : IsAt(Compile(input), k)
  BY <1>1 DEF VouchInv
<1>3. PICK c : c = Compile(input)
  OBVIOUS
<1>4. PICK k : IsAt(c, k)
  BY <1>2, <1>3
<1>5. IsSequence(c.todo)
  BY <1>3, CompiledInOrder
<1>6. PICK n \in Nat : n = Len(c.todo)
  BY <1>5 DEF IsSequence
<1>7. /\ k \in Nat /\ k + 1 \in 1..n /\ Head(todo) = c.todo[k + 1]
      /\ Tail(todo) = [i \in 1..(n - (k + 1)) |-> c.todo[(k + 1) + i]]
  BY <1>1, <1>4, <1>5, <1>6, NextOfTodo
<1>8. PICK f : f = c.todo[k + 1]
  OBVIOUS
<1>9. todo' = [i \in 1..(n - (k + 1)) |-> c.todo[(k + 1) + i]]
  BY <1>7 DEF WriteFile
<1>10. Put(f.path, IF f.path = Manifest THEN [of |-> f.content, files |-> Listed] ELSE f.content)
  BY <1>7, <1>8 DEF WriteFile
<1>11. c.end # "ok" => \A j \in 1..n : c.todo[j].path # Manifest
  BY <1>3, <1>6, CompiledInOrder
<1>12. c.end = "ok" => \A j \in 1..k : c.todo[j].path # Manifest => IsWritten(c.todo[j])
  BY <1>4 DEF IsAt
<1>13. CASE f.path # Manifest
  <2>1. files' = [p \in DOMAIN files \cup {f.path} |-> IF p = f.path THEN f.content ELSE files[p]]
    BY <1>10, <1>13 DEF Put
  <2>2. Manifest \in DOMAIN files' => Manifest \in DOMAIN files /\ files'[Manifest] = files[Manifest]
    BY <1>13, <2>1
  <2>3. ASSUME c.end = "ok", NEW j \in 1..(k + 1), c.todo[j].path # Manifest
        PROVE  IsWritten(c.todo[j])'
    <3>1. CASE j = k + 1
      BY <1>8, <2>1, <3>1 DEF IsWritten
    <3>2. CASE j # k + 1
      <4>1. j \in 1..k
        BY <1>7, <3>2
      <4>2. IsWritten(c.todo[j])
        BY <1>12, <2>3, <4>1
      <4>3. PICK g : g = c.todo[j]
        OBVIOUS
      <4>4. g.path = f.path => g = f
        <5>1. PICK data : DataFirst(c, input, data)
          BY <1>3, <2>3, CompiledInOrder
        <5>2. k + 1 # n
          BY <1>6, <1>8, <1>13, <5>1 DEF DataFirst, File
        <5>3. k + 1 \in 1..(n - 1) /\ j \in 1..(n - 1)
          BY <1>7, <4>1, <5>2
        <5> QED
          BY <1>6, <1>8, <4>3, <5>1, <5>3 DEF DataFirst, Vouched
      <4>5. g.path \in DOMAIN files /\ files[g.path] = g.content
        BY <4>2, <4>3 DEF IsWritten
      <4>6. g.path \in DOMAIN files' /\ files'[g.path] = g.content
        BY <2>1, <4>4, <4>5
      <4> QED
        BY <4>3, <4>6 DEF IsWritten
    <3> QED
      BY <3>1, <3>2
  <2>4. k + 1 \in 0..n
    BY <1>7
  <2>5. IsAt(c, k + 1)'
    BY <1>6, <1>9, <2>3, <2>4 DEF IsAt
  <2>6. \E i : IsAt(Compile(input), i)'
    BY <1>3, <2>5
  <2> QED
    BY <2>2, <2>6 DEF VouchInv, IsManifestOf
<1>14. CASE f.path = Manifest
  <2>1. c.end = "ok"
    BY <1>7, <1>8, <1>11, <1>14
  <2>2. PICK data : DataFirst(c, input, data)
    BY <1>3, <2>1, CompiledInOrder
  <2>3. k + 1 = n
    <3> SUFFICES ASSUME k + 1 # n PROVE FALSE
      OBVIOUS
    <3>1. k + 1 \in 1..(n - 1)
      BY <1>7
    <3> QED
      BY <1>6, <1>8, <1>14, <2>2, <3>1 DEF DataFirst
  <2>4. n - (k + 1) = 0 /\ n - 1 = k
    BY <1>7, <2>3
  <2>5. todo' = <<>>
    BY <1>9, <2>4
  <2>6. f.content = ManifestOf(input)
    BY <1>6, <1>8, <2>2, <2>3 DEF DataFirst, File
  <2>7. files'[Manifest] = [of |-> ManifestOf(input), files |-> Listed]
    BY <1>10, <1>14, <2>6 DEF Put
  <2>8. ASSUME NEW g \in data PROVE g.path \in DOMAIN Listed /\ Listed[g.path] = g.content
    <3>1. PICK i \in 1..(n - 1) : g = c.todo[i]
      BY <1>6, <2>2 DEF DataFirst
    <3>2. g.path # Manifest /\ i \in 1..k
      BY <2>2, <2>4, <3>1 DEF DataFirst
    <3>3. IsWritten(g)
      BY <1>12, <2>1, <3>1, <3>2
    <3> QED
      BY <3>2, <3>3 DEF IsWritten, Listed
  <2>9. IsManifestOf(files'[Manifest], input, data)
    BY <2>2, <2>7, <2>8 DEF DataFirst, IsManifestOf
  <2> QED
    BY <2>5, <2>9 DEF VouchInv
<1> QED
  BY <1>13, <1>14

LEMMA VouchInvNext == VouchInv /\ [ScenarioNext]_svars => VouchInv'
<1> SUFFICES ASSUME VouchInv, [ScenarioNext]_svars PROVE VouchInv'
  OBVIOUS
<1>1. CASE EndCompile \/ UNCHANGED svars
  <2>1. UNCHANGED <<files, todo>>
    BY <1>1 DEF EndCompile, svars
  <2> QED
    BY <2>1 DEF VouchInv, IsAt, IsWritten, IsManifestOf
<1> QED
  BY <1>1, BeginVouches, WriteVouches, BreakVouches DEF ScenarioNext

LEMMA WrittenFile ==
  ASSUME NEW path, NEW content, IsWritten(File(path, content))
  PROVE  path \in DOMAIN files /\ files[path] = content
<1>1. PICK f : f = File(path, content)
  OBVIOUS
<1>2. f.path = path /\ f.content = content
  BY <1>1 DEF File
<1> QED
  BY <1>1, <1>2 DEF IsWritten

(* A manifest that was written last, of files that are still as they were, *)
(* vouches for them.                                                       *)
LEMMA VouchInvVouches == VouchInv => ManifestVouches
<1> SUFFICES ASSUME VouchInv, Manifest \in DOMAIN files,
                    NEW m, m = files[Manifest],
                    NEW set, set = m.of.scenarios,
                    \A p \in DOMAIN m.files :
                      p \in DOMAIN files /\ files[p] = m.files[p]
             PROVE  /\ \A i \in DOMAIN set :
                         LET s == set[i]
                             rows  == files[RowsOf(s.id)]
                             truth == files[TruthOf(s.id)]
                         IN  /\ {RowsOf(s.id), TruthOf(s.id)} \subseteq DOMAIN files
                             /\ truth.seed = m.of.seed /\ truth.causes = s.causes
                             /\ truth.ratio = DeltaRatio(rows, s.metric, s, s.selector)
                             /\ EffectValid(s, rows) /\ ControlsValid(s, rows)
                             /\ LogsExplain(rows, s)
                             /\ files[Public][i] = truth.case
                             /\ files[Private][i] = truth
                    /\ Len(files[Public]) = Len(set)
  BY DEF ManifestVouches, Public, Private
<1>1. PICK input \in Inputs : \E data : IsManifestOf(m, input, data)
  BY DEF VouchInv
<1>2. PICK data : IsManifestOf(m, input, data)
  BY <1>1
<1>3. set = input.scenarios /\ m.of.seed = input.seed /\ Vouched(input, data)
  BY <1>2 DEF IsManifestOf, ManifestOf
<1>4. \A f \in data : IsWritten(f)
  BY <1>2 DEF IsManifestOf, IsWritten
<1>5. PICK truths : AreTruthsOf(truths, set, input.seed, data)
  BY <1>3 DEF Vouched
<1>6. files[Public] = PublicCases(set) /\ files[Private] = truths
  <2>1. File(Public, PublicCases(set)) \in data /\ File(Private, truths) \in data
    BY <1>5 DEF AreTruthsOf
  <2> QED
    BY <1>4, <2>1, WrittenFile
<1>7. ASSUME NEW i \in DOMAIN set, NEW s, s = set[i]
      PROVE  /\ {RowsOf(s.id), TruthOf(s.id)} \subseteq DOMAIN files
             /\ files[TruthOf(s.id)].seed = m.of.seed
             /\ files[TruthOf(s.id)].causes = s.causes
             /\ files[TruthOf(s.id)].ratio = DeltaRatio(files[RowsOf(s.id)], s.metric, s, s.selector)
             /\ EffectValid(s, files[RowsOf(s.id)]) /\ ControlsValid(s, files[RowsOf(s.id)])
             /\ LogsExplain(files[RowsOf(s.id)], s)
             /\ files[Public][i] = files[TruthOf(s.id)].case
             /\ files[Private][i] = files[TruthOf(s.id)]
  <2>1. PICK rows, truth :
          /\ File(RowsOf(s.id), rows) \in data /\ File(TruthOf(s.id), truth) \in data
          /\ truth = TruthOfScenario(s, i, input.seed, rows) /\ truths[i] = truth
          /\ EffectValid(s, rows) /\ ControlsValid(s, rows) /\ LogsExplain(rows, s)
    BY <1>5, <1>7 DEF AreTruthsOf
  <2>2. /\ RowsOf(s.id) \in DOMAIN files /\ files[RowsOf(s.id)] = rows
        /\ TruthOf(s.id) \in DOMAIN files /\ files[TruthOf(s.id)] = truth
    BY <1>4, <2>1, WrittenFile
  <2>3. /\ truth.seed = input.seed /\ truth.causes = s.causes /\ truth.case = <<"GC", i>>
        /\ truth.ratio = DeltaRatio(rows, s.metric, s, s.selector)
    BY <2>1 DEF TruthOfScenario
  <2>4. PublicCases(set)[i] = <<"GC", i>>
    BY DEF PublicCases
  <2> QED
    BY <1>3, <1>6, <2>1, <2>2, <2>3, <2>4
<1>8. Len(PublicCases(set)) = Len(set)
  <2>1. Len(set) \in Nat /\ DOMAIN set = 1..Len(set)
    BY <1>3, InputsHaveLists
  <2> QED
    BY <2>1 DEF PublicCases
<1> QED
  BY <1>6, <1>7, <1>8

(* A manifest in the directory whose hashes hold vouches for the whole     *)
(* data set: whatever was compiled before and after it, in whatever order, *)
(* and wherever a compilation stopped, for every set of inputs.            *)
THEOREM ManifestsVouch == ScenarioSpec => []ManifestVouches
<1>1. VouchInv => ManifestVouches
  BY VouchInvVouches
<1>2. ScenarioSpec => []VouchInv
  BY VouchInvInit, VouchInvNext, PTL DEF ScenarioSpec
<1> QED
  BY <1>1, <1>2, PTL
===============================================================================
