---------------------------- MODULE PtvRoundProofs ----------------------------
(***************************************************************************)
(* Proofs about the rounds of a Predict-Test-Verify cycle: what a round    *)
(* that verifies was judged on, what a confirmation rests on, and when the *)
(* barrier is written, for any number of rounds and whatever the commands  *)
(* and the people at work write.                                           *)
(***************************************************************************)
EXTENDS PtvRound, NaturalSets, TLAPS

USE DEF disk, controller, history, processes

Based == {"eval", "gaps", "diagnosis", "lineage"}

Shape ==
  /\ file = [n \in Rounds |-> [name \in Names |-> file[n][name]]]
  /\ child = [c \in Commands |-> child[c]]
  /\ made \subseteq Rounds
  /\ ~Idle => round \in Rounds
  /\ \A o \in orphans : o.round \in Rounds
  /\ late \in BOOLEAN

-------------------------------------------------------------------------------
(* A write changes one file of one round.                                  *)
LEMMA PutChangesOne ==
  ASSUME Shape, NEW n \in Rounds, NEW name \in Names, NEW content, Put(n, name, content)
  PROVE  /\ file' = [m \in Rounds |-> [o \in Names |-> file'[m][o]]]
         /\ file'[n][name] = content
         /\ \A m \in Rounds, o \in Names : m # n \/ o # name => file'[m][o] = file[m][o]
BY DEF Shape, Put

LEMMA SaveChangesOne ==
  ASSUME Shape, ~Idle, NEW name \in Names, NEW content, Save(name, content)
  PROVE  /\ file' = [m \in Rounds |-> [o \in Names |-> file'[m][o]]]
         /\ file'[round][name] = content
         /\ \A m \in Rounds, o \in Names : m # round \/ o # name => file'[m][o] = file[m][o]
         /\ made' = made
<1>1. round \in Rounds /\ Put(round, name, content) /\ made' = made
  BY DEF Shape, Save
<1> QED
  BY <1>1, PutChangesOne

(* A command of a stage writes its output.                                 *)
LEMMA CommandWritesOutput ==
  ASSUME Shape, NEW c \in Commands, NEW n \in Rounds, Writes(c, n)
  PROVE  /\ file' = [m \in Rounds |-> [o \in Names |-> file'[m][o]]]
         /\ \A m \in Rounds, o \in Names \ Outputs : file'[m][o] = file[m][o]
<1>1. PICK name \in Outputs : \E content : Put(n, name, content)
  BY DEF Writes, Outputs
<1>2. PICK content : Put(n, name, content)
  BY <1>1
<1>3. name \in Names
  BY DEF Names, Execution
<1> QED
  BY <1>2, <1>3, PutChangesOne

(* An ending command changes no more than its output.                      *)
LEMMA OverChangesOutput ==
  ASSUME Shape, ~Idle, NEW c \in Commands, NEW exit, Over(c, exit)
  PROVE  /\ file' = [m \in Rounds |-> [o \in Names |-> file'[m][o]]]
         /\ \A m \in Rounds, o \in Names \ Outputs : file'[m][o] = file[m][o]
         /\ made' = made
         /\ child' = [d \in Commands |-> child'[d]]
<1>1. round \in Rounds /\ made' = made /\ child' = [d \in Commands |-> child'[d]]
  BY DEF Shape, Over
<1>2. CASE Writes(c, round)
  BY <1>1, <1>2, CommandWritesOutput
<1>3. CASE UNCHANGED <<file, written>>
  BY <1>1, <1>3 DEF Shape
<1> QED
  BY <1>1, <1>2, <1>3 DEF Over

(* An analyst writes the diagnosis of a round.                             *)
LEMMA AnalystWritesDiagnosis ==
  ASSUME Shape, NEW n \in Rounds, NEW gaps, Explains(n, gaps)
  PROVE  /\ file' = [m \in Rounds |-> [o \in Names |-> file'[m][o]]]
         /\ \A m \in Rounds, o \in Names : m # n \/ o # "diagnosis" => file'[m][o] = file[m][o]
         /\ made' = made
<1>1. PICK content : Put(n, "diagnosis", content)
  BY DEF Explains
<1>2. "diagnosis" \in Names
  BY DEF Names, Execution
<1> QED
  BY <1>1, <1>2, PutChangesOne DEF Explains

(* What an orphan writes: an output, or a diagnosis.                       *)
LEMMA OrphansWriteOne ==
  ASSUME Shape, OrphanWrites
  PROVE  /\ file' = [m \in Rounds |-> [o \in Names |-> file'[m][o]]]
         /\ made' = made
         /\ \A m \in Rounds, o \in Names \ (Outputs \cup {"diagnosis"}) : file'[m][o] = file[m][o]
         /\ late' \in BOOLEAN /\ (late => late')
         /\ at \in {"summary", "integrity", "manifest"} /\ round \in Rounds /\ ~late' =>
              file'[round]["diagnosis"] = file[round]["diagnosis"]
<1>1. PICK o \in orphans :
        \/ o.command \in Commands /\ Writes(o.command, o.round) /\ UNCHANGED <<made, late>>
        \/ /\ \E gaps \in {o.given, file[o.round]["gaps"]} : Explains(o.round, gaps)
           /\ late' = (late \/ (o.round = round /\ at \in {"summary", "integrity", "manifest"}))
  BY DEF OrphanWrites
<1>2. o.round \in Rounds /\ late \in BOOLEAN /\ "diagnosis" \in Names \ Outputs
  BY DEF Shape, Names, Execution, Outputs
<1>3. CASE o.command \in Commands /\ Writes(o.command, o.round) /\ UNCHANGED <<made, late>>
  BY <1>2, <1>3, CommandWritesOutput
<1>4. CASE /\ \E gaps \in {o.given, file[o.round]["gaps"]} : Explains(o.round, gaps)
           /\ late' = (late \/ (o.round = round /\ at \in {"summary", "integrity", "manifest"}))
  <2>1. PICK gaps : Explains(o.round, gaps)
    BY <1>4
  <2>2. /\ file' = [m \in Rounds |-> [p \in Names |-> file'[m][p]]]
        /\ \A m \in Rounds, p \in Names :
             m # o.round \/ p # "diagnosis" => file'[m][p] = file[m][p]
        /\ made' = made
    BY <1>2, <2>1, AnalystWritesDiagnosis
  <2> QED
    BY <1>2, <1>4, <2>2
<1> QED
  BY <1>1, <1>3, <1>4

(* The names of the files.                                                 *)
LEMMA NamesOfFiles ==
  /\ Outputs \subseteq Names /\ Based \subseteq Names
  /\ {"meta", "log", "barrier", "optimization", "summary", "anticheat", "manifest"}
       \subseteq Names \ (Based \cup Outputs)
  /\ Based \cap Outputs = {}
  /\ {"lineage", "barrier", "summary", "manifest", "optimization", "anticheat", "eval", "gaps"}
       \subseteq Names \ (Outputs \cup {"log", "diagnosis"})
BY DEF Names, Execution, Outputs, Based

-------------------------------------------------------------------------------
(* The shape of the state: every file has a place, and what works on a     *)
(* round works on one there is.                                            *)

LEMMA ShapeInit == Init => Shape
BY DEF Init, Shape, Idle

LEMMA ShapeNext == Shape /\ [Next]_vars => Shape'
<1> SUFFICES ASSUME Shape, [Next]_vars PROVE Shape'
  OBVIOUS
<1> USE NamesOfFiles
<1>1. ASSUME NEW n \in Rounds, Prepare(n) PROVE Shape'
  <2>1. PICK p \in Preparations[n] : /\ Put(n, "meta", [confirms |-> p.confirms])
                                      /\ WorkOn(n, "lineage", p.lineage)
    BY <1>1 DEF Prepare
  <2> QED
    BY <2>1, <1>1, PutChangesOne DEF Prepare, Shape, WorkOn
<1>2. ASSUME NEW n \in Rounds, PrepareRefused(n) PROVE Shape'
  BY <1>2 DEF PrepareRefused, Shape, Idle
<1>3. ASSUME NEW n \in Rounds, RunParallel(n) PROVE Shape'
  BY <1>3 DEF RunParallel, Shape, WorkOn
<1>4. ASSUME NEW n \in Rounds, Analyze(n) PROVE Shape'
  <2>1. PICK content : Put(n, "eval", content) /\ WorkOn(n, "gaps", Nothing)
    BY <1>4 DEF Analyze
  <2> QED
    BY <2>1, <1>4, PutChangesOne DEF Analyze, Shape, WorkOn, Based
<1>5. ASSUME NEW n \in Rounds, Diagnose(n) PROVE Shape'
  BY <1>5, AnalystWritesDiagnosis DEF Diagnose, Shape, Idle
<1>6. ASSUME NEW n \in Rounds, Finalize(n) PROVE Shape'
  <2>1. PICK content, next : Put(n, "optimization", content) /\ WorkOn(n, "summary", next)
    BY <1>6 DEF Finalize
  <2> QED
    BY <2>1, <1>6, PutChangesOne DEF Finalize, Shape, WorkOn
<1>7. CASE WriteLineage
  BY <1>7, SaveChangesOne DEF WriteLineage, Shape, Rest, Idle, Based
<1>8. CASE StartPrediction
  BY <1>8, SaveChangesOne DEF StartPrediction, Shape, GoTo, Idle
<1>9. CASE StartEval
  BY <1>9 DEF StartEval, Shape, GoTo, Idle
<1>10. CASE StartFails
  BY <1>10 DEF StartFails, Shape, GoTo, Idle
<1>11. CASE RaiseFailure
  BY <1>11 DEF RaiseFailure, Shape, Rest, Alone, Idle
<1>12. CASE WriteBarrier
  BY <1>12, SaveChangesOne DEF WriteBarrier, Shape, Rest, Alone, Idle
<1>13. CASE WriteGaps
  <2>1. PICK content : Save("gaps", content)
    BY <1>13 DEF WriteGaps
  <2> QED
    BY <2>1, <1>13, SaveChangesOne DEF WriteGaps, Shape, Rest, GoTo, Idle, Based
<1>14. CASE WriteSummary
  BY <1>14, SaveChangesOne DEF WriteSummary, Shape, GoTo, Idle
<1>15. CASE Judge
  <2>1. PICK content : Save("anticheat", content)
    BY <1>15 DEF Judge
  <2> QED
    BY <2>1, <1>15, SaveChangesOne DEF Judge, Shape, GoTo, Rest, Idle
<1>16. CASE WriteManifest
  <2>1. PICK content : Save("manifest", content)
    BY <1>16 DEF WriteManifest
  <2> QED
    BY <2>1, <1>16, SaveChangesOne DEF WriteManifest, Shape, Rest, Idle
<1>17. ASSUME NEW c \in Commands, Reap(c) PROVE Shape'
  BY <1>17, OverChangesOutput DEF Reap, Shape, GoTo, Idle
<1>18. ASSUME NEW c \in Commands, ReapFailure(c) PROVE Shape'
  BY <1>18, OverChangesOutput DEF ReapFailure, Shape, GoTo, Idle
<1>19. ASSUME NEW c \in Commands, Terminated(c) PROVE Shape'
  BY <1>19, OverChangesOutput DEF Terminated, Shape, Idle
<1>20. CASE OrphanWrites
  BY <1>20, OrphansWriteOne DEF OrphanWrites, Shape, Idle
<1>21. CASE Break
  <2>1. round \in Rounds
    BY <1>21 DEF Break, Shape
  <2>2. \A o \in orphans' : o.round \in Rounds
    <3>1. CASE AtWork = {}
      BY <1>21, <3>1 DEF Break, Shape
    <3>2. CASE AtWork # {}
      BY <1>21, <2>1, <3>2 DEF Break
    <3> QED
      BY <3>1, <3>2
  <2> QED
    BY <1>21, <2>2 DEF Break, Shape, Rest, Alone, Idle
<1>22. CASE UNCHANGED vars
  BY <1>22 DEF vars, Shape, Idle
<1>23. CASE AnalystEnds
  <2>1. round \in Rounds
    BY <1>23 DEF AnalystEnds, Shape, Idle
  <2>2. /\ file' = [m \in Rounds |-> [o \in Names |-> file'[m][o]]]
        /\ made' = made
    BY <1>23, <2>1, AnalystWritesDiagnosis DEF AnalystEnds, Shape
  <2> QED
    BY <1>23, <2>2 DEF AnalystEnds, Shape, Rest, Idle
<1> QED
  BY <1>1, <1>2, <1>3, <1>4, <1>5, <1>6, <1>7, <1>8, <1>9, <1>10, <1>11, <1>12, <1>13, <1>14,
     <1>15, <1>16, <1>17, <1>18, <1>19, <1>20, <1>21, <1>22, <1>23 DEF Next, Controller

-------------------------------------------------------------------------------
(* What the steps are, to the files that are about a whole round: those    *)
(* that write them or prepare to, those that leave the controller alone,   *)
(* and those after which it is at work on other files.                     *)

Steady ==
  /\ UNCHANGED <<at, round, held, child, overtaken>>
  /\ \A m \in Rounds, o \in Names \ (Outputs \cup {"diagnosis"}) : file'[m][o] = file[m][o]
  /\ late => late'
  /\ at \in {"summary", "integrity", "manifest"} /\ round \in Rounds /\ ~late' =>
       file'[round]["diagnosis"] = file[round]["diagnosis"]

Aside ==
  /\ at' \notin {"lineage", "barrier", "summary", "integrity", "manifest"}
  /\ \A m \in Rounds, o \in {"lineage", "barrier", "summary", "manifest"} :
       file'[m][o] = file[m][o]
  /\ made \subseteq made'
  /\ overtaken' = overtaken

LEMMA StepsOfARound ==
  ASSUME Shape, [Next]_vars
  PROVE  \/ \E n \in Rounds : Prepare(n) \/ Finalize(n)
         \/ WriteLineage \/ WriteSummary \/ Judge \/ WriteManifest \/ WriteBarrier
         \/ \E c \in Commands : Reap(c)
         \/ Steady
         \/ Aside
<1> USE NamesOfFiles
<1>2. ASSUME NEW n \in Rounds, PrepareRefused(n) PROVE Steady
  BY <1>2 DEF PrepareRefused, Steady
<1>3. ASSUME NEW n \in Rounds, RunParallel(n) PROVE Aside
  BY <1>3 DEF RunParallel, Aside, WorkOn
<1>4. ASSUME NEW n \in Rounds, Analyze(n) PROVE Aside
  <2>1. PICK content : Put(n, "eval", content) /\ WorkOn(n, "gaps", Nothing)
    BY <1>4 DEF Analyze
  <2> QED
    BY <2>1, <1>4, PutChangesOne DEF Analyze, Aside, WorkOn, Based
<1>5. ASSUME NEW n \in Rounds, Diagnose(n) PROVE Aside
  BY <1>5, AnalystWritesDiagnosis DEF Diagnose, Aside, Idle
<1>8. CASE StartPrediction
  BY <1>8, SaveChangesOne DEF StartPrediction, Aside, GoTo, Idle
<1>9. CASE StartEval
  BY <1>9 DEF StartEval, Aside, GoTo
<1>10. CASE StartFails
  BY <1>10 DEF StartFails, Aside, GoTo
<1>11. CASE RaiseFailure
  BY <1>11 DEF RaiseFailure, Aside, Rest
<1>13. CASE WriteGaps
  <2>1. PICK content : Save("gaps", content)
    BY <1>13 DEF WriteGaps
  <2> QED
    BY <2>1, <1>13, SaveChangesOne DEF WriteGaps, Aside, Rest, GoTo, Idle, Based
<1>18. ASSUME NEW c \in Commands, ReapFailure(c) PROVE Aside
  BY <1>18, OverChangesOutput DEF ReapFailure, Aside, GoTo, Idle
<1>19. ASSUME NEW c \in Commands, Terminated(c) PROVE Aside
  BY <1>19, OverChangesOutput DEF Terminated, Aside, Idle
<1>20. CASE OrphanWrites
  BY <1>20, OrphansWriteOne DEF OrphanWrites, Steady
<1>21. CASE Break
  BY <1>21 DEF Break, Aside, Rest
<1>22. CASE UNCHANGED vars
  BY <1>22 DEF vars, Steady
<1>23. CASE AnalystEnds
  <2>1. round \in Rounds
    BY <1>23 DEF AnalystEnds, Shape, Idle
  <2>2. \A m \in Rounds, o \in Names : o # "diagnosis" => file'[m][o] = file[m][o]
    BY <1>23, <2>1, AnalystWritesDiagnosis DEF AnalystEnds
  <2> QED
    BY <1>23, <2>2, AnalystWritesDiagnosis DEF AnalystEnds, Explains, Aside, Rest, Based
<1> QED
  BY <1>2, <1>3, <1>4, <1>5, <1>8, <1>9, <1>10, <1>11, <1>13, <1>18, <1>19, <1>20, <1>21, <1>22,
     <1>23 DEF Next, Controller

-------------------------------------------------------------------------------
(* The barrier.                                                            *)

BothDone == at = "barrier" => \A c \in Commands : child[c] = "zero"

LEMMA BothDoneNext == Shape /\ BothDone /\ [Next]_vars => BothDone'
<1> SUFFICES ASSUME Shape, BothDone, [Next]_vars PROVE BothDone'
  OBVIOUS
<1>1. ASSUME NEW c \in Commands, Reap(c) PROVE BothDone'
  BY <1>1 DEF Reap, GoTo, BothDone
<1>2. ASSUME NEW n \in Rounds, Prepare(n) \/ Finalize(n) PROVE BothDone'
  BY <1>2 DEF Prepare, Finalize, WorkOn, BothDone
<1>3. CASE WriteLineage \/ WriteSummary \/ Judge \/ WriteManifest \/ WriteBarrier
  BY <1>3 DEF WriteLineage, WriteSummary, Judge, WriteManifest, WriteBarrier, Rest, GoTo, BothDone
<1>4. CASE Steady
  BY <1>4 DEF Steady, BothDone
<1>5. CASE Aside
  BY <1>5 DEF Aside, BothDone
<1> QED
  BY <1>1, <1>2, <1>3, <1>4, <1>5, StepsOfARound

(* run_parallel_prediction_and_eval writes the barrier only when both      *)
(* commands have exited with zero.                                         *)
THEOREM BarriersMeanBoth == Spec => BarrierMeansBoth
<1>1. Init => Shape /\ BothDone
  BY ShapeInit DEF Init, BothDone
<1>2. Shape /\ BothDone /\ [Next]_vars => (Shape /\ BothDone)'
  BY ShapeNext, BothDoneNext
<1>3. Shape /\ BothDone /\ [Next]_vars =>
        [\A n \in Rounds :
           file'[n]["barrier"] # file[n]["barrier"] => \A c \in Commands : child[c] = "zero"]_vars
  <2> SUFFICES ASSUME Shape, BothDone, [Next]_vars, NEW n \in Rounds,
                      file'[n]["barrier"] # file[n]["barrier"]
               PROVE  at = "barrier"
    BY DEF BothDone
  <2> USE NamesOfFiles
  <2>1. ASSUME NEW m \in Rounds, Prepare(m) PROVE FALSE
    <3>1. PICK content : Put(m, "meta", content)
      BY <2>1 DEF Prepare
    <3> QED
      BY <3>1, PutChangesOne
  <2>2. ASSUME NEW m \in Rounds, Finalize(m) PROVE FALSE
    <3>1. PICK content : Put(m, "optimization", content)
      BY <2>2 DEF Finalize
    <3> QED
      BY <3>1, PutChangesOne
  <2>3. CASE WriteLineage
    BY <2>3, SaveChangesOne DEF WriteLineage, Idle, Based
  <2>4. CASE WriteSummary
    BY <2>4, SaveChangesOne DEF WriteSummary, Idle
  <2>5. CASE Judge
    <3>1. PICK content : Save("anticheat", content)
      BY <2>5 DEF Judge
    <3> QED
      BY <3>1, <2>5, SaveChangesOne DEF Judge, Idle
  <2>6. CASE WriteManifest
    BY <2>6, SaveChangesOne DEF WriteManifest, Idle
  <2>7. CASE WriteBarrier
    BY <2>7 DEF WriteBarrier
  <2>8. ASSUME NEW c \in Commands, Reap(c) PROVE FALSE
    BY <2>8, OverChangesOutput DEF Reap, Idle
  <2>9. CASE Steady
    BY <2>9 DEF Steady
  <2>10. CASE Aside
    BY <2>10 DEF Aside
  <2> QED
    BY <2>1, <2>2, <2>3, <2>4, <2>5, <2>6, <2>7, <2>8, <2>9, <2>10, StepsOfARound
<1> QED
  BY <1>1, <1>2, <1>3, PTL DEF Spec, BarrierMeansBoth

-------------------------------------------------------------------------------
(* What was judged.  The content f of a round is summed up when its        *)
(* summaries belong together and to what they are based on, the diagnosis  *)
(* perhaps excepted, and judged when the report of the checks is about     *)
(* these summaries.                                                        *)

(* What is compared: the diagnosis is not if it may have been replaced.    *)
Compared(excepted) == {name \in Based : name = "diagnosis" => ~excepted}

Summed(f, excepted) ==
  /\ \A name \in {"optimization", "summary"} : f[name] # NoFile
  /\ f["summary"].basis = f["optimization"].basis
  /\ \A name \in Compared(excepted) :
       f[name] # NoFile /\ f["optimization"].basis[name] = f[name]

Judged(f, excepted) ==
  Summed(f, excepted) /\ f["anticheat"] # NoFile /\ f["anticheat"].on = f["optimization"]

Optimized ==
  /\ There(round, "optimization") /\ held.summary # NoFile
  /\ held.summary.basis = file[round]["optimization"].basis
  /\ \A name \in Compared(late) :
       There(round, name) /\ file[round]["optimization"].basis[name] = file[round][name]

Sealed(n) ==
  There(n, "manifest") =>
    /\ Names \ {"manifest"} \subseteq DOMAIN file[n]["manifest"]
    /\ Judged(file[n]["manifest"], n \in overtaken)

AsJudged ==
  /\ at = "summary" => Optimized
  /\ at \in {"integrity", "manifest"} => Summed(file[round], late)
  /\ at = "manifest" => Judged(file[round], late)
  /\ \A n \in Rounds : Sealed(n)

(* Only the files themselves matter, and more may be excepted.             *)
LEMMA SummedOfTheSame ==
  ASSUME NEW f, NEW g, NEW e, NEW d, Summed(f, e), e => d,
         \A name \in Compared(d) \cup {"optimization", "summary"} : g[name] = f[name]
  PROVE  Summed(g, d)
BY DEF Summed, Compared

LEMMA JudgedOfTheSame ==
  ASSUME NEW f, NEW g, NEW e, NEW d, Judged(f, e), e => d,
         \A name \in Compared(d) \cup {"optimization", "summary", "anticheat"} : g[name] = f[name]
  PROVE  Judged(g, d)
BY SummedOfTheSame DEF Judged

LEMMA BasisOfARound == \A n : Basis(n) = [name \in Based |-> file[n][name]]
BY DEF Basis, Based

(* A round whose manifest is left alone stays sealed.                      *)
LEMMA SealedStays ==
  ASSUME AsJudged, NEW n \in Rounds, file'[n]["manifest"] = file[n]["manifest"],
         n \in overtaken' <=> n \in overtaken
  PROVE  Sealed(n)'
<1>1. CASE n \in overtaken
  BY <1>1 DEF AsJudged, Sealed, There, Judged, Summed, Compared
<1>2. CASE n \notin overtaken
  BY <1>2 DEF AsJudged, Sealed, There, Judged, Summed, Compared
<1> QED
  BY <1>1, <1>2

LEMMA AsJudgedNext == Shape /\ AsJudged /\ [Next]_vars => AsJudged'
<1> SUFFICES ASSUME Shape, AsJudged, [Next]_vars PROVE AsJudged'
  OBVIOUS
<1> USE NamesOfFiles
<1>1. ASSUME NEW n \in Rounds, Prepare(n) PROVE AsJudged'
  <2>1. PICK content, next : Put(n, "meta", content) /\ WorkOn(n, "lineage", next)
    BY <1>1 DEF Prepare
  <2>2. \A m \in Rounds : Sealed(m)'
    BY <1>1, <2>1, PutChangesOne, SealedStays DEF Prepare
  <2> QED
    BY <2>1, <2>2 DEF AsJudged, WorkOn
<1>2. ASSUME NEW n \in Rounds, Finalize(n) PROVE AsJudged'
  <2>1. PICK content, next :
          /\ Put(n, "optimization", content) /\ WorkOn(n, "summary", next)
          /\ content # NoFile /\ content.basis = Basis(n)
          /\ next.summary # NoFile /\ next.summary.basis = Basis(n)
    BY <1>2 DEF Finalize, NoFile
  <2>2. \A m \in Rounds : Sealed(m)'
    BY <1>2, <2>1, PutChangesOne, SealedStays DEF Finalize
  <2>3. \A name \in Based : There(n, name)
    BY <1>2 DEF Finalize, Basis, Based
  <2>4. \A name \in Based : file'[n][name] = file[n][name]
    BY <2>1, PutChangesOne
  <2>5. \A name \in Based : content.basis[name] = file[n][name]
    BY <2>1, BasisOfARound
  <2>6. round' = n /\ held' = next /\ file'[n]["optimization"] = content /\ at' = "summary"
    BY <2>1, PutChangesOne DEF WorkOn
  <2>7. Optimized'
    BY <2>1, <2>3, <2>4, <2>5, <2>6 DEF Optimized, There, Compared
  <2> QED
    BY <2>2, <2>6, <2>7 DEF AsJudged
<1>3. CASE WriteLineage
  <2>1. \A m \in Rounds : Sealed(m)'
    BY <1>3, SaveChangesOne, SealedStays DEF WriteLineage, Idle, Based
  <2> QED
    BY <1>3, <2>1 DEF AsJudged, WriteLineage, Rest
<1>4. CASE WriteSummary
  <2>1. /\ at = "summary" /\ round \in Rounds /\ ~Idle /\ Optimized
        /\ Save("summary", held.summary) /\ at' = "integrity" /\ round' = round
        /\ late' = late /\ overtaken' = overtaken
    BY <1>4 DEF WriteSummary, GoTo, AsJudged, Shape, Idle
  <2>2. \A m \in Rounds : Sealed(m)'
    BY <2>1, SaveChangesOne, SealedStays
  <2>3. /\ file'[round]["summary"] = held.summary
        /\ \A name \in Based \cup {"optimization"} : file'[round][name] = file[round][name]
    BY <2>1, SaveChangesOne
  <2>4. Summed(file'[round], late)
    BY <2>1, <2>3 DEF Summed, Optimized, There, Compared
  <2> QED
    BY <2>1, <2>2, <2>4 DEF AsJudged
<1>5. CASE Judge
  <2>1. PICK valid, content :
          /\ valid \in BOOLEAN
          /\ Save("anticheat", content)
          /\ content # NoFile /\ content.on = file[round]["optimization"]
          /\ IF valid THEN GoTo("manifest", Nothing) ELSE Rest
    BY <1>5 DEF Judge, NoFile
  <2>2. /\ at = "integrity" /\ round \in Rounds /\ ~Idle /\ Summed(file[round], late)
        /\ overtaken' = overtaken
    BY <1>5 DEF Judge, AsJudged, Shape, Idle
  <2>3. \A m \in Rounds : Sealed(m)'
    BY <2>1, <2>2, SaveChangesOne, SealedStays
  <2>4. /\ file'[round]["anticheat"] = content
        /\ \A name \in Based \cup {"optimization", "summary"} :
             file'[round][name] = file[round][name]
    BY <2>1, <2>2, SaveChangesOne
  <2>5. Judged(file'[round], late)
    BY <2>1, <2>2, <2>4, SummedOfTheSame DEF Judged, Compared
  <2>6. CASE valid
    BY <2>1, <2>3, <2>5, <2>6 DEF AsJudged, Judged, GoTo
  <2>7. CASE ~valid
    BY <2>1, <2>3, <2>7 DEF AsJudged, Rest
  <2> QED
    BY <2>6, <2>7
<1>6. CASE WriteManifest
  <2>1. /\ at = "manifest" /\ round \in Rounds /\ ~Idle /\ Judged(file[round], late)
        /\ Save("manifest", Snapshot(round)) /\ at' = "idle" /\ late \in BOOLEAN
        /\ overtaken' = IF late THEN overtaken \cup {round} ELSE overtaken \ {round}
    BY <1>6 DEF WriteManifest, Rest, AsJudged, Shape, Idle
  <2>2. \A m \in Rounds \ {round} : m \in overtaken' <=> m \in overtaken
    BY <2>1
  <2>3. \A m \in Rounds \ {round} : Sealed(m)'
    BY <2>1, <2>2, SaveChangesOne, SealedStays
  <2>4. late => round \in overtaken'
    BY <2>1
  <2>5. file'[round]["manifest"] = [name \in Names \ {"manifest"} |-> file[round][name]]
    BY <2>1, SaveChangesOne DEF Snapshot
  <2>6. Judged(file'[round]["manifest"], round \in overtaken')
    <3> DEFINE seal == [name \in Names \ {"manifest"} |-> file[round][name]]
    <3>1. \A name \in Based \cup {"optimization", "summary", "anticheat"} :
            seal[name] = file[round][name]
      OBVIOUS
    <3> HIDE DEF seal
    <3>2. Judged(seal, round \in overtaken')
      BY <2>1, <2>4, <3>1, JudgedOfTheSame DEF Compared
    <3> QED
      BY <2>5, <3>2 DEF seal
  <2>7. ASSUME NEW m \in Rounds, m = round PROVE Sealed(m)'
    <3>1. Names \ {"manifest"} \subseteq DOMAIN file'[round]["manifest"]
      BY <2>5
    <3> QED
      BY <2>6, <2>7, <3>1 DEF Sealed
  <2> QED
    BY <2>1, <2>3, <2>7 DEF AsJudged
<1>7. CASE WriteBarrier
  <2>1. \A m \in Rounds : Sealed(m)'
    BY <1>7, SaveChangesOne, SealedStays DEF WriteBarrier, Idle
  <2> QED
    BY <1>7, <2>1 DEF AsJudged, WriteBarrier, Rest
<1>8. ASSUME NEW c \in Commands, Reap(c) PROVE AsJudged'
  <2>1. \A m \in Rounds : Sealed(m)'
    BY <1>8, OverChangesOutput, SealedStays DEF Reap, Idle
  <2> QED
    BY <1>8, <2>1 DEF AsJudged, Reap, GoTo
<1>9. CASE Steady
  <2>1. \A m \in Rounds : Sealed(m)'
    BY <1>9, SealedStays DEF Steady
  <2>2. at' = at /\ round' = round /\ held' = held /\ (late => late')
    BY <1>9 DEF Steady
  <2>3. ASSUME at \in {"summary", "integrity", "manifest"}
        PROVE  /\ round \in Rounds
               /\ \A name \in Compared(late') \cup {"optimization", "summary", "anticheat"} :
                    file'[round][name] = file[round][name]
    <3>1. round \in Rounds
      BY <2>3 DEF Shape, Idle
    <3>2. \A name \in {"eval", "gaps", "lineage", "optimization", "summary", "anticheat"} :
            file'[round][name] = file[round][name]
      BY <1>9, <3>1 DEF Steady
    <3>3. ~late' => file'[round]["diagnosis"] = file[round]["diagnosis"]
      BY <1>9, <2>3, <3>1 DEF Steady
    <3> QED
      BY <3>1, <3>2, <3>3 DEF Compared, Based
  <2>4. at = "summary" => Optimized'
    BY <2>2, <2>3 DEF AsJudged, Optimized, There, Compared
  <2>5. /\ at \in {"integrity", "manifest"} => Summed(file'[round], late')
        /\ at = "manifest" => Judged(file'[round], late')
    BY <2>2, <2>3, SummedOfTheSame, JudgedOfTheSame DEF AsJudged
  <2> QED
    BY <2>1, <2>2, <2>4, <2>5 DEF AsJudged
<1>10. CASE Aside
  <2>1. \A m \in Rounds : Sealed(m)'
    BY <1>10, SealedStays DEF Aside
  <2> QED
    BY <1>10, <2>1 DEF AsJudged, Aside
<1> QED
  BY <1>1, <1>2, <1>3, <1>4, <1>5, <1>6, <1>7, <1>8, <1>9, <1>10, StepsOfARound

(* verify_artifact_manifest vouches for the round that finalize judged:    *)
(* the summaries of a round that verifies belong together, to its          *)
(* evaluation, gaps and commits, and to the checks, whatever was           *)
(* interrupted or run again in between; and to its diagnosis, unless an    *)
(* analyst left behind replaced that while finalize was at work.           *)
THEOREM VerifiedRoundsAreAsJudged == Spec => []VerifiedIsAsJudged
<1>1. Init => Shape /\ AsJudged
  <2> SUFFICES ASSUME Init PROVE AsJudged
    BY ShapeInit
  <2>1. \A n \in Rounds : ~There(n, "manifest")
    BY NamesOfFiles DEF Init, There
  <2> QED
    BY <2>1 DEF Init, AsJudged, Sealed
<1>2. Shape /\ AsJudged /\ [Next]_vars => (Shape /\ AsJudged)'
  BY ShapeNext, AsJudgedNext
<1>3. Shape /\ AsJudged => VerifiedIsAsJudged
  <2> SUFFICES ASSUME AsJudged, NEW n \in Rounds, Verifies(n)
               PROVE  /\ file[n]["summary"].basis = file[n]["optimization"].basis
                      /\ \A name \in Based : (name = "diagnosis" => n \notin overtaken) =>
                           file[n]["optimization"].basis[name] = file[n][name]
                      /\ file[n]["anticheat"].on = file[n]["optimization"]
    BY BasisOfARound DEF VerifiedIsAsJudged
  <2> DEFINE seal == file[n]["manifest"]
  <2>1. Judged(seal, n \in overtaken) /\ Names \ {"manifest"} \subseteq DOMAIN seal
    BY DEF Verifies, AsJudged, Sealed
  <2>2. \A name \in DOMAIN seal : seal[name] # NoFile => file[n][name] = seal[name]
    BY DEF Verifies
  <2> HIDE DEF seal
  <2>3. \A name \in Compared(n \in overtaken) \cup {"optimization", "summary", "anticheat"} :
          file[n][name] = seal[name]
    BY <2>1, <2>2, NamesOfFiles DEF Judged, Summed, Compared
  <2>4. Judged(file[n], n \in overtaken)
    BY <2>1, <2>3, JudgedOfTheSame
  <2> QED
    BY <2>4 DEF Judged, Summed, Compared
<1> QED
  BY <1>1, <1>2, <1>3, PTL DEF Spec

-------------------------------------------------------------------------------
(* What a confirmation rests on.                                           *)

(* Round n may be said to confirm round m: both have been evaluated at the *)
(* same commit, have no fix after it, and m has its summary.               *)
Confirming(n, m) ==
  /\ m \in Rounds /\ m < n /\ There(m, "summary")
  /\ file[m]["lineage"].eval = file[n]["lineage"].eval
  /\ file[m]["lineage"].post = None /\ file[n]["lineage"].post = None

Rests(n) ==
  There(n, "summary") /\ file[n]["summary"].confirms # 0 =>
    Confirming(n, file[n]["summary"].confirms)

(* The commits of a round with a summary are not written again, so that    *)
(* what a confirmation rests on remains.                                   *)
Confirmations ==
  /\ at = "lineage" => ~There(round, "summary")
  /\ at = "summary" =>
       /\ held.summary # NoFile
       /\ held.summary.confirms # 0 => Confirming(round, held.summary.confirms)
  /\ \A n \in Rounds : Rests(n)

(* The round that finalize names is the last that was made before.         *)
LEMMA ConfirmsTheLast ==
  ASSUME Shape, NEW n \in Rounds, HistoryIsThere(n), Confirms(n) # 0
  PROVE  Confirming(n, Confirms(n))
<1>1. Before(n) \in SUBSET Nat /\ Before(n) \subseteq Rounds /\ n \in Nat
  BY RoundsAssumption DEF Before, Shape
<1>2. Before(n) # {} /\ \A m \in Before(n) : m <= n
  BY <1>1 DEF Confirms, Before
<1>3. Max(Before(n)) \in Before(n)
  BY <1>1, <1>2, MaxIsMax
<1> DEFINE m == Max(Before(n))
<1>4. TwoGreen(file[n]["eval"], file[n]["lineage"], RecordOf(m)) /\ Confirms(n) = m
  BY <1>2 DEF Confirms
<1>5. m \in Rounds /\ m < n /\ There(m, "summary")
  BY <1>1, <1>3 DEF Before, HistoryIsThere
<1> HIDE DEF m
<1> QED
  BY <1>4, <1>5 DEF TwoGreen, RecordOf, Confirming

(* Where summaries and commits are left alone, or other ones are written,  *)
(* what was confirmed stays so.                                            *)
LEMMA ConfirmingStays ==
  ASSUME NEW n \in Rounds, NEW m, Confirming(n, m),
         file'[m]["summary"] # NoFile,
         file'[m]["lineage"] = file[m]["lineage"], file'[n]["lineage"] = file[n]["lineage"]
  PROVE  Confirming(n, m)'
BY DEF Confirming, There

LEMMA RestsStays ==
  ASSUME Confirmations,
         \A k \in Rounds : /\ file'[k]["summary"] = file[k]["summary"]
                           /\ There(k, "summary") => file'[k]["lineage"] = file[k]["lineage"]
  PROVE  \A n \in Rounds : Rests(n)'
<1> SUFFICES ASSUME NEW n \in Rounds, There(n, "summary"), file[n]["summary"].confirms # 0
             PROVE  Confirming(n, file[n]["summary"].confirms)'
  BY DEF Rests, There
<1>1. PICK m : m = file[n]["summary"].confirms
  OBVIOUS
<1>2. Confirming(n, m)
  BY <1>1 DEF Confirmations, Rests
<1>3. /\ file'[m]["summary"] # NoFile
      /\ file'[m]["lineage"] = file[m]["lineage"] /\ file'[n]["lineage"] = file[n]["lineage"]
  BY <1>2 DEF Confirming, There
<1>4. Confirming(n, m)'
  BY <1>2, <1>3, ConfirmingStays
<1> QED
  BY <1>1, <1>4

LEMMA ConfirmationsNext == Shape /\ Confirmations /\ [Next]_vars => Confirmations'
<1> SUFFICES ASSUME Shape, Confirmations, [Next]_vars PROVE Confirmations'
  OBVIOUS
<1> USE NamesOfFiles
<1>1. ASSUME NEW n \in Rounds, Prepare(n) PROVE Confirmations'
  <2>1. PICK p \in Preparations[n] : /\ Preparable(n, p.confirms)
                                      /\ Put(n, "meta", [confirms |-> p.confirms])
                                      /\ WorkOn(n, "lineage", p.lineage)
    BY <1>1 DEF Prepare
  <2>2. \A k \in Rounds, o \in {"summary", "lineage"} : file'[k][o] = file[k][o]
    BY <2>1, PutChangesOne DEF Based
  <2>3. ~There(n, "summary")
    BY <2>1 DEF Preparable, Execution
  <2>4. \A k \in Rounds : Rests(k)'
    BY <2>2, RestsStays
  <2> QED
    BY <2>1, <2>2, <2>3, <2>4 DEF Confirmations, WorkOn, There
<1>2. ASSUME NEW n \in Rounds, Finalize(n) PROVE Confirmations'
  <2>1. PICK content, next :
          /\ Put(n, "optimization", content) /\ WorkOn(n, "summary", next)
          /\ next.summary # NoFile /\ next.summary.confirms = Confirms(n)
    BY <1>2 DEF Finalize, NoFile
  <2>2. \A k \in Rounds, o \in {"summary", "lineage"} : file'[k][o] = file[k][o]
    BY <2>1, PutChangesOne DEF Based
  <2>3. \A k \in Rounds : Rests(k)'
    BY <2>2, RestsStays
  <2>4. ASSUME Confirms(n) # 0 PROVE Confirming(n, Confirms(n))
    BY <1>2, <2>4, ConfirmsTheLast DEF Finalize
  <2> DEFINE m == Confirms(n)
  <2>5. at' = "summary" /\ round' = n /\ held'.summary # NoFile /\ held'.summary.confirms = m
    BY <2>1 DEF WorkOn
  <2>6. ASSUME m # 0
        PROVE  /\ m \in Rounds /\ m < n /\ file'[m]["summary"] # NoFile
               /\ file'[m]["lineage"].eval = file'[n]["lineage"].eval
               /\ file'[m]["lineage"].post = None /\ file'[n]["lineage"].post = None
    BY <2>2, <2>4, <2>6 DEF Confirming, There
  <2> HIDE DEF m
  <2> QED
    BY <2>3, <2>5, <2>6 DEF Confirmations, Confirming, There
<1>3. CASE WriteLineage
  <2>1. /\ ~There(round, "summary") /\ round \in Rounds /\ ~Idle
        /\ Save("lineage", held) /\ at' = "idle"
    BY <1>3 DEF WriteLineage, Confirmations, Rest, Shape, Idle
  <2>2. \A k \in Rounds : /\ file'[k]["summary"] = file[k]["summary"]
                          /\ There(k, "summary") => file'[k]["lineage"] = file[k]["lineage"]
    BY <2>1, SaveChangesOne DEF Based
  <2> QED
    BY <2>1, <2>2, RestsStays DEF Confirmations
<1>4. CASE WriteSummary
  <2>1. /\ at = "summary" /\ round \in Rounds /\ ~Idle
        /\ Save("summary", held.summary) /\ at' = "integrity" /\ held.summary # NoFile
        /\ held.summary.confirms # 0 => Confirming(round, held.summary.confirms)
    BY <1>4 DEF WriteSummary, GoTo, Confirmations, Shape, Idle
  <2>2. /\ file'[round]["summary"] = held.summary
        /\ \A k \in Rounds : k # round => file'[k]["summary"] = file[k]["summary"]
        /\ \A k \in Rounds : file'[k]["lineage"] = file[k]["lineage"]
    BY <2>1, SaveChangesOne DEF Based
  <2>3. ASSUME NEW n \in Rounds, There(n, "summary")', file'[n]["summary"].confirms # 0
        PROVE  Confirming(n, file[n]["summary"].confirms)'
    <3>1. PICK m : m = file'[n]["summary"].confirms
      OBVIOUS
    <3>2. Confirming(n, m)
      <4>1. CASE n = round
        BY <2>1, <2>2, <2>3, <3>1, <4>1
      <4>2. CASE n # round
        <5>1. file[n]["summary"] = file'[n]["summary"]
          BY <2>2, <4>2
        <5>2. There(n, "summary") /\ file[n]["summary"].confirms # 0
          BY <2>3, <5>1 DEF There
        <5> QED
          BY <3>1, <5>1, <5>2 DEF Confirmations, Rests
      <4> QED
        BY <4>1, <4>2
    <3>3. /\ file'[m]["summary"] # NoFile
          /\ file'[m]["lineage"] = file[m]["lineage"] /\ file'[n]["lineage"] = file[n]["lineage"]
      <4>1. m \in Rounds /\ file[m]["summary"] # NoFile
        BY <3>2 DEF Confirming, There
      <4>2. file'[m]["summary"] # NoFile
        BY <2>1, <2>2, <4>1
      <4> QED
        BY <2>2, <4>1, <4>2
    <3>4. Confirming(n, m)'
      BY <3>2, <3>3, ConfirmingStays
    <3> QED
      BY <3>1, <3>4
  <2> QED
    BY <2>1, <2>3 DEF Confirmations, Rests
<1>5. CASE Judge
  <2>1. PICK valid, content :
          /\ valid \in BOOLEAN
          /\ Save("anticheat", content)
          /\ IF valid THEN GoTo("manifest", Nothing) ELSE Rest
    BY <1>5 DEF Judge
  <2>2. \A k \in Rounds, o \in {"summary", "lineage"} : file'[k][o] = file[k][o]
    BY <1>5, <2>1, SaveChangesOne DEF Judge, Idle, Based
  <2>3. at' \notin {"lineage", "summary"}
    BY <2>1 DEF GoTo, Rest
  <2> QED
    BY <2>2, <2>3, RestsStays DEF Confirmations
<1>6. CASE WriteManifest \/ WriteBarrier
  <2>1. PICK name, content :
          name \in {"manifest", "barrier"} /\ ~Idle /\ Save(name, content) /\ at' = "idle"
    BY <1>6 DEF WriteManifest, WriteBarrier, Rest, Idle
  <2>2. \A k \in Rounds, o \in {"summary", "lineage"} : file'[k][o] = file[k][o]
    BY <2>1, SaveChangesOne DEF Based
  <2> QED
    BY <2>1, <2>2, RestsStays DEF Confirmations
<1>7. ASSUME NEW c \in Commands, Reap(c) PROVE Confirmations'
  <2>1. \A k \in Rounds, o \in {"summary", "lineage"} : file'[k][o] = file[k][o]
    BY <1>7, OverChangesOutput DEF Reap, Idle
  <2>2. at' \notin {"lineage", "summary"}
    BY <1>7 DEF Reap, GoTo
  <2> QED
    BY <2>1, <2>2, RestsStays DEF Confirmations
<1>8. CASE Steady
  <2>1. \A k \in Rounds, o \in {"summary", "lineage"} : file'[k][o] = file[k][o]
    BY <1>8 DEF Steady
  <2>2. at' = at /\ round' = round /\ held' = held
    BY <1>8 DEF Steady
  <2>3. ASSUME at = "summary", held.summary.confirms # 0
        PROVE  Confirming(round, held.summary.confirms)'
    <3>1. round \in Rounds /\ Confirming(round, held.summary.confirms)
      BY <2>3 DEF Confirmations, Shape, Idle
    <3> QED
      BY <2>1, <2>2, <3>1 DEF Confirming, There
  <2>4. at = "lineage" => ~There(round, "summary")'
    BY <2>1, <2>2 DEF Confirmations, Shape, Idle, There
  <2>5. \A k \in Rounds : Rests(k)'
    BY <2>1, RestsStays
  <2> QED
    BY <2>2, <2>3, <2>4, <2>5 DEF Confirmations
<1>9. CASE Aside
  BY <1>9, RestsStays DEF Aside, Confirmations
<1> QED
  BY <1>1, <1>2, <1>3, <1>4, <1>5, <1>6, <1>7, <1>8, <1>9, StepsOfARound

(* formal_two_green_status: the commits a confirmation rests on stand,     *)
(* however the rounds are prepared, run and finalized again.               *)
THEOREM ConfirmationsStand == Spec => []ConfirmedCommitStands
<1>1. Init => Shape /\ Confirmations
  <2> SUFFICES ASSUME Init PROVE Confirmations
    BY ShapeInit
  <2>1. \A n \in Rounds : ~There(n, "summary")
    BY NamesOfFiles DEF Init, There
  <2> QED
    BY <2>1 DEF Init, Confirmations, Rests
<1>2. Shape /\ Confirmations /\ [Next]_vars => (Shape /\ Confirmations)'
  BY ShapeNext, ConfirmationsNext
<1>3. Confirmations => ConfirmedCommitStands
  BY DEF Confirmations, Rests, Confirming, ConfirmedCommitStands
<1> QED
  BY <1>1, <1>2, <1>3, PTL DEF Spec
================================================================================
