---------------------------- MODULE EvalPoolProofs ----------------------------
(***************************************************************************)
(* What EvalPool promises, for any number of cases, threads, attempts and  *)
(* processes: one run of a case at a time, no more runs than threads, a    *)
(* summary that is never ahead of its rows, and EvalInOrder.               *)
(***************************************************************************)
EXTENDS EvalPool, FiniteSetTheorems, TLAPS

(* A pass is being worked on; a process has come to its pool.              *)
Working == main \in {"wait", "notify", "row", "publish"}

(* Cases are submitted in order, with no attempt made of them; a result is *)
(* that of a future that was taken; and one attempt more is never too many.*)
PoolInv ==
  /\ \A c \in Cases : /\ task[c] = "queued"   => attempt[c] = 0
                      /\ task[c] = "sleeping" => attempt[c] < MaxAttempts
  /\ Working => \A c \in Cases :
                  /\ c >= next => task[c] = "none" /\ attempt[c] = 0
                  /\ c < next  => task[c] \notin {"none", "cancelled"}
                  /\ task[c] = "taken" <=> c \in results
  /\ main \in {"off", "begin", "fill", "final", "complete", "dead"} =>
       \A c \in Cases : task[c] \in {"none", "taken"}

(* A run is live only where a thread awaits it or has given it up.         *)
CaseLive(c) ==
  /\ task[c] = "posting" => live[pass][c] = 1
  /\ task[c] \in {"queued", "sleeping", "reading", "done", "taken"} => live[pass][c] = 0
  /\ task[c] \in {"none", "cancelled"} /\ main # "dead" => live[pass][c] = 0
  /\ pass = "memory" => live["case"][c] = 0
  /\ pass = "case"   => live["memory"][c] = 0
  /\ live["memory"][c] \in {0, 1} /\ live["case"][c] \in {0, 1}

LiveInv == \A c \in Cases : CaseLive(c)

(* Each pass has been told in order, the baseline after the memory pass.   *)
ToldInv ==
  /\ \A p \in Passes : /\ Len(told[p]) <= N
                       /\ \A i \in DOMAIN told[p] : told[p][i] = i
  /\ pass = "memory" => told["case"] = <<>>
  /\ pass = "case"   => Len(told["memory"]) = N
  /\ main = "begin"  => told = NoneTold /\ pass = "memory"
  /\ main \in {"final", "complete"} => pass = "case" /\ Len(told["case"]) = N
  /\ main = "row" => pass = "case" /\ Len(told["case"]) > 0

(* A summary is backed by rows r.                                          *)
Backed(s, r) == /\ \A c \in 1..s.cases : r[c] > 0
                /\ s.cases > 0 => s.memory = N
                /\ s.complete => s.cases = N

RowsInv ==
  /\ main # "off" => process > 0
  /\ Backed(summary, rows)
  /\ \A q \in late : IF q.kind = "row" THEN q.write[2] > 0 ELSE Backed(q.write, rows)
  /\ main \notin {"off", "row", "failed", "dead"} =>
       \A c \in 1..Len(told["case"]) : rows[c] > 0
  /\ main = "row" => \A c \in 1..(Len(told["case"]) - 1) : rows[c] > 0

(* There are no more futures than threads, and one less where a case may   *)
(* be submitted; what runs once a process is dead was there before.        *)
Slots == {c \in Cases : Outstanding(c)}

SlotsInv ==
  /\ Cardinality(Slots) <= Concurrency
  /\ main \in {"notify", "row", "publish"} => Cardinality(Slots) < Concurrency
  /\ main = "dead" => ServerIsNotOverrun

IInv == TypeOK /\ PoolInv /\ LiveInv /\ ToldInv /\ RowsInv /\ SlotsInv

-------------------------------------------------------------------------------
(* What the steps have in common.                                          *)

LEMMA AbortEffect ==
  ASSUME TypeOK, Abort
  PROVE  /\ main' = "failed"
         /\ task' \in [Cases -> Futures]
         /\ \A c \in Cases : task'[c] = IF task[c] = "queued" THEN "cancelled" ELSE task[c]
BY DEF Abort, Cancelled, TypeOK, Futures

LEMMA MoveEffect ==
  ASSUME TypeOK, NEW c \in Cases, NEW from, NEW to \in Futures, ThreadStep(c, from, to)
  PROVE  /\ task[c] = from /\ task'[c] = to
         /\ \A d \in Cases : d # c => task'[d] = task[d]
         /\ task' \in [Cases -> Futures]
BY DEF ThreadStep, TypeOK

LEMMA LiveEffect ==
  ASSUME TypeOK, NEW p \in Passes, NEW c \in Cases, NEW k \in Int, AddLive(p, c, k),
         live[p][c] + k \in Nat
  PROVE  /\ live' \in [Passes -> [Cases -> Nat]]
         /\ live'[p][c] = live[p][c] + k
         /\ \A q \in Passes, d \in Cases : q # p \/ d # c => live'[q][d] = live[q][d]
BY DEF AddLive, TypeOK, Passes

LEMMA SummaryType ==
  ASSUME IInv, NEW b \in BOOLEAN
  PROVE  /\ SummaryOf(b) \in Summaries
         /\ [kind |-> "summary", write |-> SummaryOf(b)] \in Requests
<1>1. Told("memory") \in 0..N /\ Told("case") \in 0..N
  BY NAssumption DEF IInv, TypeOK, ToldInv, Told, Passes
<1>2. SummaryOf(b) \in Summaries
  BY <1>1 DEF IInv, TypeOK, SummaryOf, Summaries
<1>q. QED
  BY <1>2 DEF Requests

LEMMA TellEffect ==
  ASSUME IInv, Notify
  PROVE  /\ told' \in [Passes -> Seq(Cases)]
         /\ Len(told'[pass]) = Len(told[pass]) + 1
         /\ Len(told[pass]) + 1 \in Cases
         /\ \A i \in DOMAIN told'[pass] : told'[pass][i] = i
         /\ \A p \in Passes : p # pass => told'[p] = told[p]
<1> USE DEF IInv, TypeOK
<1>1. NextTold \in Cases /\ NextTold = Len(told[pass]) + 1
  BY DEF Notify, Due, NextTold, Told
<1>2. told[pass] \in Seq(Cases)
  OBVIOUS
<1>3. told' = [told EXCEPT ![pass] = Append(told[pass], NextTold)]
  BY DEF Notify
<1>4. told'[pass] = Append(told[pass], NextTold)
  BY <1>3
<1>5. Append(told[pass], NextTold) \in Seq(Cases)
  BY <1>1, <1>2
<1>6. told' \in [Passes -> Seq(Cases)]
  BY <1>3, <1>5
<1>7. \A i \in DOMAIN told[pass] : told[pass][i] = i
  BY DEF ToldInv
<1>8. Len(told'[pass]) = Len(told[pass]) + 1
  BY <1>2, <1>4
<1>9. \A i \in DOMAIN told'[pass] : told'[pass][i] = i
  BY <1>1, <1>2, <1>4, <1>7
<1>q. QED
  BY <1>1, <1>3, <1>6, <1>8, <1>9

LEMMA SendEffect ==
  ASSUME IInv, NEW c \in Cases, NEW to \in Futures, Sends(c, to)
  PROVE  /\ task[c] \in {"queued", "sleeping"} /\ task'[c] = to
         /\ \A d \in Cases : d # c => task'[d] = task[d]
         /\ task' \in [Cases -> Futures]
         /\ attempt[c] \in 0..MaxAttempts /\ attempt[c] < MaxAttempts
<1>1. PICK from \in {"queued", "sleeping"} : ThreadStep(c, from, to)
  BY DEF Sends
<1>2. /\ task[c] = from /\ task'[c] = to
      /\ \A d \in Cases : d # c => task'[d] = task[d]
      /\ task' \in [Cases -> Futures]
  BY <1>1, MoveEffect DEF IInv
<1>q. QED
  BY <1>2, AttemptsAssumption DEF IInv, TypeOK, PoolInv

(* When no case is left to wait for, every case has been told.             *)
LEMMA PassOverEffect ==
  ASSUME IInv, PassIsOver
  PROVE  /\ \A c \in Cases : task[c] = "taken"
         /\ Len(told[pass]) = N
<1> USE DEF IInv, TypeOK, PassIsOver
<1>1. \A c \in Cases : c < next
  BY NAssumption DEF Cases
<1>2. \A c \in Cases : task[c] = "taken"
  BY <1>1 DEF Working, PoolInv, Outstanding, Futures
<1>3. results = Cases
  BY <1>2 DEF Working, PoolInv
<1>4. Len(told[pass]) \in 0..N
  BY NAssumption DEF ToldInv
<1>5. Len(told[pass]) + 1 \notin 1..N
  BY <1>3 DEF Due, NextTold, Told, Cases
<1>q. QED
  BY <1>2, <1>4, <1>5, NAssumption

LEMMA RunBegins ==
  ASSUME TypeOK, NEW c \in Cases, AddLive(pass, c, 1)
  PROVE  /\ live' \in [Passes -> [Cases -> Nat]]
         /\ live'[pass][c] = live[pass][c] + 1
         /\ \A q \in Passes, d \in Cases : q # pass \/ d # c => live'[q][d] = live[q][d]
<1>1. pass \in Passes /\ live[pass][c] + 1 \in Nat
  BY DEF TypeOK
<1>q. QED
  BY <1>1, LiveEffect

LEMMA RunIsOver ==
  ASSUME TypeOK, NEW p \in Passes, NEW c \in Cases, live[p][c] > 0, AddLive(p, c, -1)
  PROVE  /\ live' \in [Passes -> [Cases -> Nat]]
         /\ live'[p][c] = live[p][c] - 1
         /\ \A q \in Passes, d \in Cases : q # p \/ d # c => live'[q][d] = live[q][d]
<1>1. live[p][c] + (-1) \in Nat /\ live[p][c] + (-1) = live[p][c] - 1
  BY DEF TypeOK
<1>2. -1 \in Int
  OBVIOUS
<1>q. QED
  BY <1>1, <1>2, LiveEffect

LEMMA SummaryIsBacked ==
  ASSUME IInv, NEW b \in BOOLEAN, main \in {"begin", "publish", "final"},
         b => Told("case") = N
  PROVE  Backed(SummaryOf(b), rows)
<1> USE DEF IInv, TypeOK, ToldInv, Told
<1>1. \A c \in 1..Told("case") : rows[c] > 0
  BY DEF RowsInv
<1>2. Told("case") > 0 => Told("memory") = N
  BY DEF Passes, NoneTold
<1>q. QED
  BY <1>1, <1>2 DEF SummaryOf, Backed

LEMMA PostEffect ==
  ASSUME IInv, NEW c \in Cases, Post(c)
  PROVE  /\ live[pass][c] = 0 /\ live'[pass][c] = 1
         /\ \A q \in Passes, e \in Cases : q # pass \/ e # c => live'[q][e] = live[q][e]
<1>1. TypeOK /\ CaseLive(c)
  BY DEF IInv, LiveInv
<1>2. task[c] \in {"queued", "sleeping"}
  BY SendEffect DEF Post, Futures
<1>3. live[pass][c] = 0
  BY <1>1, <1>2 DEF CaseLive
<1>q. QED
  BY <1>1, <1>3, RunBegins DEF Post

LEMMA AnsweredEffect ==
  ASSUME IInv, NEW c \in Cases, Answered(c)
  PROVE  /\ task[c] = "posting" /\ task'[c] \in {"reading", "raised", "sleeping"}
         /\ \A d \in Cases : d # c => task'[d] = task[d]
         /\ live[pass][c] = 1 /\ live'[pass][c] = 0
         /\ \A q \in Passes, e \in Cases : q # pass \/ e # c => live'[q][e] = live[q][e]
<1>1. TypeOK /\ CaseLive(c) /\ pass \in Passes
  BY DEF IInv, LiveInv, TypeOK
<1>2. PICK to \in {"reading", "raised", "sleeping"} : ThreadStep(c, "posting", to)
  BY DEF Answered
<1>3. to \in Futures
  BY DEF Futures
<1>4. /\ task[c] = "posting" /\ task'[c] = to
      /\ \A d \in Cases : d # c => task'[d] = task[d]
  BY <1>1, <1>2, <1>3, MoveEffect
<1>5. live[pass][c] = 1
  BY <1>1, <1>4 DEF CaseLive
<1>6. AddLive(pass, c, -1) /\ live[pass][c] > 0
  BY <1>5 DEF Answered
<1>7. /\ live'[pass][c] = live[pass][c] - 1
      /\ \A q \in Passes, e \in Cases : q # pass \/ e # c => live'[q][e] = live[q][e]
  BY <1>1, <1>6, RunIsOver
<1>q. QED
  BY <1>4, <1>5, <1>7

LEMMA RunEndsEffect ==
  ASSUME IInv, RunEnds
  PROVE  \E p \in Passes, c \in Cases :
           /\ ~(p = pass /\ task[c] = "posting")
           /\ live[p][c] = 1 /\ live'[p][c] = 0
           /\ \A q \in Passes, e \in Cases : q # p \/ e # c => live'[q][e] = live[q][e]
<1>1. PICK p \in Passes, c \in Cases : /\ live[p][c] > 0
                                       /\ ~(p = pass /\ task[c] = "posting")
                                       /\ AddLive(p, c, -1)
  BY DEF RunEnds
<1>2. TypeOK /\ live[p][c] = 1
  BY <1>1 DEF IInv, LiveInv, CaseLive, Passes
<1>3. /\ live'[p][c] = live[p][c] - 1
      /\ \A q \in Passes, e \in Cases : q # p \/ e # c => live'[q][e] = live[q][e]
  BY <1>1, <1>2, RunIsOver
<1>q. QED
  BY <1>1, <1>2, <1>3

LEMMA BackedStays ==
  ASSUME NEW s \in Summaries, NEW r, NEW t, \A d \in Cases : r[d] > 0 => t[d] > 0,
         Backed(s, r)
  PROVE  Backed(s, t)
<1>1. \A c \in 1..s.cases : c \in Cases
  BY NAssumption DEF Summaries, Cases
<1>q. QED
  BY <1>1 DEF Backed

(* Where rows only gain and nothing new is published, all stays backed.    *)
LEMMA AllStaysBacked ==
  ASSUME IInv, \A d \in Cases : rows[d] > 0 => rows'[d] > 0, summary' = summary
  PROVE  /\ Backed(summary', rows')
         /\ \A q \in late : IF q.kind = "row" THEN q.write[2] > 0 ELSE Backed(q.write, rows')
<1>1. Backed(summary, rows) /\ summary \in Summaries
  BY DEF IInv, RowsInv, TypeOK
<1>2. Backed(summary', rows')
  BY <1>1, BackedStays
<1>3. ASSUME NEW q \in late
      PROVE  IF q.kind = "row" THEN q.write[2] > 0 ELSE Backed(q.write, rows')
  <2>1. IF q.kind = "row" THEN q.write[2] > 0 ELSE Backed(q.write, rows)
    BY DEF IInv, RowsInv
  <2>2. q.kind # "row" => q.write \in Summaries
    BY DEF IInv, TypeOK, Requests
  <2>q. QED
    BY <2>1, <2>2, BackedStays
<1>q. QED
  BY <1>2, <1>3

-------------------------------------------------------------------------------
(* The invariant is inductive.                                             *)

LEMMA Initially == Init => IInv
<1>1. Init => TypeOK /\ PoolInv /\ LiveInv /\ ToldInv /\ RowsInv
  BY NAssumption, AttemptsAssumption, ProcessesAssumption
     DEF Init, TypeOK, PoolInv, LiveInv, CaseLive, ToldInv, RowsInv, Backed, Working,
         Cases, Passes, NoSummary, NoneTold, NoTasks, Zero, Futures, Summaries
<1>2. ASSUME Init PROVE SlotsInv
  <2>1. Slots = {}
    BY <1>2 DEF Init, NoTasks, Slots, Outstanding
  <2>2. Cardinality(Slots) = 0
    BY <2>1, FS_EmptySet
  <2>q. QED
    BY <1>2, <2>2, ConcurrencyAssumption DEF Init, SlotsInv
<1>q. QED
  BY <1>1, <1>2 DEF IInv

LEMMA TypeStep == IInv /\ [Next]_vars => TypeOK'
<1> SUFFICES ASSUME IInv, [Next]_vars PROVE TypeOK'
  OBVIOUS
<1> USE NAssumption, AttemptsAssumption, ProcessesAssumption
<1> USE DEF IInv, vars, pool, stored, TypeOK, PoolInv, LiveInv, Working, Futures,
            Passes, NoneTold, NoTasks, Zero
<1>1. CASE Start
  BY <1>1 DEF Start, Exited
<1>2. CASE PublishFirst
  BY <1>2, AbortEffect, SummaryType DEF PublishFirst, Publish, PublishFails
<1>3. CASE Fill
  <2> DEFINE k == IF Concurrency < N THEN Concurrency ELSE N
  <2>1. k \in 1..N
    BY ConcurrencyAssumption
  <2>2. next' = k + 1 /\ next' \in 1..(N + 1)
    BY <2>1, <1>3 DEF Fill
  <2>3. task' \in [Cases -> Futures] /\ attempt' \in [Cases -> 0..MaxAttempts]
    BY <1>3 DEF Fill
  <2>q. QED
    BY <2>2, <2>3, <1>3 DEF Fill
<1>4. CASE Take
  BY <1>4, AbortEffect DEF Take
<1>5. CASE Notify
  BY <1>5, TellEffect DEF Notify, Due
<1>6. CASE WriteRow
  <2>1. Told("case") \in Cases
    BY <1>6 DEF WriteRow, ToldInv, Told, Cases
  <2>2. [rows EXCEPT ![Told("case")] = process] \in [Cases -> 0..MaxProcesses]
    OBVIOUS
  <2>3. [kind |-> "row", write |-> <<Told("case"), process>>] \in Requests
    BY <2>1 DEF Requests
  <2>4. rows' \in [Cases -> 0..MaxProcesses] /\ late' \subseteq Requests
    BY <2>2, <2>3, <1>6 DEF WriteRow
  <2>5. main' \in {"publish", "failed"} /\ task' \in [Cases -> Futures]
    BY <1>6, AbortEffect DEF WriteRow
  <2>q. QED
    BY <2>4, <2>5, <1>6 DEF WriteRow
<1>7. CASE PublishCase
  <2> DEFINE b == Told("case") = N
  <2>1. \/ Publish(b) /\ main' = "notify" /\ UNCHANGED task
        \/ PublishFails(b) /\ Abort
    BY <1>7 DEF PublishCase
  <2>2. SummaryOf(b) \in Summaries /\ [kind |-> "summary", write |-> SummaryOf(b)] \in Requests
    BY SummaryType
  <2> HIDE DEF b
  <2>3. summary' \in Summaries /\ late' \subseteq Requests /\ rows' = rows
    BY <2>1, <2>2 DEF Publish, PublishFails
  <2>4. main' \in {"notify", "failed"} /\ task' \in [Cases -> Futures]
    BY <2>1, AbortEffect
  <2>q. QED
    BY <2>3, <2>4, <1>7 DEF PublishCase
<1>8. CASE SubmitNext
  <2>1. next \in Cases
    BY <1>8 DEF SubmitNext, Cases
  <2>2. task' \in [Cases -> Futures] /\ next' \in 1..(N + 1)
    BY <2>1, <1>8 DEF SubmitNext, Cases
  <2>q. QED
    BY <2>2, <1>8 DEF SubmitNext
<1>9. CASE EndPass
  BY <1>9 DEF EndPass, PassIsOver, Outstanding, Due, NextTold, Told
<1>10. CASE Wait
  BY <1>10 DEF Wait
<1>11. CASE PublishLast
  BY <1>11, AbortEffect, SummaryType DEF PublishLast, Publish, PublishFails
<1>12. CASE RunEnds
  <2>1. PICK p \in Passes, c \in Cases : live[p][c] > 0 /\ AddLive(p, c, -1)
    BY <1>12 DEF RunEnds
  <2>2. live' \in [Passes -> [Cases -> Nat]]
    BY <2>1, RunIsOver
  <2>q. QED
    BY <2>2, <1>12 DEF RunEnds
<1>13. CASE LateRequest
  <2>1. PICK q \in late : /\ late' = late \ {q}
                          /\ IF q.kind = "row"
                             THEN /\ rows' = [rows EXCEPT ![q.write[1]] = q.write[2]]
                                  /\ UNCHANGED summary
                             ELSE summary' = q.write /\ UNCHANGED rows
    BY <1>13 DEF LateRequest
  <2>2. CASE q.kind = "row"
    <3>1. q.write \in Cases \X (0..MaxProcesses)
      BY <2>2 DEF Requests
    <3>2. rows' \in [Cases -> 0..MaxProcesses]
      BY <2>1, <2>2, <3>1
    <3>q. QED
      BY <2>1, <2>2, <3>2, <1>13 DEF LateRequest
  <2>3. CASE q.kind # "row"
    <3>1. q.write \in Summaries
      BY <2>3 DEF Requests
    <3>q. QED
      BY <2>1, <2>3, <3>1, <1>13 DEF LateRequest
  <2>q. QED
    BY <2>2, <2>3
<1>14. CASE Crash
  BY <1>14 DEF Crash
<1>15. ASSUME NEW c \in Cases, Post(c) PROVE TypeOK'
  <2>1. task' \in [Cases -> Futures] /\ attempt[c] < MaxAttempts
    BY <1>15, SendEffect DEF Post
  <2>2. attempt' \in [Cases -> 0..MaxAttempts]
    BY <2>1, <1>15 DEF Post
  <2>3. live' \in [Passes -> [Cases -> Nat]]
    BY <1>15, RunBegins DEF Post
  <2>q. QED
    BY <2>1, <2>2, <2>3, <1>15 DEF Post, Unmoved
<1>16. ASSUME NEW c \in Cases, Unreachable(c) PROVE TypeOK'
  <2>1. /\ task' \in [Cases -> Futures]
        /\ attempt[c] \in 0..MaxAttempts /\ attempt[c] < MaxAttempts
    BY <1>16, SendEffect DEF Unreachable
  <2>2. attempt[c] + 1 \in 0..MaxAttempts
    BY <2>1
  <2>3. attempt' \in [Cases -> 0..MaxAttempts]
    BY <2>2, <1>16 DEF Unreachable
  <2>q. QED
    BY <2>1, <2>3, <1>16 DEF Unreachable, Unmoved
<1>17. ASSUME NEW c \in Cases, Answered(c) PROVE TypeOK'
  <2>1. PICK to \in Futures : ThreadStep(c, "posting", to)
    BY <1>17 DEF Answered
  <2>2. task[c] = "posting" /\ task' \in [Cases -> Futures]
    BY <2>1, MoveEffect
  <2>3. pass \in Passes /\ live[pass][c] > 0
    BY <2>2 DEF CaseLive
  <2>4. live' \in [Passes -> [Cases -> Nat]]
    BY <2>3, <1>17, RunIsOver DEF Answered
  <2>q. QED
    BY <2>2, <2>4, <1>17 DEF Answered, Unmoved
<1>18. ASSUME NEW c \in Cases, TimesOut(c) PROVE TypeOK'
  BY <1>18, MoveEffect DEF TimesOut, Unmoved
<1>19. ASSUME NEW c \in Cases, Read(c) PROVE TypeOK'
  BY <1>19, MoveEffect DEF Read, Unmoved
<1>20. CASE UNCHANGED vars
  BY <1>20
<1>q. QED
  BY <1>1, <1>2, <1>3, <1>4, <1>5, <1>6, <1>7, <1>8, <1>9, <1>10, <1>11, <1>12, <1>13,
     <1>14, <1>15, <1>16, <1>17, <1>18, <1>19, <1>20 DEF Next, MainStep, Thread

LEMMA PoolStep == IInv /\ [Next]_vars => PoolInv'
<1> SUFFICES ASSUME IInv, [Next]_vars PROVE PoolInv'
  OBVIOUS
<1> USE NAssumption, AttemptsAssumption, ProcessesAssumption
<1> USE DEF IInv, vars, pool, stored, TypeOK, PoolInv, Working, Futures, NoTasks, Zero
<1>1. CASE Start
  BY <1>1 DEF Start, Exited
<1>2. CASE PublishFirst
  BY <1>2, AbortEffect, SummaryType DEF PublishFirst, Publish, PublishFails
<1>3. CASE Fill
  <2> DEFINE k == IF Concurrency < N THEN Concurrency ELSE N
  <2>1. k \in 1..N /\ next' = k + 1
    BY <1>3, ConcurrencyAssumption DEF Fill
  <2>2. \A c \in Cases : /\ task'[c] = IF c <= k THEN "queued" ELSE "none"
                         /\ attempt'[c] = 0
    BY <1>3 DEF Fill
  <2>4. results' = {} /\ main' = "wait"
    BY <1>3 DEF Fill
  <2> HIDE DEF k
  <2>3. \A c \in Cases : c < next' <=> c <= k
    BY <2>1 DEF Cases
  <2>5. \A c \in Cases : c >= next' <=> ~(c <= k)
    BY <2>1 DEF Cases
  <2>q. QED
    BY <2>2, <2>3, <2>4, <2>5
<1>4. CASE Take
  BY <1>4, AbortEffect DEF Take
<1>5. CASE Notify
  BY <1>5, TellEffect DEF Notify, Due
<1>6. CASE WriteRow
  BY <1>6, AbortEffect DEF WriteRow, Told
<1>7. CASE PublishCase
  BY <1>7, AbortEffect, SummaryType DEF PublishCase, Publish, PublishFails
<1>8. CASE SubmitNext
  <2>1. next \in Cases /\ next' = next + 1
    BY <1>8 DEF SubmitNext, Cases
  <2>2. /\ task'[next] = "queued"
        /\ \A c \in Cases : c # next => task'[c] = task[c]
    BY <2>1, <1>8 DEF SubmitNext
  <2>3. attempt[next] = 0 /\ task[next] = "none"
    BY <2>1, <1>8 DEF SubmitNext, Cases
  <2>4. \A c \in Cases : /\ c < next' => c < next \/ c = next
                         /\ c >= next' => c >= next /\ c # next
    BY <2>1 DEF Cases
  <2>q. QED
    BY <2>1, <2>2, <2>3, <2>4, <1>8 DEF SubmitNext
<1>9. CASE EndPass
  BY <1>9, PassOverEffect DEF EndPass
<1>10. CASE Wait
  BY <1>10 DEF Wait
<1>11. CASE PublishLast
  BY <1>11, AbortEffect, SummaryType DEF PublishLast, Publish, PublishFails
<1>12. CASE RunEnds
  BY <1>12, LiveEffect DEF RunEnds
<1>13. CASE LateRequest
  BY <1>13 DEF LateRequest
<1>14. CASE Crash
  BY <1>14 DEF Crash
<1>15. ASSUME NEW c \in Cases, Post(c) PROVE PoolInv'
  <2>1. /\ task[c] \in {"queued", "sleeping"} /\ task'[c] = "posting"
        /\ \A d \in Cases : d # c => task'[d] = task[d]
        /\ attempt[c] \in 0..MaxAttempts /\ attempt[c] < MaxAttempts
    BY <1>15, SendEffect DEF Post
  <2>2. /\ attempt'[c] = attempt[c] + 1
        /\ \A d \in Cases : d # c => attempt'[d] = attempt[d]
    BY <1>15 DEF Post
  <2>q. QED
    BY <2>1, <2>2, <1>15 DEF Post, Unmoved
<1>16. ASSUME NEW c \in Cases, Unreachable(c) PROVE PoolInv'
  <2>1. /\ task[c] \in {"queued", "sleeping"} /\ task'[c] = "raised"
        /\ \A d \in Cases : d # c => task'[d] = task[d]
        /\ attempt[c] \in 0..MaxAttempts /\ attempt[c] < MaxAttempts
    BY <1>16, SendEffect DEF Unreachable
  <2>2. /\ attempt'[c] = attempt[c] + 1
        /\ \A d \in Cases : d # c => attempt'[d] = attempt[d]
    BY <1>16 DEF Unreachable
  <2>q. QED
    BY <2>1, <2>2, <1>16 DEF Unreachable, Unmoved
<1>17. ASSUME NEW c \in Cases, Answered(c) PROVE PoolInv'
  <2>1. /\ task[c] = "posting" /\ task'[c] \in {"reading", "raised", "sleeping"}
        /\ \A e \in Cases : e # c => task'[e] = task[e]
    BY <1>17, AnsweredEffect
  <2>2. task'[c] = "sleeping" => attempt[c] < MaxAttempts
    BY <1>17 DEF Answered, MayRetry, ThreadStep
  <2>q. QED
    BY <2>1, <2>2, <1>17 DEF Answered, Unmoved
<1>18. ASSUME NEW c \in Cases, TimesOut(c) PROVE PoolInv'
  <2>1. /\ task[c] = "posting" /\ task'[c] = "raised"
        /\ \A e \in Cases : e # c => task'[e] = task[e]
    BY <1>18, MoveEffect DEF TimesOut
  <2>q. QED
    BY <2>1, <1>18 DEF TimesOut, Unmoved
<1>19. ASSUME NEW c \in Cases, Read(c) PROVE PoolInv'
  <2>1. ThreadStep(c, "reading", "done") \/ ThreadStep(c, "reading", "raised")
    BY <1>19 DEF Read
  <2>2. /\ task[c] = "reading" /\ task'[c] \in {"done", "raised"}
        /\ \A e \in Cases : e # c => task'[e] = task[e]
    BY <2>1 DEF ThreadStep
  <2>q. QED
    BY <2>2, <1>19 DEF Read, Unmoved
<1>20. CASE UNCHANGED vars
  BY <1>20
<1>q. QED
  BY <1>1, <1>2, <1>3, <1>4, <1>5, <1>6, <1>7, <1>8, <1>9, <1>10, <1>11, <1>12, <1>13,
     <1>14, <1>15, <1>16, <1>17, <1>18, <1>19, <1>20 DEF Next, MainStep, Thread

LEMMA LiveStep == IInv /\ [Next]_vars => LiveInv'
<1> SUFFICES ASSUME IInv, [Next]_vars PROVE LiveInv'
  OBVIOUS
<1> SUFFICES ASSUME NEW d \in Cases PROVE CaseLive(d)'
  BY DEF LiveInv
<1> USE NAssumption, AttemptsAssumption, ProcessesAssumption
<1> USE DEF IInv, vars, pool, stored, TypeOK, PoolInv, LiveInv, CaseLive, Working,
            Futures, Passes, NoTasks, Zero
<1>1. CASE Start
  BY <1>1 DEF Start, Exited
<1>2. CASE PublishFirst
  BY <1>2, AbortEffect, SummaryType DEF PublishFirst, Publish, PublishFails
<1>3. CASE Fill
  BY <1>3 DEF Fill
<1>4. CASE Take
  BY <1>4, AbortEffect DEF Take
<1>5. CASE Notify
  BY <1>5, TellEffect DEF Notify, Due
<1>6. CASE WriteRow
  BY <1>6, AbortEffect DEF WriteRow, Told
<1>7. CASE PublishCase
  BY <1>7, AbortEffect, SummaryType DEF PublishCase, Publish, PublishFails
<1>8. CASE SubmitNext
  BY <1>8 DEF SubmitNext, Due, NextTold, Told
<1>9. CASE EndPass
  BY <1>9, PassOverEffect DEF EndPass
<1>10. CASE Wait
  BY <1>10 DEF Wait
<1>11. CASE PublishLast
  BY <1>11, AbortEffect, SummaryType DEF PublishLast, Publish, PublishFails
<1>12. CASE RunEnds
  <2>1. PICK p \in Passes, c \in Cases :
          /\ ~(p = pass /\ task[c] = "posting")
          /\ live[p][c] = 1 /\ live'[p][c] = 0
          /\ \A q \in Passes, e \in Cases : q # p \/ e # c => live'[q][e] = live[q][e]
    BY <1>12, RunEndsEffect
  <2>2. main' = main /\ pass' = pass /\ task' = task
    BY <1>12 DEF RunEnds
  <2>3. CaseLive(d)
    OBVIOUS
  <2>8. CASE d = c
    BY <2>1, <2>2, <2>3, <2>8
  <2>9. CASE d # c
    BY <2>1, <2>2, <2>3, <2>9
  <2>q. QED
    BY <2>8, <2>9
<1>13. CASE LateRequest
  BY <1>13 DEF LateRequest
<1>14. CASE Crash
  BY <1>14 DEF Crash
<1>15. ASSUME NEW c \in Cases, Post(c) PROVE CaseLive(d)'
  <2>1. /\ task[c] \in {"queued", "sleeping"} /\ task'[c] = "posting"
        /\ \A e \in Cases : e # c => task'[e] = task[e]
        /\ attempt[c] \in 0..MaxAttempts /\ attempt[c] < MaxAttempts
    BY <1>15, SendEffect DEF Post
  <2>2. /\ live[pass][c] = 0 /\ live'[pass][c] = 1
        /\ \A q \in Passes, e \in Cases : q # pass \/ e # c => live'[q][e] = live[q][e]
    BY <1>15, PostEffect
  <2>8. CASE d = c
    BY <2>1, <2>2, <2>8, <1>15 DEF Post, Unmoved
  <2>9. CASE d # c
    BY <2>1, <2>2, <2>9, <1>15 DEF Post, Unmoved
  <2>q. QED
    BY <2>8, <2>9
<1>16. ASSUME NEW c \in Cases, Unreachable(c) PROVE CaseLive(d)'
  <2>1. /\ task[c] \in {"queued", "sleeping"} /\ task'[c] = "raised"
        /\ \A e \in Cases : e # c => task'[e] = task[e]
        /\ attempt[c] \in 0..MaxAttempts /\ attempt[c] < MaxAttempts
    BY <1>16, SendEffect DEF Unreachable
  <2>8. CASE d = c
    BY <2>1, <2>8, <1>16 DEF Unreachable, Unmoved
  <2>9. CASE d # c
    BY <2>1, <2>9, <1>16 DEF Unreachable, Unmoved
  <2>q. QED
    BY <2>8, <2>9
<1>17. ASSUME NEW c \in Cases, Answered(c) PROVE CaseLive(d)'
  <2>1. /\ task[c] = "posting" /\ task'[c] \in {"reading", "raised", "sleeping"}
        /\ \A e \in Cases : e # c => task'[e] = task[e]
        /\ live[pass][c] = 1 /\ live'[pass][c] = 0
        /\ \A q \in Passes, e \in Cases : q # pass \/ e # c => live'[q][e] = live[q][e]
    BY <1>17, AnsweredEffect
  <2>8. CASE d = c
    BY <2>1, <2>8, <1>17 DEF Answered, Unmoved
  <2>9. CASE d # c
    BY <2>1, <2>9, <1>17 DEF Answered, Unmoved
  <2>q. QED
    BY <2>8, <2>9
<1>18. ASSUME NEW c \in Cases, TimesOut(c) PROVE CaseLive(d)'
  <2>1. /\ task[c] = "posting" /\ task'[c] = "raised"
        /\ \A e \in Cases : e # c => task'[e] = task[e]
    BY <1>18 DEF TimesOut, ThreadStep
  <2>8. CASE d = c
    BY <2>1, <2>8, <1>18 DEF TimesOut, Unmoved
  <2>9. CASE d # c
    BY <2>1, <2>9, <1>18 DEF TimesOut, Unmoved
  <2>q. QED
    BY <2>8, <2>9
<1>19. ASSUME NEW c \in Cases, Read(c) PROVE CaseLive(d)'
  <2>1. ThreadStep(c, "reading", "done") \/ ThreadStep(c, "reading", "raised")
    BY <1>19 DEF Read
  <2>2. /\ task[c] = "reading" /\ task'[c] \in {"done", "raised"}
        /\ \A e \in Cases : e # c => task'[e] = task[e]
    BY <2>1 DEF ThreadStep
  <2>8. CASE d = c
    BY <2>2, <2>8, <1>19 DEF Read, Unmoved
  <2>9. CASE d # c
    BY <2>2, <2>9, <1>19 DEF Read, Unmoved
  <2>q. QED
    BY <2>8, <2>9
<1>20. CASE UNCHANGED vars
  BY <1>20
<1>q. QED
  BY <1>1, <1>2, <1>3, <1>4, <1>5, <1>6, <1>7, <1>8, <1>9, <1>10, <1>11, <1>12, <1>13,
     <1>14, <1>15, <1>16, <1>17, <1>18, <1>19, <1>20 DEF Next, MainStep, Thread

LEMMA ToldStep == IInv /\ [Next]_vars => ToldInv'
<1> SUFFICES ASSUME IInv, [Next]_vars PROVE ToldInv'
  OBVIOUS
<1> USE NAssumption, AttemptsAssumption, ProcessesAssumption
<1> USE DEF IInv, vars, pool, stored, TypeOK, PoolInv, ToldInv, Working, Futures,
            Passes, NoneTold
<1>1. CASE Start
  BY <1>1 DEF Start, Exited
<1>2. CASE PublishFirst
  BY <1>2, AbortEffect, SummaryType DEF PublishFirst, Publish, PublishFails
<1>3. CASE Fill
  BY <1>3 DEF Fill
<1>4. CASE Take
  BY <1>4, AbortEffect DEF Take
<1>5. CASE Notify
  <2>1. /\ Len(told'[pass]) = Len(told[pass]) + 1
        /\ Len(told[pass]) + 1 \in 1..N
        /\ \A i \in DOMAIN told'[pass] : told'[pass][i] = i
        /\ \A p \in Passes : p # pass => told'[p] = told[p]
    BY <1>5, TellEffect DEF Cases
  <2>2. pass = "memory" => told'["case"] = <<>>
    BY <2>1
  <2>3. pass = "case" => Len(told'["memory"]) = N /\ Len(told'["case"]) > 0
    BY <2>1
  <2>4. ASSUME NEW p \in Passes
        PROVE  /\ Len(told'[p]) <= N
               /\ \A i \in DOMAIN told'[p] : told'[p][i] = i
    BY <2>1
  <2>5. main' \in {"row", "publish"} /\ (main' = "row" => pass = "case") /\ pass' = pass
    BY <1>5 DEF Notify
  <2>q. QED
    BY <2>2, <2>3, <2>4, <2>5
<1>6. CASE WriteRow
  BY <1>6, AbortEffect DEF WriteRow, Told
<1>7. CASE PublishCase
  BY <1>7, AbortEffect, SummaryType DEF PublishCase, Publish, PublishFails
<1>8. CASE SubmitNext
  BY <1>8 DEF SubmitNext, Due, NextTold, Told
<1>9. CASE EndPass
  BY <1>9, PassOverEffect, NAssumption DEF EndPass
<1>10. CASE Wait
  BY <1>10 DEF Wait
<1>11. CASE PublishLast
  BY <1>11, AbortEffect, SummaryType DEF PublishLast, Publish, PublishFails
<1>12. CASE RunEnds
  BY <1>12, LiveEffect DEF RunEnds
<1>13. CASE LateRequest
  BY <1>13 DEF LateRequest
<1>14. CASE Crash
  BY <1>14 DEF Crash
<1>15. ASSUME NEW c \in Cases, Post(c) PROVE ToldInv'
  BY <1>15, MoveEffect, LiveEffect DEF Post, Sends, Unmoved
<1>16. ASSUME NEW c \in Cases, Unreachable(c) PROVE ToldInv'
  BY <1>16, MoveEffect DEF Unreachable, Sends, Unmoved
<1>17. ASSUME NEW c \in Cases, Answered(c) PROVE ToldInv'
  BY <1>17, MoveEffect, LiveEffect DEF Answered, MayRetry, Unmoved
<1>18. ASSUME NEW c \in Cases, TimesOut(c) PROVE ToldInv'
  BY <1>18, MoveEffect DEF TimesOut, Unmoved
<1>19. ASSUME NEW c \in Cases, Read(c) PROVE ToldInv'
  BY <1>19, MoveEffect DEF Read, Unmoved
<1>20. CASE UNCHANGED vars
  BY <1>20
<1>q. QED
  BY <1>1, <1>2, <1>3, <1>4, <1>5, <1>6, <1>7, <1>8, <1>9, <1>10, <1>11, <1>12, <1>13,
     <1>14, <1>15, <1>16, <1>17, <1>18, <1>19, <1>20 DEF Next, MainStep, Thread

LEMMA RowsStep == IInv /\ [Next]_vars => RowsInv'
<1> SUFFICES ASSUME IInv, [Next]_vars PROVE RowsInv'
  OBVIOUS
<1> USE NAssumption, AttemptsAssumption, ProcessesAssumption
<1> USE DEF IInv, vars, pool, stored, TypeOK, ToldInv, RowsInv, Passes
<1>1. CASE Start
  BY <1>1 DEF Start, NoneTold
<1>2. CASE PublishFirst
  <2>1. Backed(SummaryOf(FALSE), rows)
    BY <1>2, SummaryIsBacked DEF PublishFirst, Told
  <2>2. rows' = rows /\ summary' \in {summary, SummaryOf(FALSE)}
    BY <1>2 DEF PublishFirst, Publish, PublishFails
  <2>3. late' \subseteq late \cup {[kind |-> "summary", write |-> SummaryOf(FALSE)]}
    BY <1>2 DEF PublishFirst, Publish, PublishFails
  <2>4. Backed(summary', rows')
    BY <2>1, <2>2
  <2>5. ASSUME NEW q \in late'
        PROVE  IF q.kind = "row" THEN q.write[2] > 0 ELSE Backed(q.write, rows')
    <3>1. CASE q \in late
      BY <3>1, <2>2
    <3>2. CASE q = [kind |-> "summary", write |-> SummaryOf(FALSE)]
      BY <3>2, <2>1, <2>2
    <3>q. QED
      BY <3>1, <3>2, <2>3
  <2>6. process' = process /\ told' = told
    BY <1>2 DEF PublishFirst
  <2>7. main' = "failed" \/ (main' # "row" /\ main' # "off" /\ main # "row")
    BY <1>2, AbortEffect DEF PublishFirst
  <2>8. main' # "failed" => \A c \in 1..Len(told["case"]) : rows[c] > 0
    BY <1>2 DEF PublishFirst
  <2>q. QED
    BY <2>2, <2>4, <2>5, <2>6, <2>7, <2>8, <1>2 DEF PublishFirst
<1>3. CASE Fill
  BY <1>3 DEF Fill
<1>4. CASE Take
  BY <1>4, AbortEffect DEF Take
<1>5. CASE Notify
  BY <1>5, TellEffect DEF Notify, Due
<1>6. CASE WriteRow
  <2> DEFINE c == Told("case")
  <2>1. c \in Cases /\ process > 0 /\ process \in 0..MaxProcesses /\ c = Len(told["case"])
    BY <1>6 DEF WriteRow, Told, Cases
  <2>2. rows' \in {rows, [rows EXCEPT ![c] = process]} /\ summary' = summary
    BY <1>6 DEF WriteRow
  <2>3. \A d \in Cases : rows[d] > 0 => rows'[d] > 0
    BY <2>1, <2>2
  <2>4. late' \subseteq late \cup {[kind |-> "row", write |-> <<c, process>>]}
    BY <1>6 DEF WriteRow
  <2>5. /\ Backed(summary', rows')
        /\ \A q \in late : IF q.kind = "row" THEN q.write[2] > 0 ELSE Backed(q.write, rows')
    BY <2>2, <2>3, AllStaysBacked
  <2>6. \A q \in late' : IF q.kind = "row" THEN q.write[2] > 0 ELSE Backed(q.write, rows')
    BY <2>1, <2>4, <2>5
  <2>7. process' = process /\ told' = told /\ main' \in {"publish", "failed"}
    BY <1>6, AbortEffect DEF WriteRow
  <2>8. main' = "publish" => rows'[c] > 0
    BY <1>6, <2>1, AbortEffect DEF WriteRow
  <2>9. \A d \in 1..(Len(told["case"]) - 1) : rows[d] > 0
    BY <1>6 DEF WriteRow
  <2>10. ASSUME main' = "publish", NEW d \in 1..Len(told'["case"])
         PROVE  rows'[d] > 0
    <3>1. d \in 1..c /\ d \in Cases
      BY <2>1, <2>7 DEF Cases
    <3>2. CASE d = c
      BY <3>2, <2>8, <2>10
    <3>3. CASE d # c
      <4>1. d \in 1..(Len(told["case"]) - 1)
        BY <3>1, <3>3, <2>1 DEF Cases
      <4>q. QED
        BY <4>1, <3>1, <2>3, <2>9
    <3>q. QED
      BY <3>2, <3>3
  <2>q. QED
    BY <2>1, <2>5, <2>6, <2>7, <2>10
<1>7. CASE PublishCase
  <2> DEFINE b == Told("case") = N
  <2>1. Backed(SummaryOf(b), rows)
    BY <1>7, SummaryIsBacked DEF PublishCase, Told
  <2>2. rows' = rows /\ summary' \in {summary, SummaryOf(b)}
    BY <1>7 DEF PublishCase, Publish, PublishFails
  <2>3. late' \subseteq late \cup {[kind |-> "summary", write |-> SummaryOf(b)]}
    BY <1>7 DEF PublishCase, Publish, PublishFails
  <2>4. Backed(summary', rows')
    BY <2>1, <2>2
  <2>5. ASSUME NEW q \in late'
        PROVE  IF q.kind = "row" THEN q.write[2] > 0 ELSE Backed(q.write, rows')
    <3>1. CASE q \in late
      BY <3>1, <2>2
    <3>2. CASE q = [kind |-> "summary", write |-> SummaryOf(b)]
      BY <3>2, <2>1, <2>2
    <3>q. QED
      BY <3>1, <3>2, <2>3
  <2>6. process' = process /\ told' = told
    BY <1>7 DEF PublishCase
  <2>7. main' = "failed" \/ (main' # "row" /\ main' # "off" /\ main # "row")
    BY <1>7, AbortEffect DEF PublishCase
  <2>8. main' # "failed" => \A c \in 1..Len(told["case"]) : rows[c] > 0
    BY <1>7 DEF PublishCase
  <2>q. QED
    BY <2>2, <2>4, <2>5, <2>6, <2>7, <2>8, <1>7 DEF PublishCase
<1>8. CASE SubmitNext
  BY <1>8 DEF SubmitNext, Due, NextTold, Told
<1>9. CASE EndPass
  BY <1>9 DEF EndPass, PassIsOver, Outstanding, Due, NextTold, Told
<1>10. CASE Wait
  BY <1>10 DEF Wait
<1>11. CASE PublishLast
  <2>1. Backed(SummaryOf(TRUE), rows)
    BY <1>11, SummaryIsBacked DEF PublishLast, Told
  <2>2. rows' = rows /\ summary' \in {summary, SummaryOf(TRUE)}
    BY <1>11 DEF PublishLast, Publish, PublishFails
  <2>3. late' \subseteq late \cup {[kind |-> "summary", write |-> SummaryOf(TRUE)]}
    BY <1>11 DEF PublishLast, Publish, PublishFails
  <2>4. Backed(summary', rows')
    BY <2>1, <2>2
  <2>5. ASSUME NEW q \in late'
        PROVE  IF q.kind = "row" THEN q.write[2] > 0 ELSE Backed(q.write, rows')
    <3>1. CASE q \in late
      BY <3>1, <2>2
    <3>2. CASE q = [kind |-> "summary", write |-> SummaryOf(TRUE)]
      BY <3>2, <2>1, <2>2
    <3>q. QED
      BY <3>1, <3>2, <2>3
  <2>6. process' = process /\ told' = told
    BY <1>11 DEF PublishLast
  <2>7. main' = "failed" \/ (main' # "row" /\ main' # "off" /\ main # "row")
    BY <1>11, AbortEffect DEF PublishLast
  <2>8. main' # "failed" => \A c \in 1..Len(told["case"]) : rows[c] > 0
    BY <1>11 DEF PublishLast
  <2>q. QED
    BY <2>2, <2>4, <2>5, <2>6, <2>7, <2>8, <1>11 DEF PublishLast
<1>12. CASE RunEnds
  BY <1>12, LiveEffect DEF RunEnds
<1>13. CASE LateRequest
  <2>1. PICK q \in late : /\ late' = late \ {q}
                          /\ IF q.kind = "row"
                             THEN /\ rows' = [rows EXCEPT ![q.write[1]] = q.write[2]]
                                  /\ UNCHANGED summary
                             ELSE summary' = q.write /\ UNCHANGED rows
    BY <1>13 DEF LateRequest
  <2>2. main' = main /\ told' = told /\ process' = process
    BY <1>13 DEF LateRequest
  <2>3. CASE q.kind = "row"
    <3>1. q.write[1] \in Cases /\ q.write[2] > 0
      BY <2>3 DEF Requests
    <3>2. \A d \in Cases : rows[d] > 0 => rows'[d] > 0
      BY <2>1, <2>3, <3>1
    <3>3. /\ Backed(summary', rows')
          /\ \A w \in late : IF w.kind = "row" THEN w.write[2] > 0 ELSE Backed(w.write, rows')
      BY <2>1, <2>3, <3>2, AllStaysBacked
    <3>4. Len(told["case"]) \in 0..N
      OBVIOUS
    <3>5. \A c \in 1..Len(told["case"]) : c \in Cases
      BY <3>4 DEF Cases
    <3>6. main' \notin {"off", "row", "failed", "dead"} =>
            \A c \in 1..Len(told'["case"]) : rows'[c] > 0
      BY <2>2, <3>2, <3>5
    <3>7. main' = "row" => \A c \in 1..(Len(told'["case"]) - 1) : rows'[c] > 0
      <4>1. \A c \in 1..(Len(told["case"]) - 1) : c \in Cases
        BY <3>4 DEF Cases
      <4>q. QED
        BY <4>1, <2>2, <3>2
    <3>q. QED
      BY <2>1, <2>2, <3>3, <3>6, <3>7
  <2>4. CASE q.kind # "row"
    BY <2>1, <2>2, <2>4
  <2>q. QED
    BY <2>3, <2>4
<1>14. CASE Crash
  <2>1. main # "off"
    BY <1>14 DEF Crash, Exited, PoolInv, Busy
  <2>q. QED
    BY <2>1, <1>14 DEF Crash
<1>15. ASSUME NEW c \in Cases, Post(c) PROVE RowsInv'
  BY <1>15, MoveEffect, LiveEffect DEF Post, Sends, Unmoved
<1>16. ASSUME NEW c \in Cases, Unreachable(c) PROVE RowsInv'
  BY <1>16, MoveEffect DEF Unreachable, Sends, Unmoved
<1>17. ASSUME NEW c \in Cases, Answered(c) PROVE RowsInv'
  BY <1>17, MoveEffect, LiveEffect DEF Answered, MayRetry, Unmoved
<1>18. ASSUME NEW c \in Cases, TimesOut(c) PROVE RowsInv'
  BY <1>18, MoveEffect DEF TimesOut, Unmoved
<1>19. ASSUME NEW c \in Cases, Read(c) PROVE RowsInv'
  BY <1>19, MoveEffect DEF Read, Unmoved
<1>20. CASE UNCHANGED vars
  BY <1>20
<1>q. QED
  BY <1>1, <1>2, <1>3, <1>4, <1>5, <1>6, <1>7, <1>8, <1>9, <1>10, <1>11, <1>12, <1>13,
     <1>14, <1>15, <1>16, <1>17, <1>18, <1>19, <1>20 DEF Next, MainStep, Thread

-------------------------------------------------------------------------------
(* The runs on the server.                                                 *)

LEMMA CasesFinite == ASSUME NEW S \in SUBSET Cases
                     PROVE  IsFiniteSet(S) /\ Cardinality(S) \in Nat
<1>1. IsFiniteSet(Cases)
  BY FS_Interval, NAssumption DEF Cases
<1>q. QED
  BY <1>1, FS_Subset, FS_CardinalityType

LEMMA FewerCases ==
  ASSUME NEW S \in SUBSET Cases, NEW T \in SUBSET S
  PROVE  Cardinality(T) <= Cardinality(S)
BY CasesFinite, FS_Subset

(* While a process is alive, its runs are those of its futures.            *)
LEMMA RunsAreOfFutures ==
  ASSUME IInv, main # "dead"
  PROVE  ServerIsNotOverrun
<1> USE DEF IInv
<1>1. \A p \in Passes, c \in Cases : live[p][c] > 0 => p = pass /\ Outstanding(c)
  <2> SUFFICES ASSUME NEW p \in Passes, NEW c \in Cases, live[p][c] > 0
               PROVE  p = pass /\ Outstanding(c)
    OBVIOUS
  <2>1. CaseLive(c) /\ task[c] \in Futures /\ pass \in Passes
    BY DEF LiveInv, TypeOK
  <2>2. p = pass
    BY <2>1 DEF CaseLive, Passes
  <2>3. Outstanding(c)
    BY <2>1, <2>2 DEF CaseLive, Futures, Outstanding
  <2>q. QED
    BY <2>2, <2>3
<1>2. pass \in Passes /\ RunsOf(pass) \in SUBSET Slots /\ Slots \in SUBSET Cases
  BY <1>1 DEF RunsOf, Slots, TypeOK
<1>3. Cardinality(RunsOf(pass)) <= Cardinality(Slots)
  BY <1>2, FewerCases
<1>4. \A p \in Passes : p # pass => RunsOf(p) = {}
  BY <1>1 DEF RunsOf
<1>5. Cardinality({}) = 0
  BY FS_EmptySet
<1>6. Cardinality(Slots) \in Nat /\ Cardinality(RunsOf(pass)) \in Nat
  BY <1>2, CasesFinite
<1>7. CASE pass = "memory"
  BY <1>3, <1>4, <1>5, <1>6, <1>7, ConcurrencyAssumption DEF ServerIsNotOverrun, SlotsInv, Passes
<1>8. CASE pass = "case"
  BY <1>3, <1>4, <1>5, <1>6, <1>8, ConcurrencyAssumption DEF ServerIsNotOverrun, SlotsInv, Passes
<1>q. QED
  BY <1>2, <1>7, <1>8 DEF Passes

LEMMA RunsAreFew == IInv => ServerIsNotOverrun
BY RunsAreOfFutures DEF IInv, SlotsInv

(* Fewer futures need fewer slots.                                         *)
LEMMA FewerSlots ==
  ASSUME IInv, \A c \in Cases : Outstanding(c)' => Outstanding(c)
  PROVE  Cardinality(Slots') <= Cardinality(Slots) /\ Cardinality(Slots') \in Nat
<1>1. Slots \in SUBSET Cases /\ Slots' \in SUBSET Slots
  BY DEF Slots
<1>q. QED
  BY <1>1, FewerCases, CasesFinite

(* Where no future is outstanding.                                         *)
LEMMA NoSlots ==
  ASSUME \A c \in Cases : ~Outstanding(c)'
  PROVE  Cardinality(Slots') = 0
<1>1. Slots' = {}
  BY DEF Slots
<1>q. QED
  BY <1>1, FS_EmptySet

LEMMA SlotsStep == IInv /\ [Next]_vars => SlotsInv'
<1> SUFFICES ASSUME IInv, [Next]_vars PROVE SlotsInv'
  OBVIOUS
<1> USE ConcurrencyAssumption DEF SlotsInv
<1>t. TypeOK /\ Cardinality(Slots) \in Nat
  BY CasesFinite DEF IInv, Slots
<1>f. ASSUME \A c \in Cases : Outstanding(c)' => Outstanding(c),
             main' # "dead", main' \in {"notify", "row", "publish"} =>
                               main \in {"notify", "row", "publish"}
      PROVE  SlotsInv'
  BY <1>f, <1>t, FewerSlots DEF IInv
<1>a. ASSUME Abort PROVE \A c \in Cases : Outstanding(c)' => Outstanding(c)
  BY <1>a, <1>t, AbortEffect DEF Outstanding
<1>1. CASE Start
  <2>1. \A c \in Cases : ~Outstanding(c)'
    BY <1>1 DEF Start, NoTasks, Outstanding
  <2>q. QED
    BY <1>1, <2>1, NoSlots DEF Start
<1>2. CASE PublishFirst
  BY <1>2, <1>f, <1>a, <1>t, AbortEffect DEF PublishFirst, Outstanding
<1>3. CASE Fill
  <2> DEFINE k == IF Concurrency < N THEN Concurrency ELSE N
  <2>1. k \in 1..N /\ k <= Concurrency /\ main' = "wait"
    BY <1>3, NAssumption DEF Fill
  <2>2. \A c \in Cases : task'[c] = IF c <= k THEN "queued" ELSE "none"
    BY <1>3 DEF Fill
  <2> HIDE DEF k
  <2>3. Slots' \in SUBSET (1..k) /\ 1..k \in SUBSET Cases
    BY <2>1, <2>2, NAssumption DEF Slots, Outstanding, Cases
  <2>4. Cardinality(1..k) = k
    BY <2>1, FS_Interval
  <2>5. Cardinality(Slots') <= Cardinality(1..k) /\ Cardinality(Slots') \in Nat
    BY <2>3, FewerCases, CasesFinite
  <2>q. QED
    BY <2>1, <2>4, <2>5
<1>4. CASE Take
  <2>1. PICK c \in Cases :
          \/ task[c] = "done" /\ task' = [task EXCEPT ![c] = "taken"] /\ main' = "notify"
          \/ Abort
    BY <1>4 DEF Take
  <2>2. CASE Abort
    BY <2>2, <1>f, <1>a, <1>t, AbortEffect
  <2>3. CASE task[c] = "done" /\ task' = [task EXCEPT ![c] = "taken"] /\ main' = "notify"
    <3>1. c \in Slots /\ Slots' = Slots \ {c} /\ Slots \in SUBSET Cases
      BY <2>3, <1>t DEF Slots, Outstanding, TypeOK
    <3>2. Cardinality(Slots') = Cardinality(Slots) - 1
      BY <3>1, CasesFinite, FS_RemoveElement
    <3>q. QED
      BY <2>3, <3>2, <1>t DEF IInv
  <2>q. QED
    BY <2>1, <2>2, <2>3
<1>5. CASE Notify
  BY <1>5, <1>f DEF Notify, pool, Outstanding
<1>6. CASE WriteRow
  BY <1>6, <1>f, <1>a, <1>t, AbortEffect DEF WriteRow, Outstanding
<1>7. CASE PublishCase
  BY <1>7, <1>f, <1>a, <1>t, AbortEffect DEF PublishCase, Outstanding
<1>8. CASE SubmitNext
  <2>1. next \in Cases /\ task' = [task EXCEPT ![next] = "queued"] /\ main' = "wait"
    BY <1>8, <1>t DEF SubmitNext, TypeOK, Cases
  <2>2. Slots' = Slots \cup {next} /\ Slots \in SUBSET Cases
    BY <2>1, <1>t DEF Slots, Outstanding, TypeOK
  <2>5. next <= N /\ next >= next /\ Working
    BY <1>8, <1>t DEF SubmitNext, Working, TypeOK
  <2>6. task[next] = "none"
    BY <2>1, <2>5 DEF IInv, PoolInv
  <2>3. IsFiniteSet(Slots) /\ next \notin Slots
    BY <2>2, <2>6, CasesFinite DEF Slots, Outstanding
  <2>4. Cardinality(Slots') = Cardinality(Slots) + 1
    BY <2>2, <2>3, FS_AddElement
  <2>q. QED
    BY <1>8, <2>1, <2>4, <1>t DEF SubmitNext, IInv
<1>9. CASE EndPass
  BY <1>9, <1>f DEF EndPass, pool, Outstanding
<1>10. CASE Wait
  BY <1>10, <1>f DEF Wait, pool, Outstanding
<1>11. CASE PublishLast
  BY <1>11, <1>f, <1>a, <1>t, AbortEffect DEF PublishLast, Outstanding
<1>12. CASE RunEnds
  <2>1. Slots' = Slots /\ main' = main
    BY <1>12 DEF RunEnds, Slots, Outstanding
  <2>2. PICK p \in Passes, c \in Cases :
          /\ live[p][c] = 1 /\ live'[p][c] = 0
          /\ \A q \in Passes, d \in Cases : q # p \/ d # c => live'[q][d] = live[q][d]
    BY <1>12, RunEndsEffect
  <2>3. \A q \in Passes : RunsOf(q)' \in SUBSET RunsOf(q) /\ RunsOf(q) \in SUBSET Cases
    <3>2. \A q \in Passes, d \in Cases : live'[q][d] > 0 => live[q][d] > 0
      BY <2>2
    <3>q. QED
      BY <3>2 DEF RunsOf
  <2>4. \A q \in Passes : /\ Cardinality(RunsOf(q)') <= Cardinality(RunsOf(q))
                          /\ Cardinality(RunsOf(q)') \in Nat /\ Cardinality(RunsOf(q)) \in Nat
    BY <2>3, FewerCases, CasesFinite
  <2>5. ServerIsNotOverrun
    BY RunsAreFew
  <2>6. /\ Cardinality(RunsOf("memory")') + Cardinality(RunsOf("case")')
             <= Cardinality(RunsOf("memory")) + Cardinality(RunsOf("case"))
        /\ Cardinality(RunsOf("memory")') \in Nat /\ Cardinality(RunsOf("case")') \in Nat
        /\ Cardinality(RunsOf("memory")) \in Nat /\ Cardinality(RunsOf("case")) \in Nat
    BY <2>4 DEF Passes
  <2>7. ServerIsNotOverrun'
    BY <2>5, <2>6 DEF ServerIsNotOverrun
  <2>q. QED
    BY <2>1, <2>7 DEF IInv
<1>13. CASE LateRequest
  <2>1. Slots' = Slots /\ main' = main /\ (ServerIsNotOverrun' <=> ServerIsNotOverrun)
    BY <1>13 DEF LateRequest, pool, Slots, Outstanding, ServerIsNotOverrun, RunsOf
  <2>q. QED
    BY <2>1 DEF IInv
<1>14. CASE Crash
  <2>1. \A c \in Cases : ~Outstanding(c)'
    BY <1>14 DEF Crash, NoTasks, Outstanding
  <2>2. ServerIsNotOverrun'
    BY <1>14, RunsAreFew DEF Crash, ServerIsNotOverrun, RunsOf
  <2>q. QED
    BY <1>14, <2>1, <2>2, NoSlots DEF Crash
<1>15. ASSUME NEW c \in Cases, Thread(c) PROVE SlotsInv'
  <2>1. PICK from \in {"queued", "posting", "sleeping", "reading"}, to \in Futures :
          ThreadStep(c, from, to)
    BY <1>15 DEF Thread, Post, Unreachable, Answered, TimesOut, Read, Sends, Futures
  <2>2. \A d \in Cases : Outstanding(d)' => Outstanding(d)
    BY <2>1, <1>t, MoveEffect DEF Outstanding
  <2>3. main' = main /\ (main = "dead" => FALSE)
    <3>1. main' = main
      BY <1>15 DEF Thread, Post, Unreachable, Answered, TimesOut, Read, Unmoved
    <3>2. main = "dead" => task[c] \in {"none", "taken"}
      BY DEF IInv, PoolInv
    <3>3. task[c] = from
      BY <2>1 DEF ThreadStep
    <3>q. QED
      BY <3>1, <3>2, <3>3
  <2>q. QED
    BY <2>2, <2>3, <1>f
<1>16. CASE UNCHANGED vars
  <2>1. Slots' = Slots /\ main' = main /\ (ServerIsNotOverrun' <=> ServerIsNotOverrun)
    BY <1>16 DEF vars, pool, Slots, Outstanding, ServerIsNotOverrun, RunsOf
  <2>q. QED
    BY <2>1 DEF IInv
<1>q. QED
  BY <1>1, <1>2, <1>3, <1>4, <1>5, <1>6, <1>7, <1>8, <1>9, <1>10, <1>11, <1>12, <1>13,
     <1>14, <1>15, <1>16 DEF Next, MainStep

-------------------------------------------------------------------------------
LEMMA Invariant == Spec => []IInv
<1>1. IInv /\ [Next]_vars => IInv'
  BY TypeStep, PoolStep, LiveStep, ToldStep, RowsStep, SlotsStep DEF IInv
<1>q. QED
  BY Initially, <1>1, PTL DEF Spec

(* Every variable stays in its type; attempts are never more than allowed. *)
THEOREM TypeCorrect == Spec => []TypeOK
<1>1. IInv => TypeOK
  BY DEF IInv
<1>q. QED
  BY <1>1, Invariant, PTL

(* A case never has two runs on the server at a time.                      *)
THEOREM CasesRunOnce == Spec => []OneRunAtATime
<1>1. IInv => OneRunAtATime
  BY DEF IInv, LiveInv, CaseLive, OneRunAtATime, Passes
<1>q. QED
  BY <1>1, Invariant, PTL

(* A process never has more runs on the server than threads, those whose   *)
(* requests timed out included.                                            *)
THEOREM ServersAreNotOverrun == Spec => []ServerIsNotOverrun
<1>q. QED
  BY RunsAreFew, Invariant, PTL

(* The stored evaluation is never ahead of its stored cases: each case it  *)
(* counts has a row, of whatever process.                                  *)
THEOREM SummariesHaveRows == Spec => []SummaryHasItsRows
<1>1. IInv => SummaryHasItsRows
  BY DEF IInv, RowsInv, Backed, SummaryHasItsRows
<1>q. QED
  BY <1>1, Invariant, PTL

-------------------------------------------------------------------------------
(* The refinement.                                                         *)

LEMMA NotifyTells ==
  ASSUME IInv, Notify
  PROVE  InOrder!Next
<1> USE DEF IInv, TypeOK
<1>1. state = "on" /\ state' = state
  BY DEF Notify, state
<1>2. NextTold = Len(told[pass]) + 1 /\ told' = [told EXCEPT ![pass] = Append(told[pass], NextTold)]
  BY DEF Notify, NextTold, Told
<1>3. InOrder!TellIn(pass)
  BY <1>2 DEF InOrder!TellIn
<1>4. Len(told[pass]) + 1 \in 1..N /\ Len(told[pass]) \in Nat
  BY TellEffect DEF Cases
<1>5. pass = "memory" \/ (pass = "case" /\ Len(told["memory"]) = N)
  BY DEF ToldInv, Passes
<1>6. Len(told[pass]) < N
  BY <1>4, NAssumption
<1>q. QED
  BY <1>1, <1>3, <1>5, <1>6 DEF InOrder!Next, InOrder!Tell

LEMMA Refines == IInv /\ [Next]_vars => [InOrder!Next]_<<told, state>>
<1> SUFFICES ASSUME IInv, [Next]_vars PROVE [InOrder!Next]_<<told, state>>
  OBVIOUS
<1>t. TypeOK
  BY DEF IInv
<1> USE DEF vars, pool, stored, state
<1>1. CASE Start
  BY <1>1 DEF Start, Exited, NoneTold, Passes, InOrder!Next, InOrder!Start,
              InOrder!Nothing, InOrder!Passes
<1>2. CASE PublishFirst
  BY <1>2, <1>t, AbortEffect DEF PublishFirst, InOrder!Next, InOrder!Fail
<1>3. CASE Fill
  BY <1>3 DEF Fill
<1>4. CASE Take
  BY <1>4, <1>t, AbortEffect DEF Take, InOrder!Next, InOrder!Fail
<1>5. CASE Notify
  BY <1>5, NotifyTells
<1>6. CASE WriteRow
  BY <1>6, <1>t, AbortEffect DEF WriteRow, InOrder!Next, InOrder!Fail
<1>7. CASE PublishCase
  BY <1>7, <1>t, AbortEffect DEF PublishCase, InOrder!Next, InOrder!Fail
<1>8. CASE SubmitNext
  BY <1>8 DEF SubmitNext
<1>9. CASE EndPass
  BY <1>9 DEF EndPass, PassIsOver
<1>10. CASE Wait
  BY <1>10 DEF Wait
<1>11. CASE PublishLast
  <2>1. Len(told["case"]) = N
    BY <1>11 DEF PublishLast, IInv, ToldInv
  <2>q. QED
    BY <2>1, <1>11, <1>t, AbortEffect DEF PublishLast, InOrder!Next, InOrder!Complete,
       InOrder!Fail
<1>12. CASE RunEnds
  BY <1>12 DEF RunEnds
<1>13. CASE LateRequest
  BY <1>13 DEF LateRequest
<1>14. CASE Crash
  <2>1. main \notin {"off", "complete"}
    BY <1>14 DEF Crash, Exited, IInv, PoolInv, Busy
  <2>q. QED
    BY <2>1, <1>14 DEF Crash, InOrder!Next, InOrder!Fail
<1>15. ASSUME NEW c \in Cases, Thread(c) PROVE UNCHANGED <<told, state>>
  BY <1>15 DEF Thread, Post, Unreachable, Answered, TimesOut, Read, Unmoved
<1>16. CASE UNCHANGED vars
  BY <1>16
<1>q. QED
  BY <1>1, <1>2, <1>3, <1>4, <1>5, <1>6, <1>7, <1>8, <1>9, <1>10, <1>11, <1>12, <1>13,
     <1>14, <1>15, <1>16 DEF Next, MainStep

(* Whatever the order in which runs end, cases are told in order, and an   *)
(* evaluation is complete only when all have been.                         *)
THEOREM EvalIsInOrder == Spec => ImplementsEvalInOrder
<1>1. Init => InOrder!Init
  BY DEF Init, NoneTold, Passes, state, InOrder!Init, InOrder!Nothing, InOrder!Passes
<1>q. QED
  BY <1>1, Refines, Invariant, PTL DEF Spec, ImplementsEvalInOrder, InOrder!Spec
===============================================================================
