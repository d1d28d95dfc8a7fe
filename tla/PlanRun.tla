------------------------------- MODULE PlanRun -------------------------------
(***************************************************************************)
(* What executing a plan promises, whatever the tools, the budget and the  *)
(* database do: the evidence of the plan's actions is stored and published *)
(* one action at a time in the order of the plan, an action's evidence is  *)
(* stored before it is published, nothing is stored once the run has       *)
(* ended, "succeeded" means that all of it was published, and "no_anomaly" *)
(* that only the first was.                                                *)
(*                                                                         *)
(* "published" is what later actions may build on, the evidence graph; a   *)
(* failed run may leave one stored row behind that was never published.    *)
(***************************************************************************)
EXTENDS Integers, Sequences

CONSTANT Scripts    \* the sequences of evidence names a run may have to make

VARIABLES script, stored, published, status

vars == <<script, stored, published, status>>

Prefix(n) == {script[i] : i \in 1..n}

Init == /\ script \in Scripts
        /\ stored = {}
        /\ published = {}
        /\ status = "running"

(* The evidence after the published ones is stored.                        *)
Store ==
  /\ status = "running"
  /\ \E n \in 0..(Len(script) - 1) :
       /\ published = Prefix(n)
       /\ stored = Prefix(n)
       /\ stored' = Prefix(n + 1)
  /\ UNCHANGED <<script, published, status>>

(* What is stored is published; the first evidence may say that there is   *)
(* nothing to explain, which ends the run.                                 *)
Publish ==
  /\ status = "running"
  /\ \E n \in 1..Len(script) :
       /\ published = Prefix(n - 1)
       /\ stored = Prefix(n)
       /\ published' = Prefix(n)
       /\ status' \in {"running"} \cup (IF n = 1 THEN {"no_anomaly"} ELSE {})
  /\ UNCHANGED <<script, stored>>

Succeed ==
  /\ status = "running"
  /\ published = Prefix(Len(script))
  /\ status' = "succeeded"
  /\ UNCHANGED <<script, stored, published>>

(* A failure, typed ("failed") or an escaping exception ("raised"); a      *)
(* write that is reported as failed may have stored its row all the same.  *)
Fail ==
  /\ status = "running"
  /\ status' \in {"failed", "raised"}
  /\ \/ stored' = stored
     \/ \E n \in 0..(Len(script) - 1) :
          published = Prefix(n) /\ stored = Prefix(n) /\ stored' = Prefix(n + 1)
  /\ UNCHANGED <<script, published>>

Next == Store \/ Publish \/ Succeed \/ Fail

Spec == Init /\ [][Next]_vars
===============================================================================
