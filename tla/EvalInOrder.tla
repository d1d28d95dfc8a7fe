----------------------------- MODULE EvalInOrder -----------------------------
(***************************************************************************)
(* What an evaluation over HTTP promises whoever follows its progress:     *)
(* the cases of the memory pass and then those of the baseline are told    *)
(* one after the other in the order of the file, whatever the order in     *)
(* which their runs end; it is complete when all are told; and it may      *)
(* fail, and be started over, at any time.                                 *)
(***************************************************************************)
EXTENDS Integers, Sequences

CONSTANT N    \* number of cases

VARIABLES told, state

Passes  == {"memory", "case"}
Nothing == [p \in Passes |-> <<>>]

(* The case at the end of p is the one after the last.                     *)
TellIn(p) == told' = [told EXCEPT ![p] = Append(@, Len(@) + 1)]

Init == told = Nothing /\ state = "off"

(* An evaluation begins, or begins again after the one before is over.     *)
Start == /\ state # "on"
         /\ told' = Nothing /\ state' = "on"

Tell == /\ state = "on"
        /\ \/ Len(told["memory"]) < N /\ TellIn("memory")
           \/ /\ Len(told["memory"]) = N
              /\ Len(told["case"]) < N
              /\ TellIn("case")
        /\ UNCHANGED state

Complete == /\ state = "on"
            /\ Len(told["case"]) = N
            /\ state' = "complete" /\ UNCHANGED told

Fail == /\ state = "on"
        /\ state' = "failed" /\ UNCHANGED told

Next == Start \/ Tell \/ Complete \/ Fail

Spec == Init /\ [][Next]_<<told, state>>
==============================================================================
