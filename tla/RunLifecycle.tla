---------------------------- MODULE RunLifecycle ----------------------------
(***************************************************************************)
(* What the service promises of a run: its row is opened once and settled  *)
(* at most once, and a success is only ever answered by the call that      *)
(* settles the row as that very success.  A call may fail, or be cut off,  *)
(* at any time, and what it has done by then stays.                        *)
(***************************************************************************)
CONSTANT Runs

VARIABLES
  status,   \* what is stored of a run: "absent", "running", or how it ended
  answer    \* what the latest call was answered, "none" as long as it was not

Successes == {"succeeded", "no_anomaly"}
Settled   == Successes \cup {"failed"}

Init == /\ status = [r \in Runs |-> "absent"]
        /\ answer = [r \in Runs |-> "none"]

(* A call begins: it opens the row, finds it open, or is turned away.      *)
Begin(r) ==
  \/ /\ status[r] \in {"absent", "running"}
     /\ status' = [status EXCEPT ![r] = "running"]
     /\ \E a \in {"none", "failed"} : answer' = [answer EXCEPT ![r] = a]
  \/ /\ answer' = [answer EXCEPT ![r] = "failed"]
     /\ UNCHANGED status

(* A call settles the row; if it does not know that it has, it fails.      *)
Settle(r) ==
  /\ status[r] = "running"
  /\ answer[r] = "none"
  /\ \E s \in Settled : /\ status' = [status EXCEPT ![r] = s]
                        /\ \E a \in {s, "failed"} : answer' = [answer EXCEPT ![r] = a]

(* A call ends without settling the row.                                   *)
GiveUp(r) ==
  /\ answer[r] = "none"
  /\ \E a \in {"failed", "raised"} : answer' = [answer EXCEPT ![r] = a]
  /\ UNCHANGED status

Next == \E r \in Runs : Begin(r) \/ Settle(r) \/ GiveUp(r)

Spec == Init /\ [][Next]_<<status, answer>>
=============================================================================
