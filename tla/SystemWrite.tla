---------------------------- MODULE SystemWrite -----------------------------
(***************************************************************************)
(* One write to a system table, MetricRepository._write, with its retries  *)
(* and its idempotency check (metric_rca/repositories/                     *)
(* metric_repository.py).  A statement and its commit may fail, a commit   *)
(* whose reply is lost may still be on its way, and the read that confirms *)
(* a row may fail as well.                                                 *)
(*                                                                         *)
(* Three kinds of writes: "insert" (rows with a unique key, checked for    *)
(* idempotency), "update" (finish_agent_run, checked as well) and "plain"  *)
(* (updates of a row that are not checked).  A write has its row to        *)
(* itself, but an insert may meet a row that an earlier call left behind.  *)
(***************************************************************************)
EXTENDS Integers

CONSTANT MaxAttempts    \* SYSTEM_WRITE_MAX_ATTEMPTS

ASSUME AttemptsAssumption == MaxAttempts \in Nat \ {0}

VARIABLES
  kind,       \* the kind of the write
  row,        \* "absent", "other", "same" (not ours, but equal), or "own"
  onItsWay,   \* the commit of an attempt may still take effect
  attempt,    \* the current attempt
  pc,         \* "send", "confirm", "reconfirm", "decide" or "done"
  error,      \* the error of the attempt: "transient", "duplicate" or "fatal"
  result,     \* what the caller knows: "pending", "ok" or "failed"
  doubt       \* history: a row was confirmed without knowing its final state

vars == <<kind, row, onItsWay, attempt, pc, error, result, doubt>>

Kinds   == {"insert", "update", "plain"}
Before  == {"absent", "other", "same"}
Checked == kind # "plain"

(* Slip: any row with the key of the write is taken for the write.         *)
MatchesSlip == row # "absent"

(* _idempotent_row_matches: the stored row has the content asked for.      *)
Matches == row \in {"own", "same"}

(* Slip: the insert replaces a row with the same key.                      *)
ExecutableSlip == ~onItsWay

(* The statement can be executed: nobody holds a lock on the row, and an   *)
(* insert does not meet a row.                                             *)
Executable == /\ ~onItsWay
              /\ kind = "insert" => row = "absent"

Init ==
  /\ kind \in Kinds
  /\ row \in Before
  /\ kind # "insert" => row = "other"
  /\ onItsWay = FALSE
  /\ attempt = 1
  /\ pc = "send"
  /\ error = "none"
  /\ result = "pending"
  /\ doubt = FALSE

Finish(outcome) == pc' = "done" /\ result' = outcome
Continue(step)  == pc' = step /\ UNCHANGED result

(* Slip: only duplicates are checked.                                      *)
HandleSlip(e) == /\ error' = e
                 /\ Continue(IF Checked /\ e = "duplicate" THEN "confirm" ELSE "decide")

(* Where an attempt that failed goes on: only errors that leave it open    *)
(* whether the row is there are checked.                                   *)
Handle(e) == /\ error' = e
             /\ Continue(IF Checked /\ e \in {"transient", "duplicate"}
                         THEN "confirm" ELSE "decide")

-------------------------------------------------------------------------------
(* The database.                                                           *)

(* The statement is executed and committed.                                *)
Commit ==
  /\ pc = "send" /\ Executable
  /\ row' = "own"
  /\ Finish("ok")
  /\ UNCHANGED <<kind, onItsWay, attempt, error, doubt>>

(* The connection is lost after the commit was sent.                       *)
LoseReply ==
  /\ pc = "send" /\ Executable
  /\ onItsWay' = TRUE
  /\ Handle("transient")
  /\ UNCHANGED <<kind, row, attempt, doubt>>

(* The statement fails: a lock is not released in time, a connection is    *)
(* lost, there is a deadlock; or an error that a retry would not cure.     *)
Reject ==
  /\ pc = "send"
  /\ \E e \in {"transient", "fatal"} : Handle(e)
  /\ UNCHANGED <<kind, row, onItsWay, attempt, doubt>>

(* An insert meets a row.                                                  *)
RejectDuplicate ==
  /\ pc = "send" /\ ~onItsWay
  /\ kind = "insert" /\ row # "absent"
  /\ Handle("duplicate")
  /\ UNCHANGED <<kind, row, onItsWay, attempt, doubt>>

(* A commit that was on its way takes effect, or never will.               *)
Land ==
  /\ onItsWay
  /\ onItsWay' = FALSE
  /\ row' = "own"
  /\ UNCHANGED <<kind, attempt, pc, error, result, doubt>>

Vanish ==
  /\ onItsWay
  /\ onItsWay' = FALSE
  /\ UNCHANGED <<kind, row, attempt, pc, error, result, doubt>>

-------------------------------------------------------------------------------
(* The repository.                                                         *)

RetryLeft == error = "transient" /\ attempt < MaxAttempts

(* The first check: a match is success; a read that fails is final unless  *)
(* the attempt can be repeated.                                            *)
Confirm ==
  /\ pc = "confirm"
  /\ \/ Matches /\ Finish("ok")
     \/ ~Matches /\ Continue(IF attempt > 1 /\ error = "duplicate"
                             THEN "reconfirm" ELSE "decide")
  /\ doubt' = (doubt \/ onItsWay)
  /\ UNCHANGED <<kind, row, onItsWay, attempt, error>>

ConfirmFails ==
  /\ pc = "confirm"
  /\ IF RetryLeft THEN Continue("decide") ELSE Finish("failed")
  /\ doubt' = TRUE
  /\ UNCHANGED <<kind, row, onItsWay, attempt, error>>

(* A duplicate after a retry is checked once more, and then final.         *)
Reconfirm ==
  /\ pc = "reconfirm"
  /\ \/ Matches /\ Finish("ok")
     \/ Finish("failed") /\ ~Matches
  /\ UNCHANGED <<kind, row, onItsWay, attempt, error, doubt>>

ReconfirmFails ==
  /\ pc = "reconfirm"
  /\ Finish("failed")
  /\ doubt' = TRUE
  /\ UNCHANGED <<kind, row, onItsWay, attempt, error>>

(* Slip: attempts are not counted.                                         *)
DecideSlip ==
  /\ pc = "decide"
  /\ IF RetryLeft THEN Continue("send") ELSE Finish("failed")
  /\ UNCHANGED <<kind, row, onItsWay, attempt, error, doubt>>

(* The attempt is repeated, or the write has failed.                       *)
Decide ==
  /\ pc = "decide"
  /\ IF RetryLeft
     THEN attempt' = attempt + 1 /\ Continue("send")
     ELSE Finish("failed") /\ UNCHANGED attempt
  /\ UNCHANGED <<kind, row, onItsWay, error, doubt>>

Next ==
  \/ Commit \/ LoseReply \/ Reject \/ RejectDuplicate \/ Land \/ Vanish
  \/ Confirm \/ ConfirmFails \/ Reconfirm \/ ReconfirmFails \/ Decide

(* The loop is bounded and each database call returns or times out.        *)
Spec == Init /\ [][Next]_vars
FairSpec == Spec /\ WF_vars(Next)

-------------------------------------------------------------------------------
(* Properties.                                                             *)

(* Every variable stays in its type, within the bound on attempts.         *)
TypeOK ==
  /\ kind \in Kinds
  /\ row \in Before \cup {"own"}
  /\ onItsWay \in BOOLEAN
  /\ attempt \in 1..MaxAttempts
  /\ pc \in {"send", "confirm", "reconfirm", "decide", "done"}
  /\ error \in {"none", "transient", "duplicate", "fatal"}
  /\ result \in {"pending", "ok", "failed"}
  /\ result = "pending" <=> pc # "done"
  /\ doubt \in BOOLEAN

(* What is acknowledged is stored: _write returns without an exception     *)
(* only if the row is there with the content asked for, and what is still  *)
(* on its way then can only be the same update once more.                  *)
AcknowledgedIsStored ==
  result = "ok" => /\ row \in {"own", "same"}
                   /\ onItsWay => kind # "insert" /\ row = "own"

(* The write fails only if it has not taken effect, unless the check that  *)
(* should have told could not be made, or was made too early to tell.      *)
(* Updates that are not checked for idempotency are not covered.           *)
FailureIsExact ==
  (result = "failed" /\ Checked /\ ~doubt) => row # "own" /\ ~onItsWay

(* A write always comes back.                                              *)
Returns == <>(pc = "done")

(* A write keeps the promises of StoredOnce.                               *)
Stored == INSTANCE StoredOnce

ImplementsStoredOnce == Stored!Spec
===============================================================================
