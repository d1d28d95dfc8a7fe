-------------------------- MODULE SystemWriteProofs --------------------------
(***************************************************************************)
(* A system write acknowledges only what is stored, and fails only if it   *)
(* has had no effect unless it could not know, for every bound on the      *)
(* number of attempts; and it implements StoredOnce.                       *)
(***************************************************************************)
EXTENDS SystemWrite, TLAPS

(* A commit is only ever on its way to a row it can still be made on, and  *)
(* as long as no confirmation was in doubt, an attempt starts, and the     *)
(* write gives up, only where no attempt has had an effect.                *)
Inv ==
  /\ TypeOK
  /\ AcknowledgedIsStored
  /\ kind = "insert" /\ onItsWay => row = "absent"
  /\ kind # "insert" => row \in {"other", "own"}
  /\ Checked /\ ~doubt /\ (pc \in {"send", "reconfirm", "decide"} \/ result = "failed")
       => row # "own" /\ ~onItsWay

LEMMA InvInit == Init => Inv
<1> SUFFICES ASSUME Init PROVE Inv
  OBVIOUS
<1>1. attempt \in 1..MaxAttempts
  BY AttemptsAssumption, SMT DEF Init
<1>2. TypeOK
  BY <1>1 DEF Init, TypeOK, Kinds
<1>3. kind # "insert" => row = "other"
  BY DEF Init
<1>4. row # "own"
  BY DEF Init, Before
<1>q. QED
  BY <1>2, <1>3, <1>4 DEF Init, Inv, AcknowledgedIsStored

LEMMA InvNext == Inv /\ [Next]_vars => Inv'
<1> SUFFICES ASSUME Inv, [Next]_vars PROVE Inv'
  OBVIOUS
<1> USE AttemptsAssumption
<1> USE DEF Inv, TypeOK, AcknowledgedIsStored, Before, Kinds, Checked
<1>1. CASE Commit
  BY <1>1 DEF Commit, Executable, Finish
<1>2. CASE LoseReply
  BY <1>2 DEF LoseReply, Executable, Handle, Continue
<1>3. CASE Reject
  BY <1>3 DEF Reject, Handle, Continue
<1>4. CASE RejectDuplicate
  BY <1>4 DEF RejectDuplicate, Handle, Continue
<1>5. CASE Land
  BY <1>5 DEF Land
<1>6. CASE Vanish
  BY <1>6 DEF Vanish
<1>7. CASE Confirm
  BY <1>7 DEF Confirm, Matches, Finish, Continue
<1>8. CASE ConfirmFails
  BY <1>8 DEF ConfirmFails, RetryLeft, Finish, Continue
<1>9. CASE Reconfirm
  BY <1>9 DEF Reconfirm, Matches, Finish
<1>10. CASE ReconfirmFails
  BY <1>10 DEF ReconfirmFails, Finish
<1>11. CASE Decide
  BY <1>11 DEF Decide, RetryLeft, Finish, Continue
<1>12. CASE UNCHANGED vars
  BY <1>12 DEF vars
<1>q. QED
  BY <1>1, <1>2, <1>3, <1>4, <1>5, <1>6, <1>7, <1>8, <1>9, <1>10, <1>11, <1>12 DEF Next

LEMMA Invariant == Spec => []Inv
BY InvInit, InvNext, PTL DEF Spec

-------------------------------------------------------------------------------
(* Every variable stays in its type.                                       *)
THEOREM TypeCorrect == Spec => []TypeOK
<1>1. Inv => TypeOK
  BY DEF Inv
<1>q. QED
  BY <1>1, Invariant, PTL

(* A write that comes back without an exception is stored for good.        *)
THEOREM AcknowledgementsAreTrue == Spec => []AcknowledgedIsStored
<1>1. Inv => AcknowledgedIsStored
  BY DEF Inv
<1>q. QED
  BY <1>1, Invariant, PTL

(* A write that fails without doubt has had no effect and will have none.  *)
THEOREM FailuresAreExact == Spec => []FailureIsExact
<1>1. Inv => FailureIsExact
  BY DEF Inv, FailureIsExact
<1>q. QED
  BY <1>1, Invariant, PTL

(* The retries, the check and the lost replies implement StoredOnce: each  *)
(* step stores the row, reports, or changes nothing a caller can see.      *)
THEOREM RefinesStoredOnce == Spec => Stored!Spec
<1>1. Init => Stored!Init
  BY DEF Init, Stored!Init, Before, Kinds
<1>2. Inv /\ [Next]_vars => [Stored!Next]_<<kind, row, result>>
  <2> SUFFICES ASSUME Inv, [Next]_vars PROVE [Stored!Next]_<<kind, row, result>>
    OBVIOUS
  <2> USE DEF Inv, TypeOK, Kinds, Before, Stored!Next, Stored!Take, Stored!Report
  <2>1. CASE Commit
    BY <2>1 DEF Commit, Executable, Finish
  <2>2. CASE Land
    BY <2>2 DEF Land, AcknowledgedIsStored
  <2>3. CASE Confirm
    BY <2>3 DEF Confirm, Matches, Finish, Continue
  <2>4. CASE ConfirmFails
    BY <2>4 DEF ConfirmFails, RetryLeft, Finish, Continue
  <2>5. CASE Reconfirm \/ ReconfirmFails
    BY <2>5 DEF Reconfirm, ReconfirmFails, Matches, Finish
  <2>6. CASE Decide
    BY <2>6 DEF Decide, RetryLeft, Finish, Continue
  <2>7. CASE LoseReply \/ Reject \/ RejectDuplicate \/ Vanish \/ UNCHANGED vars
    BY <2>7 DEF LoseReply, Reject, RejectDuplicate, Vanish, Handle, Continue, vars
  <2>q. QED
    BY <2>1, <2>2, <2>3, <2>4, <2>5, <2>6, <2>7 DEF Next
<1>q. QED
  BY <1>1, <1>2, Invariant, PTL DEF Spec, Stored!Spec
===============================================================================
