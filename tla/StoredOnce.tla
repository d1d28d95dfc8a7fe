----------------------------- MODULE StoredOnce -----------------------------
(***************************************************************************)
(* What a write to a system table promises its caller: a row that is       *)
(* acknowledged is there with the content that was asked for; a foreign    *)
(* row is never replaced by an insert; a failure promises nothing.         *)
(***************************************************************************)
CONSTANT Before     \* what may be stored before the write

VARIABLES
  kind,     \* "insert", or another kind, which replaces a row
  row,      \* "absent", "other", "same" (a foreign row, equal), or "own"
  result    \* "pending", "ok" or "failed"

Init == /\ row \in Before
        /\ kind = "insert" \/ row = "other"
        /\ result = "pending"

(* The row is written, be it after the caller was told of a failure.       *)
Take ==
  /\ result # "ok"
  /\ row = IF kind = "insert" THEN "absent" ELSE "other"
  /\ row' = "own"
  /\ result' \in {result, "ok"}

(* The caller learns that the row is there, or that the write failed.      *)
Report ==
  /\ result = "pending"
  /\ result' = "failed" \/ (row \in {"own", "same"} /\ result' = "ok")
  /\ UNCHANGED row

Next == (Take \/ Report) /\ UNCHANGED kind

Spec == Init /\ [][Next]_<<kind, row, result>>
=============================================================================
