----------------------------- MODULE SeedDatabase -----------------------------
(***************************************************************************)
(* `make seed` on the database (metric_rca/data/seed_data.py): everything  *)
(* is deleted, the schema is brought up to date, and the data of the seed  *)
(* are inserted, in a transaction that every ALTER TABLE ends.  Several    *)
(* seeders may run at once, and the program may go on writing.             *)
(*                                                                         *)
(* A row is <<source, key>>: who wrote it, and its primary key.  The five  *)
(* fact tables get one row per business day.                               *)
(***************************************************************************)
EXTENDS Integers, Sequences, FiniteSets, SequencesExt

CONSTANTS
  Seeders,        \* processes that seed
  ProgramTables,  \* bound: the tables the program writes meanwhile
  Schemas,        \* bound: what the schema may lack, a set of sets of upgrades
  Days,           \* profile.history_days
  BatchSize,      \* profile.batch_size
  MaxTries,       \* attempts to reach the database (30 in the code)
  MaxRows         \* bound: rows the program writes

Program == "program"   \* the source of the rows of runs and evaluations
Earlier == "earlier"   \* the source of the data of an earlier seed

ASSUME SeedersAssumption == {Program, Earlier} \cap Seeders = {}
ASSUME DaysAssumption    == Days \in Nat

TablesToClear ==
  <<"eval_case_result", "eval_run", "memory_record", "operation_task", "sql_audit",
    "evidence", "trace_step", "agent_run", "anomaly_ground_truth", "metric_definition",
    "fact_customer_ticket", "fact_campaign", "fact_inventory", "fact_traffic",
    "fact_order", "dim_user", "dim_product">>

Tables == ToSet(TablesToClear)

(* What _ensure_p6_schema looks for, in its order, by table.               *)
Identity     == <<"evidence", "identity">>
IdentityKeys == {<<"evidence", "uq_evidence_id">>, <<"evidence", "uq_evidence_run_alias">>}

EvidenceUpgrades ==
  <<Identity, <<"evidence", "uq_evidence_id">>, <<"evidence", "uq_evidence_run_alias">>>>

Upgrades ==
  EvidenceUpgrades \o
  <<<<"trace_step", "token_usage">>, <<"agent_run", "runtime_version">>,
    <<"anomaly_ground_truth", "scenario_id">>, <<"anomaly_ground_truth", "split">>,
    <<"anomaly_ground_truth", "seed">>, <<"anomaly_ground_truth", "profile">>,
    <<"anomaly_ground_truth", "root_causes">>, <<"anomaly_ground_truth", "confounders">>,
    <<"anomaly_ground_truth", "expected_behavior">>, <<"agent_run", "total_tokens">>,
    <<"agent_run", "total_latency_ms">>, <<"agent_run", "token_breakdown">>,
    <<"metric_definition", "metric_family">>, <<"metric_definition", "no_default">>,
    <<"sql_audit", "audit_key">>, <<"sql_audit", "uq_audit_key">>,
    <<"eval_case_result", "uq_eval_case">>, <<"eval_case_result", "checks">>>>

-------------------------------------------------------------------------------
(* The statements of the transaction.                                      *)

Statement(do, table, what) == [do |-> do, table |-> table, what |-> what]
Insert(table, keys) == Statement("insert", table, keys)

Clear == [i \in DOMAIN TablesToClear |-> Statement("delete", TablesToClear[i], {})]
Ensure == [i \in DOMAIN Upgrades |-> Statement("ensure", Upgrades[i][1], Upgrades[i])]

InsertDimensions       == <<Insert("dim_product", {1}), Insert("dim_user", {1})>>
InsertMetrics          == <<Insert("metric_definition", {1})>>
InsertSemanticMemory   == <<Insert("memory_record", {1})>>
InsertTreatmentMemory  == <<Insert("memory_record", {2})>>
InsertGroundTruth      == <<Insert("anomaly_ground_truth", {1})>>

(* A business day adds its rows to a list for each fact table, and a list  *)
(* that is long enough is inserted; at the end, what is left of the lists. *)
FactOrder  == <<"fact_campaign", "fact_inventory", "fact_traffic", "fact_order",
                "fact_customer_ticket">>
FactTables == ToSet(FactOrder)

AddDay(n) == Statement("add", FactOrder[((n - 1) % 5) + 1], {((n - 1) \div 5) + 1})
Flush(n)  == Statement("flush", FactOrder[n], {})

AddDays == [n \in 1..(5 * Days) |-> AddDay(n)]

(* Slip: what is left of the last batches is forgotten.                    *)
FlushAllSlip == <<>>

FlushAll == [n \in 1..5 |-> Flush(n)]

Dimensions == InsertDimensions \o InsertMetrics \o InsertSemanticMemory
                \o InsertTreatmentMemory

Inserts == Dimensions \o AddDays \o FlushAll \o InsertGroundTruth

(* Slip: the schema is looked at after the first inserts.                  *)
TransactionSlip == Clear \o Dimensions \o Ensure \o Inserts

Transaction == Clear \o Ensure \o Inserts

(* The keys a complete seed has in a table.                                *)
SeededTables == FactTables \cup
  {"dim_product", "dim_user", "metric_definition", "memory_record", "anomaly_ground_truth"}

(* The tables whose row counts a seed reports.                             *)
CountedTables == FactTables \cup {"dim_product", "dim_user"}

KeysOf(table) == CASE table \in FactTables      -> 1..Days
                   [] table = "memory_record"   -> {1, 2}
                   [] OTHER                     -> {1}

Full(table, source) == {source} \X KeysOf(table)

-------------------------------------------------------------------------------
VARIABLES
  local,    \* the data source name is that of a local database
  stored,   \* the committed rows of every table
  missing,  \* what the schema lacks
  partial,  \* the evidence table has one of its two new columns
  phase,    \* of each seeder: what it does
  valid,    \* its METRIC_RCA_DATA_SEED is a number
  tries,    \* its failed attempts to reach the database
  at,       \* the statement it is at
  erased,   \* the tables its open transaction deleted
  added,    \* the rows its open transaction inserted
  waiting,  \* the keys of the rows in its lists, by table
  counts,   \* how many rows it inserted, by table
  before,   \* the committed rows when its transaction began
  written   \* how many rows the program wrote

schema   == <<missing, partial>>
database == <<stored, schema>>
control  == <<phase, valid, tries, at>>
open     == <<erased, added>>
lists    == <<waiting, counts>>
vars     == <<local, database, control, open, lists, before, written>>

NoRows == [t \in Tables |-> {}]
NoCounts == [t \in Tables |-> 0]

Init ==
  /\ local \in BOOLEAN
  /\ \/ stored = NoRows
     \/ stored = [t \in Tables |->
          (IF t \in SeededTables THEN Full(t, Earlier) ELSE {})
            \cup (IF t \in ProgramTables THEN {<<Program, 0>>} ELSE {})]
  /\ missing \in Schemas
  /\ partial \in (IF Identity \in missing THEN BOOLEAN ELSE {FALSE})
  /\ phase = [s \in Seeders |-> "idle"] /\ valid = [s \in Seeders |-> TRUE]
  /\ tries = [s \in Seeders |-> 0] /\ at = [s \in Seeders |-> 1]
  /\ erased = [s \in Seeders |-> {}] /\ added = [s \in Seeders |-> NoRows]
  /\ waiting = [s \in Seeders |-> NoRows] /\ counts = [s \in Seeders |-> NoCounts]
  /\ before = [s \in Seeders |-> NoRows] /\ written = 0

(* _assert_destructive_seed_allowed.                                       *)
Profiles == {"smoke", "regression", "acceptance", "stress"}

Allowed(profile, flag) == flag \/ (profile \in {"smoke", "regression"} /\ local)

Start(s) ==
  /\ phase[s] = "idle"
  /\ \E profile \in Profiles \cup {"other"}, flag \in BOOLEAN, number \in BOOLEAN :
       /\ valid' = [valid EXCEPT ![s] = number]
       /\ phase' = [phase EXCEPT ![s] =
            IF profile \in Profiles /\ Allowed(profile, flag) THEN "waiting" ELSE "refused"]
  /\ UNCHANGED <<local, database, tries, at, open, lists, before, written>>

(* _wait_for_mysql gives up after its last attempt.  The seed is looked at *)
(* after it.                                                               *)
NotReached(s) ==
  /\ phase[s] = "waiting"
  /\ tries' = [tries EXCEPT ![s] = @ + 1]
  /\ phase' = [phase EXCEPT ![s] = IF tries'[s] = MaxTries THEN "failed" ELSE "waiting"]
  /\ UNCHANGED <<local, database, valid, at, open, lists, before, written>>

Reached(s) ==
  /\ phase[s] = "waiting"
  /\ phase' = [phase EXCEPT ![s] = IF valid[s] THEN "seeding" ELSE "refused"]
  /\ before' = [before EXCEPT ![s] = stored]
  /\ valid' = [valid EXCEPT ![s] = TRUE] /\ tries' = [tries EXCEPT ![s] = 0]
  /\ UNCHANGED <<local, database, at, open, lists, written>>

-------------------------------------------------------------------------------
(* The transaction.  A table that another open transaction deleted from or *)
(* inserted into is locked.                                                *)

Uses(s) == erased[s] \cup {t \in Tables : added[s][t] # {}}
LockedFor(s, table) == \E r \in Seeders \ {s} : table \in Uses(r)

Now(s)     == Transaction[at[s]]
Doing(s, do) == /\ phase[s] = "seeding" /\ at[s] \in DOMAIN Transaction
                /\ Now(s).do = do

Seen(s, table) == (IF table \in erased[s] THEN {} ELSE stored[table]) \cup added[s][table]

Committed(s) ==
  [t \in Tables |-> (IF t \in erased[s] THEN {} ELSE stored[t]) \cup added[s][t]]

EndTransaction(s) == /\ erased' = [erased EXCEPT ![s] = {}]
                     /\ added' = [added EXCEPT ![s] = NoRows]

GoTo(s, n) == /\ at' = [at EXCEPT ![s] = n] /\ UNCHANGED <<phase, valid, tries>>
Go(s)      == GoTo(s, at[s] + 1)

End(s, how) == /\ phase' = [phase EXCEPT ![s] = how]
               /\ at' = [at EXCEPT ![s] = 1]
               /\ before' = [before EXCEPT ![s] = NoRows]
               /\ EndTransaction(s)
               /\ waiting' = [waiting EXCEPT ![s] = NoRows]
               /\ counts' = [counts EXCEPT ![s] = NoCounts]
               /\ UNCHANGED <<valid, tries>>

(* Whatever goes wrong, the transaction that is open is rolled back.       *)
Stop(s) == End(s, "failed")

Delete(s) ==
  /\ Doing(s, "delete") /\ ~LockedFor(s, Now(s).table)
  /\ erased' = [erased EXCEPT ![s] = @ \cup {Now(s).table}]
  /\ Go(s)
  /\ UNCHANGED <<local, database, added, lists, before, written>>

(* The schema is looked at, up to the first thing that it lacks; an ALTER  *)
(* TABLE commits what was done so far.                                     *)
IsPresent(n) == /\ n \in DOMAIN Transaction /\ Transaction[n].do = "ensure"
                /\ Transaction[n].what \notin missing

Present(s) ==
  /\ Doing(s, "ensure") /\ IsPresent(at[s])
  /\ \E n \in (at[s] + 1)..(Len(Transaction) + 1) :
       /\ ~IsPresent(n) /\ \A m \in at[s]..(n - 1) : IsPresent(m)
       /\ GoTo(s, n)
  /\ UNCHANGED <<local, database, open, lists, before, written>>

PartialSchema(s) ==
  /\ Doing(s, "ensure") /\ Now(s).what = Identity /\ partial
  /\ Stop(s)
  /\ UNCHANGED <<local, database, written>>

Absent(s) ==
  /\ Doing(s, "ensure") /\ Now(s).what \in missing
  /\ ~(Now(s).what = Identity /\ partial)
  /\ stored' = Committed(s)
  /\ EndTransaction(s)
  /\ phase' = [phase EXCEPT ![s] = "altering"]
  /\ UNCHANGED <<local, schema, valid, tries, at, lists, before, written>>

(* The ALTER itself, once no other transaction uses the table.  What has   *)
(* been added meanwhile cannot be added again.                             *)
Alter(s) ==
  /\ phase[s] = "altering" /\ ~LockedFor(s, Now(s).table)
  /\ IF Now(s).what \in missing
     THEN /\ missing' = missing \ ({Now(s).what}
               \cup (IF Now(s).what = Identity THEN IdentityKeys ELSE {}))
          /\ phase' = [phase EXCEPT ![s] = "seeding"]
          /\ at' = [at EXCEPT ![s] = @ + 1]
          /\ UNCHANGED <<valid, tries, open, lists, before>>
     ELSE Stop(s) /\ UNCHANGED missing
  /\ UNCHANGED <<local, stored, partial, written>>

(* The statement at which rows are collected or inserted, and its rows.    *)
Inserting(s) == Doing(s, "insert") \/ Doing(s, "add") \/ Doing(s, "flush")

Batch(s) == waiting[s][Now(s).table] \cup Now(s).what

(* The campaigns of a day are inserted at once, the rows of other tables   *)
(* when a batch is full, and an empty list is not.                         *)
IsDue(s) ==
  \/ Now(s).do = "insert"
  \/ Now(s).do = "add" /\ (\/ Now(s).table = "fact_campaign"
                          \/ Cardinality(Batch(s)) >= BatchSize)
  \/ Now(s).do = "flush" /\ Batch(s) # {}

CollectRows(s) ==
  /\ Inserting(s) /\ ~IsDue(s)
  /\ waiting' = [waiting EXCEPT ![s][Now(s).table] = Batch(s)]
  /\ Go(s)
  /\ UNCHANGED <<local, database, open, counts, before, written>>

(* A key that is there already is an error.                                *)
Collides(s) == \E row \in Seen(s, Now(s).table) : row[1] # Program /\ row[2] \in Batch(s)

InsertRows(s) ==
  /\ Inserting(s) /\ IsDue(s)
  /\ ~LockedFor(s, Now(s).table) /\ ~Collides(s)
  /\ added' = [added EXCEPT ![s][Now(s).table] = @ \cup ({s} \X Batch(s))]
  /\ counts' = [counts EXCEPT ![s][Now(s).table] = @ + Cardinality(Batch(s))]
  /\ waiting' = [waiting EXCEPT ![s][Now(s).table] = {}]
  /\ Go(s)
  /\ UNCHANGED <<local, database, erased, before, written>>

DuplicateKey(s) ==
  /\ Inserting(s) /\ IsDue(s)
  /\ ~LockedFor(s, Now(s).table) /\ Collides(s)
  /\ Stop(s)
  /\ UNCHANGED <<local, database, written>>

(* The end of the block commits.  A commit that is reported as failed may  *)
(* have taken effect.                                                      *)
Commit(s) ==
  /\ phase[s] = "seeding" /\ at[s] = Len(Transaction) + 1
  /\ \/ stored' = Committed(s) /\ End(s, "ok")
     \/ stored' \in {stored, Committed(s)} /\ Stop(s)
  /\ UNCHANGED <<local, schema, written>>

(* A statement fails, a deadlock is broken, or the process dies.           *)
Fail(s) ==
  /\ phase[s] \in {"seeding", "altering"}
  /\ Stop(s)
  /\ UNCHANGED <<local, database, written>>

(* The program inserts a row, unless the table is being cleared.           *)
ProgramWrites ==
  /\ written < MaxRows
  /\ \E t \in ProgramTables :
       /\ \A s \in Seeders : t \notin erased[s]
       /\ stored' = [stored EXCEPT ![t] = @ \cup {<<Program, written + 1>>}]
  /\ written' = written + 1
  /\ UNCHANGED <<local, schema, control, open, lists, before>>

Step(s) == \/ Start(s) \/ NotReached(s) \/ Reached(s) \/ Delete(s) \/ Present(s)
           \/ PartialSchema(s) \/ Absent(s) \/ Alter(s) \/ CollectRows(s)
           \/ InsertRows(s) \/ DuplicateKey(s) \/ Commit(s) \/ Fail(s)

Next == ProgramWrites \/ \E s \in Seeders : Step(s)

Spec == Init /\ [][Next]_vars
-------------------------------------------------------------------------------
SeededRows(t) == {row \in stored[t] : row[1] # Program}

(* Whoever looks at the committed data - the runs do, at any time - finds  *)
(* the complete data of one seed, in every table, or no data at all: never *)
(* facts of one seed with the labels of another, and never the first       *)
(* batches of a load; also when seeders overlap, fail between two          *)
(* statements, or had to commit what they deleted.                         *)
DataIsOfOneSeed ==
  \/ \A t \in SeededTables : SeededRows(t) = {}
  \/ \E source \in Seeders \cup {Earlier} :
       \A t \in SeededTables : SeededRows(t) = Full(t, source)

(* A seeder that ends well has replaced everything: of the rows that were  *)
(* there when its transaction began, those of runs and evaluations         *)
(* included, none is left, its own data are complete, and the row counts   *)
(* it reports are those of the tables.                                     *)
SuccessRebuilds ==
  [][\A s \in Seeders : phase[s] # "ok" /\ phase'[s] = "ok" =>
       /\ \A t \in Tables : stored'[t] \cap before[s][t] = {}
       /\ \A t \in SeededTables : Full(t, s) \subseteq stored'[t]
       /\ \A t \in CountedTables :
            counts[s][t] = Cardinality({x \in stored'[t] : x[1] = s})]_vars

(* What the comment at the transaction says (seed_data.py:157): all is     *)
(* rebuilt, or all is as it was.                                           *)
SeedIsAtomic ==
  [][\A s \in Seeders : phase[s] # "failed" /\ phase'[s] = "failed" =>
       \/ \A t \in Tables : before[s][t] \subseteq stored'[t]
       \/ \A t \in SeededTables : Full(t, s) \subseteq stored'[t]]_vars
===============================================================================
