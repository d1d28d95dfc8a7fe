----------------------------- MODULE MemoryStore -----------------------------
(***************************************************************************)
(* The memory records of one metric and the runs that share them           *)
(* (metric_rca/memory/memory_repo.py, metric_rca/runtime/                  *)
(* memory_service.py, and get_memory_records_for_run of the repository).   *)
(* A run reads the layers one after the other, each in a transaction of    *)
(* its own, filters the hits, and later inserts at most one record, whose  *)
(* version it has read in yet another transaction.                         *)
(***************************************************************************)
EXTENDS Integers, Sequences, SequencesExt, FiniteSetsExt

CONSTANTS
  Runs,         \* the runs
  Question,     \* of each run: [scope, family] of its question
  Modes,        \* of each run: its memory settings, "off", "read" or "write"
  Seeds,        \* the records that are there before the runs
  Suite,        \* is the process set to the evaluation suite of a record
  MaxTime       \* bound: the last second of the clock

ASSUME TimeAssumption == MaxTime \in Nat
ASSUME SuiteAssumption == Suite \in BOOLEAN

(* Filters of a record: none at all, the empty ones of an unscoped         *)
(* question, or one element.                                               *)
NoFilters == "none"
Unscoped  == "whole"
NoFamily  == "no family"
NoTtl     == 0

(* The columns of a record: who wrote it, what it is about, whether it is  *)
(* for a suite, carries an answer, gives advice and is from a source that  *)
(* is trusted, its clock, and the records its writer had seen.             *)
Columns == {"id", "by", "layer", "scope", "family", "suite", "answer", "advice", "trusted",
            "version", "born", "ttl", "saw"}

ASSUME QuestionAssumption == \A r \in Runs : Question[r].scope # NoFilters

(* Nobody has seen anything before the runs, and lessons advise nothing.   *)
ASSUME SeedsAssumption ==
  /\ IsFiniteSet(Seeds)
  /\ \A x \in Seeds :
       /\ DOMAIN x = Columns /\ x.id \notin Runs /\ x.saw = {}
       /\ x.version \in Nat /\ x.born \in Nat /\ x.ttl \in Nat
       /\ x.layer = "reflection" => ~x.advice
  /\ \A x, y \in Seeds : x.id = y.id => x = y

VARIABLES
  now,        \* the clock
  records,    \* table memory_record
  pc,         \* where each run is: "idle", a layer, "judge", "work", ...
  mode,       \* memory settings: "off", "read" or "write"
  started,    \* when the run started, column created_at of agent_run
  hits,       \* the rows read so far, in the order of read_layers
  priors,     \* the records behind the priors of the run
  audited,    \* the records named in the trace of the read
  draft       \* the record about to be inserted

local == <<mode, started, hits, priors, audited, draft>>
vars  == <<now, records, pc, local>>

(* read_priors reads "semantic" under one key and the others under         *)
(* another.                                                                *)
After == [semantic |-> "episodic", episodic |-> "reflection", reflection |-> "case",
          case |-> "judge"]
Layers == DOMAIN After
Stages == Layers \cup {"judge"}

(* _row_is_usable: trusted source, enough confidence, not expired.         *)
Usable(x, t) == x.trusted /\ (x.ttl # NoTtl => x.born + x.ttl >= t)

(* Slip: the oldest version first.                                         *)
PrecedesSlip(x, y) == \/ x.version < y.version
                      \/ x.version = y.version /\ x.born >= y.born

(* ORDER BY version DESC, created_at DESC; what is equal comes in any      *)
(* order.                                                                  *)
Precedes(x, y) == \/ x.version > y.version
                  \/ x.version = y.version /\ x.born >= y.born

Orderings(S, Before(_, _)) ==
  {s \in SetToSeqs(S) : \A i, j \in DOMAIN s : i < j => Before(s[i], s[j])}

(* MemoryRepository.read at time t: the usable rows of a layer, in order.  *)
Reads(layer, t) ==
  Orderings({x \in records : x.layer = layer /\ Usable(x, t)}, Precedes)

-------------------------------------------------------------------------------
(* What read_priors does with its hits.                                    *)

(* _filter_memory_hits_by_eval_suite.                                      *)
Suited(x) == x.suite => Suite

(* _filter_memory_hits_by_scope: without a scope everything stays.         *)
Scoped(x, q) == q.scope # Unscoped => x.scope \in {NoFilters, q.scope}

(* _filter_memory_hits_by_intent.                                          *)
Fitting(x, q) == x.layer = "semantic" \/ x.family = q.family

(* _case_prior_from_hit: a hit without any preference gives no prior.      *)
Advises(x) == x.advice

Kept(r) == {x \in ToSet(hits[r]) : /\ Suited(x)
                                   /\ Scoped(x, Question[r])
                                   /\ Fitting(x, Question[r])}

(* _raise_for_forbidden_memory_fields looks at the hits of the suite,      *)
(* whatever their scope and family.                                        *)
Poisoned(r) == \E i \in DOMAIN hits[r] : Suited(hits[r][i]) /\ hits[r][i].answer

-------------------------------------------------------------------------------
NoDraft == [layer |-> "none", version |-> 0, born |-> 0, saw |-> {}]

Init ==
  /\ now = 0
  /\ records = Seeds
  /\ pc      = [r \in Runs |-> "idle"]
  /\ mode    = [r \in Runs |-> "off"]
  /\ started = [r \in Runs |-> 0]
  /\ hits    = [r \in Runs |-> <<>>]
  /\ priors  = [r \in Runs |-> {}]
  /\ audited = [r \in Runs |-> {}]
  /\ draft   = [r \in Runs |-> NoDraft]

GoTo(r, p) == pc' = [pc EXCEPT ![r] = p]

Tick == /\ now < MaxTime
        /\ now' = now + 1
        /\ UNCHANGED <<records, pc, local>>

(* The row of the run is written; without memory nothing is read.          *)
Begin(r) ==
  /\ pc[r] = "idle"
  /\ \E m \in Modes[r] :
       /\ mode' = [mode EXCEPT ![r] = m]
       /\ GoTo(r, IF m = "off" THEN "work" ELSE "semantic")
  /\ started' = [started EXCEPT ![r] = now]
  /\ UNCHANGED <<now, records, hits, priors, audited, draft>>

(* One SELECT of read_layers.                                              *)
ReadLayer(r) ==
  /\ pc[r] \in Layers
  /\ \E s \in Reads(pc[r], now) : hits' = [hits EXCEPT ![r] = hits[r] \o s]
  /\ GoTo(r, After[pc[r]])
  /\ UNCHANGED <<now, records, mode, started, priors, audited, draft>>

(* The trace of the read lists the hits that are kept.                     *)
TraceRead(r) == /\ pc[r] = "judge" /\ ~Poisoned(r)
                /\ audited' = [audited EXCEPT ![r] = {x.id : x \in Kept(r)}]

(* A SELECT, or the trace of the read, fails; the trace may be there all   *)
(* the same.  The run fails without priors, and writes nothing to memory.  *)
ReadFails(r) ==
  /\ pc[r] \in Stages
  /\ TraceRead(r) \/ UNCHANGED audited
  /\ priors' = [priors EXCEPT ![r] = {}]
  /\ GoTo(r, "over")
  /\ hits' = [hits EXCEPT ![r] = <<>>]
  /\ UNCHANGED <<now, records, mode, started, draft>>

(* The hits are filtered, the read is traced, and the priors are returned. *)
Judge(r) ==
  /\ TraceRead(r)
  /\ priors'  = [priors EXCEPT ![r] = {x \in Kept(r) : Advises(x)}]
  /\ hits' = [hits EXCEPT ![r] = <<>>]
  /\ GoTo(r, "work")
  /\ UNCHANGED <<now, records, mode, started, draft>>

(* A hit that carries an answer fails the run.                             *)
Refuse(r) ==
  /\ pc[r] = "judge" /\ Poisoned(r)
  /\ GoTo(r, "over")
  /\ hits' = [hits EXCEPT ![r] = <<>>]
  /\ UNCHANGED <<now, records, mode, started, priors, audited, draft>>

(* The run comes to a case or a lesson that it may write, or to neither.   *)
Conclude(r) ==
  /\ pc[r] = "work"
  /\ \/ GoTo(r, "over") /\ UNCHANGED draft
     \/ /\ mode[r] = "write"
        /\ \E layer \in {"episodic", "reflection"} :
             draft' = [draft EXCEPT ![r].layer = layer]
        /\ GoTo(r, "version")
  /\ UNCHANGED <<now, records, mode, started, hits, priors, audited>>

(* _next_version: one more than the highest of the layer and the key.      *)
NextVersion(S) == 1 + Max({x.version : x \in S} \cup {0})

(* The version is read, in a transaction of its own.                       *)
ReadVersion(r) ==
  /\ pc[r] = "version"
  /\ LET S == {x \in records : x.layer = draft[r].layer}
     IN  draft' = [draft EXCEPT ![r].version = NextVersion(S),
                                ![r].saw = {x.id : x \in S}]
  /\ GoTo(r, "stamp")
  /\ UNCHANGED <<now, records, mode, started, hits, priors, audited>>

(* created_at is taken from the clock.                                     *)
Stamp(r) ==
  /\ pc[r] = "stamp"
  /\ draft' = [draft EXCEPT ![r].born = now]
  /\ GoTo(r, "insert")
  /\ UNCHANGED <<now, records, mode, started, hits, priors, audited>>

(* The record of a run: of its scope and, if it is a case, of its family;  *)
(* it never expires and carries no answer (see Reflection).                *)
RecordOf(r) ==
  [id |-> r, by |-> r, layer |-> draft[r].layer, scope |-> Question[r].scope,
   family |-> IF draft[r].layer = "episodic" THEN Question[r].family ELSE NoFamily,
   suite |-> FALSE, answer |-> FALSE, advice |-> draft[r].layer = "episodic",
   trusted |-> TRUE, version |-> draft[r].version, born |-> draft[r].born,
   ttl |-> NoTtl, saw |-> draft[r].saw]

(* The row is inserted, or the insert fails; a failure may have taken      *)
(* effect (SystemWrite).                                                   *)
Insert(r) ==
  /\ pc[r] = "insert"
  /\ records' \in {records, records \cup {RecordOf(r)}}
  /\ GoTo(r, "over")
  /\ UNCHANGED <<now, local>>

(* freeze_legacy_layers: rows of unknown layers become cases.              *)
FreezeLegacyLayers ==
  /\ \E x \in records : x.layer \notin Layers
  /\ records' = {IF x.layer \in Layers THEN x ELSE [x EXCEPT !.layer = "case"]
                   : x \in records}
  /\ UNCHANGED <<now, pc, local>>

Step(r) == \/ Begin(r) \/ ReadLayer(r) \/ ReadFails(r) \/ Judge(r) \/ Refuse(r)
           \/ Conclude(r) \/ ReadVersion(r) \/ Stamp(r) \/ Insert(r)

Next == Tick \/ FreezeLegacyLayers \/ \E r \in Runs : Step(r)

Spec == Init /\ [][Next]_vars

-------------------------------------------------------------------------------
(* What GET /runs/{id}/memory shows.                                       *)

(* Slip: records of the future are shown as well.                          *)
ShownSlip(x, r) == (x.suite => x.id \in audited[r] \/ x.by = r)

(* _memory_record_matches_run: the records of the run itself, and what had *)
(* been created when it started; records of a suite only if it read them.  *)
Shown(x, r) ==
  /\ x.suite => x.id \in audited[r] \/ x.by = r
  /\ x.by = r \/ x.born <= started[r]

View(r) == {x \in records : Shown(x, r)}

-------------------------------------------------------------------------------
(* Properties.                                                             *)

(* Although versions are read in one transaction and written in another,   *)
(* and two runs may well take the same one, no read ever puts a record     *)
(* behind one that its writer had seen.  (A legacy row that is frozen into *)
(* a layer brings its own version along, and was seen by nobody.)          *)
NewestFirst ==
  \A r \in Runs : \A i, j \in DOMAIN hits[r] :
    LET x == hits[r][i]
        y == hits[r][j]
    IN  x.layer = y.layer /\ x.id \in y.saw => j < i

(* The priors of a run are cases that suit it: of its family, not expired  *)
(* when the run started, never lessons, never of another element, never    *)
(* for another suite, and never with an answer in them.                    *)
PriorsSuit ==
  \A r \in Runs : \A x \in priors[r] :
    /\ x.layer # "semantic" => x.family = Question[r].family
    /\ x.layer # "reflection"
    /\ x.ttl # NoTtl => x.born + x.ttl >= started[r]
    /\ Question[r].scope # Unscoped => x.scope \notin {Unscoped} \cup
         {Question[q].scope : q \in {p \in Runs : Question[p].scope # Question[r].scope}}
    /\ x.suite => Suite
    /\ ~x.answer

(* What a run remembers is in order, and what it takes for a prior suits.  *)
PriorsAreSound == NewestFirst /\ PriorsSuit

(* The page of a run shows its own record and no record of another run     *)
(* that was created after it started (docs/reference/decisions.md:1258),   *)
(* and every record that it took for a prior, whatever became of the table *)
(* since, unless that was created after the run had started.               *)
ViewIsOfItsTime ==
  \A r \in Runs :
    /\ \A x \in records :
         /\ x.by = r => x \in View(r)
         /\ x \in View(r) => x.by = r \/ x.born <= started[r]
    /\ \A x \in priors[r] : x.born <= started[r] => \E y \in View(r) : y.id = x.id

===============================================================================
