---------------------------- MODULE QuestionParsing ----------------------------
(***************************************************************************)
(* From a question to a parsed intent: the planner, which asks a language  *)
(* model up to three times (metric_rca/services/intent_planner.py), and    *)
(* what the metric service makes of its answer                             *)
(* (metric_rca/services/metric_service.py,                                 *)
(* metric_rca/services/date_context.py).                                   *)
(*                                                                         *)
(* A question is what the code reads in its text, by regular expressions:  *)
(*   blank    there is no text                                             *)
(*   surface  it mentions a supported metric by name                       *)
(*   metric   the value of "metric_id=value", or NoValue                   *)
(*   scope    the values of "dimension=value", by dimension                *)
(*   when     "current" or future, a "calendar" date, a "range" of days,   *)
(*            "relative" to today or generic, or "silent"                  *)
(*   wording  "ordinary" for the four stock questions, "stable", "broad",  *)
(*            or "other"                                                   *)
(* An answer of the model is a record [code, intent].  The code is         *)
(* NoError for an intent, one of its four typed codes, "invalid" for what  *)
(* does not fit the schema, a missing date or family included, or          *)
(* "unavailable" for a failed request.  The metric of an intent may be     *)
(* missing.                                                                *)
(***************************************************************************)
EXTENDS PlanCompiler

CONSTANTS
  Values,     \* by dimension, the values it is known to have
  PastDays,   \* the days before the business day
  RunDay      \* the configured target date of a run

MaxAttempts == 3

(* SUPPORTED_QUESTION_FAMILIES with metric_id_from_question_family.        *)
MetricOfFamily ==
  [gmv_drop |-> "gmv", uv_drop |-> "uv", net_gmv_drop |-> "net_gmv",
   pay_cvr_drop |-> "pay_cvr", refund_rate_increase |-> "refund_rate",
   stockout_rate_increase |-> "stockout_rate",
   complaint_rate_increase |-> "complaint_rate",
   channel_gmv_anomaly |-> "gmv", category_gmv_anomaly |-> "gmv",
   interaction_gmv_anomaly |-> "gmv", interaction_uv_anomaly |-> "uv"]

(* The metrics and dimensions of the metadata; no family asks for aov.     *)
SupportedMetrics == {MetricOfFamily[f] : f \in DOMAIN MetricOfFamily} \cup {"aov"}
SortedDimensions == <<"category", "channel", "device", "product", "warehouse">>
SupportedDimensions == ToSet(SortedDimensions)

-------------------------------------------------------------------------------
(* The planner.                                                            *)

(* should_bind_run_target_date *)
BindsRunDay(q) == q.when = "relative"

(* The answers after which the model is asked once more: unusable ones,    *)
(* and refusals that the text of the question contradicts.                 *)
IsAskedAgain(q, code) ==
  \/ code \in {"invalid", "PARSE_FAILED"}
  \/ code = "DATE_RANGE_INVALID" /\ BindsRunDay(q)
  \/ code = "METRIC_NOT_FOUND" /\ q.surface

(* The error code that an answer ends the parsing with.                    *)
FinalCode(code) ==
  CASE code = "invalid"     -> "PARSE_FAILED"
    [] code = "unavailable" -> "LLM_REQUIRED_UNAVAILABLE"
    [] OTHER                -> code

(* _intent_from_payload *)
IntentOf(answer) ==
  [answer.intent EXCEPT !.metric = IF @ = NoValue THEN MetricOfFamily[answer.intent.family] ELSE @]

-------------------------------------------------------------------------------
(* The metric service.                                                     *)

(* _apply_intent_alias_constraints: the wording of a question decides the  *)
(* strategy of an unscoped gmv drop.                                       *)
Reworded(q, intent) ==
  LET unscoped == /\ intent.metric = "gmv" /\ intent.family = "gmv_drop"
                  /\ intent.dim = NoValue /\ intent.element = NoValue
                  /\ intent.filters = NoFilters
      worded == [ordinary |-> "standard", stable |-> "signal_first", broad |-> "channel_first"]
  IN  IF unscoped /\ q.wording \in DOMAIN worded
      THEN [intent EXCEPT !.strategy = worded[q.wording]] ELSE intent

(* resolve_target_date_for_run_context *)
DayError(q) ==
  IF q.when = "current" \/ RunDay \notin PastDays
  THEN "DATE_RANGE_INVALID" ELSE NoError

Dated(q, intent) ==
  IF BindsRunDay(q) THEN [intent EXCEPT !.date = RunDay] ELSE intent

IsKnown(dim, value) == dim \in DOMAIN Values => value \in Values[dim]

(* Slip: a named dimension only has to occur.                              *)
OccursIn(intent, dim, value) == dim \in ScopeDims(intent)

(* _validate_explicit_dimension_filters: what the question names must be   *)
(* a filter, or the pair of dimension and element.                         *)
NamedIn(intent, dim, value) ==
  \/ dim \in DOMAIN intent.filters /\ intent.filters[dim] = value
  \/ intent.dim = dim /\ intent.element = value

DimensionErrors(q, intent) ==
  LET error(d) == CASE d \notin DOMAIN q.scope                -> NoError
                    [] d \in DOMAIN q.scope /\ ~IsKnown(d, q.scope[d]) -> "DIMENSION_NOT_ALLOWED"
                    [] OTHER -> IF NamedIn(intent, d, q.scope[d]) THEN NoError
                                ELSE "PARSE_FAILED"
  IN  [i \in DOMAIN SortedDimensions |-> error(SortedDimensions[i])]

(* _validate_explicit_metric_id *)
MetricError(q, intent) ==
  CASE q.metric = NoValue                                      -> NoError
    [] q.metric \notin SupportedMetrics \cup {NoValue}         -> "METRIC_NOT_FOUND"
    [] q.metric \in SupportedMetrics /\ q.metric # intent.metric -> "PARSE_FAILED"
    [] OTHER                                                   -> NoError

(* The checks are made one after the other: the first error is raised.     *)
FirstError(errors) ==
  LET found == {i \in DOMAIN errors : errors[i] # NoError}
  IN  IF found = {} THEN NoError ELSE errors[Min(found)]

(* _validate_parsed_intent                                                 *)
IntentError(intent) ==
  LET error(code, found) == IF found THEN code ELSE NoError
  IN  FirstError(<<
        error("METRIC_NOT_FOUND", intent.metric \notin SupportedMetrics),
        error("PARSE_FAILED", MetricOfFamily[intent.family] # intent.metric),
        error("DATE_RANGE_INVALID", intent.date \notin PastDays),
        error("DIMENSION_NOT_ALLOWED",
          \/ intent.dim # NoValue /\ intent.dim \notin SupportedDimensions
          \/ /\ intent.dim # NoValue /\ intent.element # NoValue
             /\ ~IsKnown(intent.dim, intent.element)
          \/ ~(DOMAIN intent.filters \subseteq SupportedDimensions)
          \/ \E d \in DOMAIN intent.filters : ~IsKnown(d, intent.filters[d])),
        error("PARSE_FAILED", intent.element # NoValue /\ intent.dim = NoValue)>>)

(* parse_question, after the planner: the intent, or the first error.      *)
ServedIntent(q, intent) == Dated(q, Reworded(q, intent))

ServiceError(q, intent) ==
  LET served == ServedIntent(q, intent)
  IN  FirstError(<<DayError(q)>> \o DimensionErrors(q, served)
                 \o <<MetricError(q, served), IntentError(served)>>)
===============================================================================
