--------------------------- MODULE PlanCompilation ---------------------------
(***************************************************************************)
(* From a question to its plan, as the run service goes about it           *)
(* (metric_rca/runtime/run_service.py): the question is parsed, with a     *)
(* model that may answer anything on each attempt, memory priors are read, *)
(* and the intent is compiled.                                             *)
(***************************************************************************)
EXTENDS QuestionParsing, Guardrails

CONSTANTS
  Questions,    \* what may be asked
  Answers(_),   \* what the model may answer to a question, on any attempt
  HintLists,    \* what read_priors may return
  Budget        \* the budget of the settings

(* The values that a question names are values of dimensions, an answer    *)
(* without a code has an intent that fits the schema, and priors come in   *)
(* lists.                                                                  *)
ASSUME NamedAssumption ==
  \A q \in Questions : \A d \in DOMAIN q.scope :
    d \in SupportedDimensions /\ q.scope[d] # NoValue

ASSUME AnswersAssumption ==
  \A q \in Questions : \A a \in Answers(q) : a.code = NoError =>
    LET i == a.intent
    IN  i = [metric |-> i.metric, date |-> i.date, family |-> i.family,
             strategy |-> i.strategy, dim |-> i.dim, element |-> i.element,
             filters |-> [d \in DOMAIN i.filters |-> i.filters[d]]]

ASSUME HintsAssumption ==
  \A list \in HintLists :
    /\ DOMAIN list \subseteq Nat
    /\ \A n \in DOMAIN list : DOMAIN list[n].dims \subseteq Nat

VARIABLES
  question,   \* what is asked
  attempt,    \* the attempt at parsing that is made, 0 when there is none
  intent,     \* what it was parsed to
  hints,      \* the priors that were read
  compiled    \* the plan, or the error that ended the run

cvars == <<question, attempt, intent, hints, compiled>>

NoIntent == [metric |-> NoValue]
Pending  == [error |-> "pending", plan |-> NoPlan]

CompilationInit ==
  /\ question \in Questions
  /\ attempt = 1
  /\ intent = NoIntent /\ hints = <<>> /\ compiled = Pending

(* The parsing ends the run with an error.                                 *)
Refuse(code) ==
  /\ attempt' = 0
  /\ compiled' = NotPlanned(code)
  /\ UNCHANGED <<question, intent, hints>>

RefuseBlank == attempt = 1 /\ question.blank /\ Refuse("PARSE_FAILED")

IsAnswered(answer) ==
  attempt > 0 /\ ~question.blank /\ answer \in Answers(question)

(* The answer is of no use, and there are attempts left.                   *)
AskAgain(answer) ==
  /\ IsAnswered(answer)
  /\ IsAskedAgain(question, answer.code) /\ attempt < MaxAttempts
  /\ attempt' = attempt + 1
  /\ UNCHANGED <<question, intent, hints, compiled>>

(* The answer is an error, the last one or one that is believed.           *)
AnswerIsFinal(answer) ==
  /\ IsAnswered(answer) /\ answer.code # NoError
  /\ ~(IsAskedAgain(question, answer.code) /\ attempt < MaxAttempts)
  /\ Refuse(FinalCode(answer.code))

(* The answer is an intent, which the metric service refuses               *)
ServiceRefuses(answer) ==
  /\ IsAnswered(answer) /\ answer.code = NoError
  /\ ServiceError(question, IntentOf(answer)) # NoError
  /\ Refuse(ServiceError(question, IntentOf(answer)))

(* or returns.                                                             *)
Parse(answer) ==
  /\ IsAnswered(answer) /\ answer.code = NoError
  /\ ServiceError(question, IntentOf(answer)) = NoError
  /\ attempt' = 0
  /\ intent' = ServedIntent(question, IntentOf(answer))
  /\ UNCHANGED <<question, hints, compiled>>

IsParsed == intent # NoIntent /\ compiled = Pending

ReadPriors ==
  /\ IsParsed
  /\ hints = <<>>
  /\ hints' \in HintLists \ {<<>>}
  /\ UNCHANGED <<question, attempt, intent, compiled>>

CompilePlan ==
  /\ IsParsed
  /\ compiled' = Compile(intent, hints, Budget)
  /\ UNCHANGED <<question, attempt, intent, hints>>

CompilationNext ==
  \/ RefuseBlank
  \/ \E answer \in Answers(question) :
       \/ AskAgain(answer)
       \/ AnswerIsFinal(answer)
       \/ ServiceRefuses(answer)
       \/ Parse(answer)
  \/ ReadPriors
  \/ CompilePlan

CompilationSpec == CompilationInit /\ [][CompilationNext]_cvars

-------------------------------------------------------------------------------
(* Properties.                                                             *)

WasCompiled == intent # NoIntent /\ compiled # Pending
Compiled == compiled.error = NoError
DimsOf(plan, kind) == {a.dim : a \in {b \in ToSet(plan.actions) : b.kind = kind}}
Unhinted == Compile(intent, <<>>, Budget)

(* The rows of evidence that a plan gathers.                               *)
Gathered(plan) == {a.produces : a \in ToSet(Front(plan.actions))}

(* No evidence is gathered in vain: every dimension that is drilled is     *)
(* also explained, by a signal and a contribution of that dimension, and   *)
(* the rank comes last and requires all that was gathered, so that no      *)
(* conclusion is drawn from a part of it.                                  *)
NothingGatheredInVain ==
  Compiled =>
    LET plan == compiled.plan
        drilled == DimsOf(plan, "drilldown_dimension")
    IN  /\ drilled = DimsOf(plan, "calculate_contribution")
        /\ drilled = DimsOf(plan, "fetch_related_signal")
        /\ Last(plan.actions).kind = "rank_root_causes"
        /\ ToSet(Last(plan.actions).requires) = Gathered(plan)

(* The statements of a plan are answered in full.  What the query          *)
(* specification accepts, the renderer renders, the guard and the gates of *)
(* the repository admit and the database can execute, though each has      *)
(* white lists of its own; a tool runs as many of them as it reports to    *)
(* the query budget; and no LIMIT cuts a baseline of four days short.  Or  *)
(* the tool stops before its first statement, at a dimension that is not   *)
(* allowed or that the campaign facts do not have: it never stops between  *)
(* its own statements and those of the factors.                            *)
StatementsAreAnswered ==
  Compiled =>
    \A a \in ToSet(compiled.plan.actions) :
      /\ Len(SpecsOf(a)) = SqlCost(a)
      /\ IF DimensionsAllowed(a) /\ Renderable(a)
         THEN \A spec \in ToSet(SpecsOf(a)) : IsAnsweredInFull(spec)
         ELSE ~(IsQuerySpec(SpecsOf(a)[1]) /\ Renders(SpecsOf(a)[1]))

(* What a plan sets out to do it can do, and it all counts.                *)
PlansCarryThrough == NothingGatheredInVain /\ StatementsAreAnswered

(* The pair of an intent and its filters name two values of a dimension.   *)
ContradictsItself ==
  /\ intent.dim \in DOMAIN intent.filters /\ intent.element # NoValue
  /\ intent.filters[intent.dim] # intent.element

(* What the user named is what is planned, whatever the model answered on  *)
(* whichever attempt: the metric, the day of the run for a question about  *)
(* a relative day, and each value of a dimension, which some action of the *)
(* plan is about or restricted to.  A model that leaves a named value out, *)
(* or gives it to another dimension, gets no plan.  (One that contradicts  *)
(* itself about a dimension does: the service is content with the pair,    *)
(* and the compiler may plan by the filters alone.)                        *)
NothingAskedIsIgnored ==
  Compiled /\ ~ContradictsItself =>
    LET plan == compiled.plan
        about(d, v) == \E a \in ToSet(plan.actions) :
          \/ a.dim = d /\ a.element = v
          \/ d \in DOMAIN a.filters /\ a.filters[d] = v
    IN  /\ question.metric \in {NoValue, plan.metric}
        /\ plan.date \in PastDays
        /\ BindsRunDay(question) => plan.date = RunDay
        /\ \A d \in DOMAIN question.scope : about(d, question.scope[d])

(* The drilldowns of a plan, each with its place.                          *)
DrilledBy(plan) ==
  {<<n, plan.actions[n]>> :
     n \in {m \in DOMAIN plan.actions : plan.actions[m].kind = "drilldown_dimension"}}

(* Both compilations have a plan, with the same question.                  *)
SameQuestion(hinted, plain) ==
  /\ hinted.error = NoError
  /\ hinted.plan.scope = plain.plan.scope
  /\ hinted.plan.mode = plain.plan.mode
  /\ hinted.plan.actions[1] = plain.plan.actions[1]
  /\ DrilledBy(hinted.plan) = DrilledBy(plain.plan)
  /\ hinted.plan.mode # "unscoped" => hinted = plain

(* Memory never breaks a compilation, and never touches the question: the  *)
(* scope, the scope mode, the anomaly check and the drilldowns, their      *)
(* filters and their places, are those of the plan without hints; a scoped *)
(* plan is not changed at all.                                             *)
MemoryKeepsTheQuestion ==
  (WasCompiled /\ Unhinted.error = NoError) => SameQuestion(compiled, Unhinted)

(* "Memory hits may only influence drilldown priority": a hinted plan has  *)
(* the actions of the plan without hints, possibly in another order.  The  *)
(* code drops the declared lanes of the policy, and with them evidence.    *)
MemoryOnlyReorders ==
  WasCompiled =>
    /\ compiled.error = Unhinted.error
    /\ {a.produces : a \in ToSet(compiled.plan.actions)}
         = {a.produces : a \in ToSet(Unhinted.plan.actions)}
===============================================================================
