SPECIFICATION MCSpec
CONSTANTS
  Questions <- MCQuestions
  Truths <- MCTruths
  Evaluations <- MCEvaluations
INVARIANTS
  OnlySignalsOrCoverageRefute
  CausesAreSound
  JudgementsAreEarned
CHECK_DEADLOCK FALSE
