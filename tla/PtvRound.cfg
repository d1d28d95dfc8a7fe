CONSTANTS
  Rounds <- MCRounds
  Preparations <- MCPreparations
  Rows <- MCRows
  Sound = {"p"}
  Evals <- MCEvals
  Diagnoses <- MCDiagnoses
  Selectable <- MCSelectable
  MaxStages = 2
  MaxDiagnoses = 2
SPECIFICATION FairSpec
INVARIANTS
  ConfirmedCommitStands
  VerifiedIsAsJudged
PROPERTIES
  StageIsABarrier
CHECK_DEADLOCK FALSE
