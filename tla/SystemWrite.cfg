\* Ten attempts, as the repository has it.
CONSTANT MaxAttempts = 10
SPECIFICATION FairSpec
INVARIANTS
  AcknowledgedIsStored
  FailureIsExact
PROPERTIES
  Returns
  ImplementsStoredOnce
CHECK_DEADLOCK FALSE
