CONSTANTS
  N = 3
  Concurrency = 2
  MaxAttempts = 2
  MaxProcesses = 2
SPECIFICATION FairSpec
INVARIANTS
  OneRunAtATime
  ServerIsNotOverrun
  SummaryHasItsRows
PROPERTIES
  ImplementsEvalInOrder
  Ends
CHECK_DEADLOCK FALSE
