\* One run whose id is used twice, with every failure and crash.
CONSTANTS
  Runs = {r1}
  MaxCalls = 2
  MaxTraced = 2
SPECIFICATION FairSpec
INVARIANTS
  SuccessIsDurable
  TraceIsNumbered
  LessonsAreEarned
PROPERTIES
  ImplementsRunLifecycle
  CallsReturn
CHECK_DEADLOCK FALSE
