\* Two runs that share memory.
CONSTANTS
  Runs = {r1, r2}
  MaxCalls = 1
  MaxTraced = 1
SPECIFICATION ServedSpec
INVARIANT LessonsComeFromSuccesses
CHECK_DEADLOCK FALSE
