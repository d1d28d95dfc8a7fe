CONSTANTS
  r1 = r1
  r2 = r2
  r3 = r3
  Runs <- MCRuns
  Question <- MCQuestion
  Modes <- MCModes
  Seeds <- MCSeeds
  Suite = FALSE
  MaxTime = 2
SPECIFICATION Spec
INVARIANTS
  PriorsAreSound
  ViewIsOfItsTime
CHECK_DEADLOCK FALSE
