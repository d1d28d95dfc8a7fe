CONSTANTS
  Seeders = {s1, s2}
  ProgramTables = {"agent_run", "memory_record"}
  Schemas <- MCSchemas
  Days = 3
  BatchSize = 2
  MaxTries = 2
  MaxRows = 1
  ShockTypes = {"traffic", "other"}
  SecondaryDimensions = {"geo"}
  Inputs <- MCInputs
  MaxCompiles = 2
  N = 2
  Concurrency = 2
  MaxAttempts = 2
  MaxProcesses = 2
  Cycles <- MCCycles
  MaxExports = 2
SPECIFICATION MCSpec
INVARIANTS
  DataIsOfOneSeed
  LabelsFitTheData
  ManifestVouches
  EvaluationIsTrue
  ExamplesAreEarned
  DatasetIsWhole
PROPERTIES
  SuccessRebuilds
CHECK_DEADLOCK FALSE
