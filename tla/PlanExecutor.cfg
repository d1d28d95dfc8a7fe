\* The executor on every plan the compiler makes, with all faults.
CONSTANTS
  Plans <- MCPlans
  CoherentPlans <- MCCoherentPlans
SPECIFICATION FairSpec
INVARIANTS
  LedgerIsAudit
  BudgetHonoured
  SuccessIsComplete
  EvidenceIsTraced
  CompiledPlansNeverMisfire
  LanesAreIsolated
PROPERTIES
  ImplementsPlanRun
  Terminates
CHECK_DEADLOCK FALSE
