\* Plans whose scope is narrowed by a second filter: the renderer has no
\* column for it.
CONSTANTS
  Plans <- MCTwiceScopedPlans
  CoherentPlans <- MCCoherentPlans
SPECIFICATION Spec
INVARIANTS
  FailuresAreTyped
CHECK_DEADLOCK FALSE
