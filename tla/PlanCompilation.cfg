\* Every question and answer, with and without memory hints.
CONSTANTS
  Values <- MCValues
  PastDays <- MCPastDays
  RunDay = "friday"
  Questions <- MCQuestions
  Answers <- MCAnswers
  HintLists <- MCHintLists
  Budget <- MCBudget
SPECIFICATION CompilationSpec
INVARIANTS
  PlansCarryThrough
  NothingAskedIsIgnored
  MemoryKeepsTheQuestion
CHECK_DEADLOCK FALSE
