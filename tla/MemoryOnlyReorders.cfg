\* The documented limit of what memory may do, which the code exceeds.
CONSTANTS
  Values <- MCValues
  PastDays <- MCPastDays
  RunDay = "friday"
  Questions <- MCQuestions
  Answers <- MCAnswers
  HintLists <- MCHintLists
  Budget <- MCBudget
SPECIFICATION CompilationSpec
INVARIANTS
  MemoryOnlyReorders
CHECK_DEADLOCK FALSE
