SPECIFICATION FairSpec
CONSTANTS
  Lanes = {l1, l2}
  l1 = l1
  l2 = l2
  LastRound = 1
  MinTokens = 1
  MaxTokens = 2
  HasClock = TRUE
  GraceArmed = TRUE
  MultiRound = FALSE
INVARIANTS
  TypeOK
  CutRespectsFloor
  BudgetNeverFailsTheRun
PROPERTIES
  StoppedRunsReturn
  BudgetEndsTheRun
