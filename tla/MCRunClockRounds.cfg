SPECIFICATION Spec
CONSTANTS
  Lanes = {l1, l2}
  l1 = l1
  l2 = l2
  LastRound = 2
  MinTokens = 1
  MaxTokens = 1
  HasClock = TRUE
  GraceArmed = FALSE
  MultiRound = TRUE
SYMMETRY LaneSymmetry
INVARIANTS
  StopsAreExplained
PROPERTIES
  ImplementsRun
