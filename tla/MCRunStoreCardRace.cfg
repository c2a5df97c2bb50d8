SPECIFICATION Spec
CONSTANTS
  Up = up
  Deletes = {d1}
  Edits = {}
  Cards = {c1}
  Reads = {}
  d1 = d1
  c1 = c1
  Throws = FALSE
  LostAnswers = FALSE
SYMMETRY Symmetry
CHECK_DEADLOCK FALSE
INVARIANTS
  NoOrphans
