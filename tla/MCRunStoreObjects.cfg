SPECIFICATION FairSpec
CONSTANTS
  Up = up
  Deletes = {d1}
  Edits = {e1}
  Cards = {c1}
  Reads = {r1}
  d1 = d1
  e1 = e1
  c1 = c1
  r1 = r1
  Throws = TRUE
  LostAnswers = TRUE
INVARIANTS
  TypeOK
  RowHasObjects
  OnlyFaultsLeaveObjects
PROPERTIES
  ImplementsPublishedRun
  NeverListedNeverShown
  FeedCatchesUp
