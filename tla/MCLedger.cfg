SPECIFICATION Spec
CONSTANTS
  Runs = {r1, r2, c1}
  Old = {o1}
  Chats = {c1}
  Tables = {t1, t2}
  Forced = {t2}
  Late = {t2}
  Columns = 3
  r1 = r1
  r2 = r2
  c1 = c1
  o1 = o1
  t1 = t1
  t2 = t2
  Faults = TRUE
  MayRemove = TRUE
SYMMETRY Symmetry
INVARIANTS
  TypeOK
  RowsAreOfSavedBenchmarks
  RebuildRestoresAll
  SavedRunsAreListed
