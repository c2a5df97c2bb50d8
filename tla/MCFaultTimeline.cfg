SPECIFICATION Spec
CONSTANTS
  Lanes = {l1, l2}
  l1 = l1
  l2 = l2
  LastRound = 2
  MaxTokens = 3
  Fault = {f1}
  f1 = f1
  Server = server
  server = server
  Child = {c1}
  c1 = c1
  Modes <- AllModes
  MaxSamples = 2
SYMMETRY Symmetry
INVARIANTS
  TypeOK
  EveryFaultIsCountedOnce
  SplitIsTheLastFirstToken
  IdleFaultsEnterNoTurn
  SamplesFrameTheRun
