SPECIFICATION QSpec
CONSTANTS
  Threads = {t1}
  NoThread = NoThread
  Readers = {q1}
  MaxIndex = 3
  Base = 2
  Word = 8
  Reordered = FALSE
  MaxFaults = 0
  FaultKinds = {}
INVARIANTS
  RemainingIsAvailable
