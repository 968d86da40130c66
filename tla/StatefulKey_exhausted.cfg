SPECIFICATION Spec
CONSTANTS
  Threads = {t1}
  NoThread = NoThread
  MaxIndex = 3
  MaxFaults = 0
  FaultKinds = {}
INVARIANTS
  ExhaustedKeyNeverSigns
