SPECIFICATION QSpec
CONSTANTS
  Threads = {t1, t2}
  NoThread = NoThread
  Readers = {q1}
  MaxIndex = 3
  Base = 2
  Word = 8
  Reordered = TRUE
  MaxFaults = 1
  FaultKinds = {"store", "crash"}
INVARIANTS
  QTypeOK
  RemainingNeverOverstated
