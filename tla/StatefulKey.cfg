SPECIFICATION Spec
CONSTANTS
  Threads = {t1, t2}
  NoThread = NoThread
  MaxIndex = 3
  MaxFaults = 1
  FaultKinds = {"lock", "early", "late", "store", "export", "crash"}
INVARIANTS
  TypeOK
  OneTimeKeysHandedOutOnce
  SignaturesVerify
PROPERTIES
  ImplementsOneTimeKeys
  MutexComesFree
CHECK_DEADLOCK FALSE
