SPECIFICATION Spec
CONSTANTS
  Workers = {w1, w2}
  Identities = {alice}
  PublicKeys = {k1}
  MaxEntries = 2
  MaxFailures = 0
  MaxRestarts = 0
INVARIANTS
  HeadIsCurrentWhenIdle
CHECK_DEADLOCK FALSE
