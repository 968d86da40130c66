SPECIFICATION CFairSpec
CONSTANTS
  Workers = {w1, w2}
  Readers = {}
  Identities = {alice}
  PublicKeys = {k1}
  MaxEntries = 2
  MaxFailures = 0
  MaxRestarts = 0
PROPERTIES
  EntriesEventuallyCommitted
CHECK_DEADLOCK FALSE
