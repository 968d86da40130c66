SPECIFICATION CSpec
CONSTANTS
  Workers = {w1, w2}
  Readers = {r1}
  Identities = {alice}
  PublicKeys = {k1}
  MaxEntries = 3
  MaxFailures = 1
  MaxRestarts = 0
INVARIANTS
  TypeOK
  SignedRootsAreSound
  AcknowledgedEntriesAreCommitted
  VersionsHaveNoGaps
  ProofResponsesVerify
  ConsistencyResponsesVerify
PROPERTIES
  HeadVersionNeverRegresses
  ImplementsTransparencyLog
SYMMETRY Symmetry
CHECK_DEADLOCK FALSE
