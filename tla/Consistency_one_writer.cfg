SPECIFICATION CSpec
CONSTANTS
  Workers = {w1}
  Readers = {r1}
  Identities = {alice, bob}
  PublicKeys = {k1}
  MaxEntries = 4
  MaxFailures = 2
  MaxRestarts = 1
INVARIANTS
  AcknowledgedHeadIsComplete
  VersionsReconstruct
  RefusalsAreExplained
  ProofResponsesVerify
  ReadersTypeOK
  NoFalseInconsistency
PROPERTIES
  HeadNeverShrinks
SYMMETRY Symmetry
CHECK_DEADLOCK FALSE
