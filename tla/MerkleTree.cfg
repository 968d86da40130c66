SPECIFICATION Spec
CONSTANTS
  Data = {a, b}
  MaxLeaves = 5
INVARIANTS
  RootMatchesReference
  InclusionProofsComplete
  InclusionProofsSound
  RootAndSizeBindLeaves
  ConsistencyProofsComplete
  ConsistencyProofsSound
CHECK_DEADLOCK FALSE
