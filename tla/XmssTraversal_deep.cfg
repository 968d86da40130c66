SPECIFICATION Spec
CONSTANTS
  Params <- DeepParams
INVARIANTS
  SignaturesVerify
CHECK_DEADLOCK FALSE
