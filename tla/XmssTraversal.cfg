SPECIFICATION Spec
CONSTANTS
  Params <- SmallParams
INVARIANTS
  StackStaysInBounds
  TypeOK
  SignaturesVerify
  UpperKeysSignRoots
CHECK_DEADLOCK FALSE
