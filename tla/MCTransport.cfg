SPECIFICATION Spec
CONSTANTS
  Inputs <- WireValues
  MAX_INFLATED = 3
INVARIANTS
  TypeOK
  AcceptsExactlyTheSupportedShapes
  InflatedOutputIsWhole
PROPERTY Terminates
CHECK_DEADLOCK FALSE
