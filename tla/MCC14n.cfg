SPECIFICATION Spec
CONSTANT Inputs <- MCInputs
INVARIANTS
  TypeOK
  BindingsInForce
  LiftInvariance
  NamesSurvive
PROPERTY ImplementsVerdict
CHECK_DEADLOCK FALSE
