SPECIFICATION Spec
CONSTANT Documents <- Messages
INVARIANTS
  TypeOK
  ConsumerVerifierAgreement
PROPERTIES
  OnlyGrows
  ImplementsVerdict
CHECK_DEADLOCK FALSE
