SPECIFICATION Spec
CONSTANT Documents <- Messages
INVARIANTS
  TypeOK
  RowNamesOneElement
PROPERTIES
  EverySignatureReported
  ImplementsReport
CHECK_DEADLOCK FALSE
