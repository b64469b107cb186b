SPECIFICATION Spec
CONSTANT Documents <- Messages
INVARIANTS
  TypeOK
  FirstRowIsDecoded
  ViewsAgree
PROPERTIES
  FieldsSettle
  ImplementsReport
CHECK_DEADLOCK FALSE
