SPECIFICATION Spec
CONSTANTS
  Batches <- Columns
  Calls <- AllFunctions
  MaxOffset = 3
INVARIANTS
  TypeOK
  ViewsAgree
PROPERTY ImplementsReport
CHECK_DEADLOCK FALSE
