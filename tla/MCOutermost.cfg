SPECIFICATION Spec
CONSTANT Documents <- Messages
INVARIANT FirstRowIsOutermost
CHECK_DEADLOCK FALSE
