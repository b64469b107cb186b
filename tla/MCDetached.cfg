SPECIFICATION Spec
CONSTANT Documents <- Messages
INVARIANT DetachedOnlyOutside
CHECK_DEADLOCK FALSE
