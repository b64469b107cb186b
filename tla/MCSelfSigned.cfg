SPECIFICATION Spec
CONSTANT Documents <- Messages
INVARIANT SelfSignedMeansOwnReference
CHECK_DEADLOCK FALSE
