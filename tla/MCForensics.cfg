SPECIFICATION ForensicsSpec
CONSTANTS
  Names = {"alice", "mallory"}
  IssuedNames = {"alice"}
  MaxEdits = 4
  Documents <- IssuedMessages
INVARIANTS
  TrustedSubject
  SplitSubjectsAreFlagged
PROPERTIES
  CommentsLeaveDigests
CHECK_DEADLOCK FALSE
