SPECIFICATION Spec
CONSTANTS
  Server = {s1, s2, s3}
  MaxCalls = 2
  None = None
  SMInit <- RecordInit
  DoOp <- Record
  Reply <- RecordReply
  MaxTerm = 2
  MaxRestarts = 1
SYMMETRY Symmetry
VIEW View
INVARIANTS
  StateMatchesLog
  NoWaiterForgotten
PROPERTY OneService
CHECK_DEADLOCK FALSE
