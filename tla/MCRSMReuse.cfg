SPECIFICATION ReuseSpec
CONSTANTS
  S = s
  F = f
  G = g
  H = h
  I = i
  Server = {s, f, g, h, i}
  MaxCalls = 6
  None = None
  SMInit <- RecordInit
  DoOp <- Record
  Reply <- RecordReply
  MaxTerm = 4
  MaxRestarts = 1
INVARIANT ResultIsOwn
CHECK_DEADLOCK FALSE
