SPECIFICATION AheadSpec
CONSTANTS
  Server = {s1, s2, s3}
  Calls = {c1}
  Command = {x1, x2, x3}
  Nil = Nil
  Old = s1
  New = s2
  Voter = s3
  X1 = x1
  X2 = x2
  ApplyChCap = 0
  MaxElections = 3
  MaxRestarts = 0
  MaxApply = 2
  MaxCompact = 2
VIEW View
INVARIANTS
  LogMatching
  StateMachineSafety
  SnapshotPending
  DeliveredInOrder
PROPERTIES
  AbsSpec
CHECK_DEADLOCK FALSE
