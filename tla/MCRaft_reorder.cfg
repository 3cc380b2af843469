SPECIFICATION AheadSpec
CONSTANTS
  Server = {s1, s2, s3}
  Calls = {c1, c2}
  Command = {x1, x2, x3}
  Nil = Nil
  Old = s1
  New = s2
  Voter = s3
  X1 = x1
  X2 = x2
  ApplyChCap = 0
  MaxElections = 2
  MaxRestarts = 1
  MaxApply = 1
  MaxCompact = 1
VIEW View
INVARIANTS
  TypeOK
  DurableUpToDate
  MatchIndexSound
  IndicesOrdered
PROPERTIES
  AbsSpec
CHECK_DEADLOCK FALSE
