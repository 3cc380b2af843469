SPECIFICATION DivergedFairSpec
CONSTANTS
  Server = {s1, s2, s3}
  Calls = {c1}
  Command = {x1, x2}
  Nil = Nil
  Old = s1
  New = s2
  Voter = s3
  X1 = x1
  X2 = x2
  ApplyChCap = 0
  MaxElections = 4
  MaxRestarts = 0
  MaxApply = 0
  MaxCompact = 0
VIEW View
INVARIANTS
  LeaderCompleteness
PROPERTIES
  LeaderAppendOnly
  CatchUp
CHECK_DEADLOCK FALSE
