SPECIFICATION FairSpec
CONSTANTS
  Server = {s1, s2, s3}
  Calls = {c1}
  Command = {x1}
  Nil = Nil
  ApplyChCap = 0
  MaxElections = 1
  MaxRestarts = 0
  MaxApply = 1
  MaxCompact = 1
PROPERTIES
  CatchUp
CHECK_DEADLOCK FALSE
