SPECIFICATION Spec
CONSTANTS
  Server = {s1, s2, s3}
  Calls = {c1, c2}
  Command = {x1}
  Nil = Nil
  ApplyChCap = 0
  MaxElections = 2
  MaxRestarts = 1
  MaxApply = 0
  MaxCompact = 0
SYMMETRY Symmetry
VIEW View
INVARIANTS
  ElectionSafety
  ElectionInv
PROPERTIES
  VoteKept
CHECK_DEADLOCK FALSE
