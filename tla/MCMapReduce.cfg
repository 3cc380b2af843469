CONSTANTS
  NMap = 2
  NReduce = 2
  x1 = x1
  x2 = x2
  x3 = x3
  Word = {x1, x2, x3}
  Emits <- MCEmits
  Bucket <- MCBucket
  Worker = {w1, w2, w3}
  MaxCrashes = 2
  MaxSlow = 1
  None = None
SPECIFICATION FairSpec
INVARIANTS
  JobOutput
  DoneTaskHasFiles
  NoMissingInput
PROPERTY JobFinishes
CHECK_DEADLOCK FALSE
