CONSTANTS
  Client = {c1}
  Key = {k1}
  Empty = Empty
  None = None
  NilState = NilState
  Gid = {1, 2}
  N = 2
  Key2Shard <- KeyShard
  Controller = {a, b}
  MaxNum = 3
  MaxFaults = 1
  MaxOps = 1
  WalkShards = 12
  WalkGid = {1, 2, 3, 4}
  MaxWalk = 6
SPECIFICATION MCSpec
VIEW View
INVARIANTS
  OneOwnerUnlessSkipped
  PutsKeptUnlessSkipped
  NamesOwnerUnlessSkipped
  CheckConfig
PROPERTIES
  AnswersAreTrue
  OnlyNeededMoves
  ChangeCompletes
  OperationsReturn
CHECK_DEADLOCK FALSE
