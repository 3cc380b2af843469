CONSTANTS
  Client = {c1}
  Key = {k1}
  Empty = Empty
  None = None
  NilState = NilState
  Gid = {1, 2}
  N = 2
  Key2Shard <- KeyShard
  Controller = {a}
  MaxNum = 3
  MaxFaults = 0
  MaxOps = 2
  WalkShards = 2
  WalkGid = {1}
  MaxWalk = 0
SPECIFICATION MCSafe
PROPERTY GetsAreCurrent
CHECK_DEADLOCK FALSE
