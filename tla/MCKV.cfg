SPECIFICATION FairAppSpec
CONSTANTS
  Client = {c1, c2}
  Key = {k1}
  Value = {v1}
  None = None
  Empty = Empty
  SMInit <- NewStore
  DoOp <- After
  Reply <- Answer
  ServerCounts = {1, 2}
  MaxTroubles = 1
  MaxOps = 3
  MaxPuts = 1
  Name = k1
  MaxRounds = 2
VIEW View
INVARIANTS
  CheckPutConcurrent
  MutualExclusion
PROPERTIES
  Linearizable
  OperationsReturn
  LockHandedOver
  AcquireReturns
CHECK_DEADLOCK FALSE
