SPECIFICATION FairSpec
CONSTANTS
  t1 = t1  t2 = t2  t3 = t3
  Loop = Loop
  Threads = {t1, t2}
  Ops = {"Set", "SaveSnapshot", "WaitForCheckpoints"}
  MayThrow = {}
  kShardCount = 1
  kSnapshotInterval = 1
  MaxCalls = 3
PROPERTY StoreCallsReturn
