SPECIFICATION FairSpec
CONSTANTS
  t1 = t1  t2 = t2  t3 = t3
  Loop = Loop
  Threads = {t1, t2}
  Ops = {"Set", "ClearPersistence", "SaveSnapshot", "Clear", "WaitForCheckpoints"}
  MayThrow = {"Set", "Loop"}
  kShardCount = 2
  kSnapshotInterval = 1
  MaxCalls = 4
INVARIANT TriggerNotLost
PROPERTIES OnlyCancelledWaitsHang CheckpointServed LoopJoins
