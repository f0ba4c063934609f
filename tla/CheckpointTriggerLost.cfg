SPECIFICATION Spec
CONSTANTS
  t1 = t1  t2 = t2  t3 = t3
  Loop = Loop
  Threads = {t1, t2}
  Ops = {"Set", "SaveSnapshot"}
  MayThrow = {"SaveSnapshot"}
  kShardCount = 1
  kSnapshotInterval = 2
  MaxCalls = 4
INVARIANT TriggerNotLost
