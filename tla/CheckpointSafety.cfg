SPECIFICATION Spec
CONSTANTS
  t1 = t1  t2 = t2  t3 = t3
  Loop = Loop
  Threads = {t1, t2, t3}
  Ops = {"Set", "ClearPersistence", "SaveSnapshot", "CompactPersistence", "LoadSnapshot", "Clear", "ReplayFromWal", "WaitForCheckpoints"}
  MayThrow = {"Set", "ClearPersistence", "SaveSnapshot", "CompactPersistence", "LoadSnapshot", "ReplayFromWal", "Loop"}
  kShardCount = 2
  kSnapshotInterval = 2
  MaxCalls = 5
SYMMETRY ThreadsAlike
INVARIANTS TypeOK CaptureExclusive NoStaleCheckpoint
PROPERTY SnapshotNeverOlder
