SPECIFICATION FairSpec
CONSTANTS
  t1 = t1  t2 = t2  t3 = t3  a = a  b = b  p = p
  k1 = k1  k2 = k2  v1 = v1  v2 = v2
  Absent = Absent
  Threads = {t1, t2, t3}
  Stores = {a, b, p}
  Keys = {k1, k2}
  Values = {v1, v2}
  Uncopyable = {p}
  Logging = {a}
  kShardCount = 2
  MaxCalls = 1
  Shard <- MCShard
  CallsOf <- MCCallsOf
  InitialData <- MCInitialData
CHECK_DEADLOCK FALSE
INVARIANTS TypeOK SeenWalStays
PROPERTIES ActsAtomically CallsReturn
