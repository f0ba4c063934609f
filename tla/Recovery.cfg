SPECIFICATION Spec
CONSTANTS
  k1 = k1  k2 = k2  v1 = v1  v2 = v2
  Absent = Absent
  Keys = {k1, k2}
  Values = {v1}
  Scenarios <- SafeScenarios
  MaxRecords = 3
SYMMETRY DataAlike
INVARIANTS TypeOK ProcessCrashSafe PowerLossSafe SnapshotReadable OffsetWithinWal
