SPECIFICATION Spec
CONSTANTS
  k1 = k1  k2 = k2  v1 = v1  v2 = v2
  Absent = Absent
  Keys = {k1}
  Values = {v1, v2}
  Scenarios <- CrashThenPowerLoss
  MaxRecords = 2
SYMMETRY DataAlike
INVARIANT ProcessCrashSafe
