SPECIFICATION Spec
CONSTANTS
  Absent = Absent
  Space = " "
  Keys <- MCKeys
  Values <- MCValues
  Upper <- MCUpper
  Bytes <- MCBytes
  Lines <- MCLines
  InitialFiles <- MCInitialFiles
  kMaxRecordLength = 6
  kRecordOverhead = 2
  kMaxSnapshotFieldLength = 6
  MaxSequence = 4
  MaxGeneration = 3
  SavesBehindTail = FALSE
  MaxLines = 3
  MaxStops = 2
  MaxFaults = 1
CHECK_DEADLOCK FALSE
INVARIANTS TypeOK AppendsAreReachable OffsetAgrees SnapshotLoads ShownValueReenters Remembered
