SPECIFICATION Spec
CONSTANTS
  r1 = r1  r2 = r2  r3 = r3  wide = wide  big = big
  Requests = {r1, r2, r3, wide, big}
  RecordLength <- MCRecordLength
  Policies = {"Buffered", "Sync", "GroupCommit"}
  max_batch_ = 2
  max_delay_us_ = 20
  kMaxRecordLength = 32
  MaxSequence = 4
SYMMETRY SmallOnesAlike
INVARIANTS TypeOK AckedReplayable ExitLeavesNoWaiter BatchBounded
PROPERTIES FailStop ImplementsCommitLog
