SPECIFICATION Spec
CONSTANTS
  c1 = c1 c2 = c2 c3 = c3
  Calls = {c1, c2, c3}
  MaxAttempts = 3
  MaxRestarts = 1
  NoRecord = NoRecord
INVARIANTS CallsAreSound TrueMeansDelivered
PROPERTIES SkippedOnceRecorded
CHECK_DEADLOCK FALSE
