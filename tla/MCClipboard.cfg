SPECIFICATION Spec
CONSTANTS
  Options <- Correct
  Sizes = {1}
  Locks = {1}
  MaxLocks = 2
  MaxTransfers = 2
  InvalidSize = 9
  MaxFile = 2
  ReadMax = 2
INVARIANTS AssertionsHold FileVerified TextVerified RejectedKept RecordingOwned VerdictExpected ResponseCompleted
CHECK_DEADLOCK FALSE
