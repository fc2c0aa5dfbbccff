SPECIFICATION Spec
CONSTANTS
  Options <- TextsAndFiles
  Sizes = {1}
  Locks = {1}
  MaxLocks = 2
  MaxTransfers = 2
  InvalidSize = 9
  MaxFile = 2
  ReadMax = 2
INVARIANT TextVerified
CHECK_DEADLOCK FALSE
