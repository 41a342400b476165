CONSTANTS
  Malformed = Malformed
  Files <- MCFiles
  Gaps = {0, 1, 3}
  Samples = {0, 2}
  EndTimes = {0, 4}
  MaxArrivals = 4
SPECIFICATION Spec
INVARIANT ReplaysTheFile
PROPERTY ImplementsArrivalStream
CHECK_DEADLOCK FALSE
