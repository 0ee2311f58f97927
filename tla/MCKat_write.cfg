CONSTANTS
  Names <- MCNames
  Count = 3
  Buffered = 4
  MaxRuns = 1
  MaxFaults = 1
SPECIFICATION Spec
CHECK_DEADLOCK FALSE
INVARIANT SavedWhenReported
