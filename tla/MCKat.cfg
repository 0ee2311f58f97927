CONSTANTS
  Names <- MCNames
  Count = 3
  Buffered = 4
  MaxRuns = 2
  MaxFaults = 3
SPECIFICATION Spec
CHECK_DEADLOCK FALSE
INVARIANTS KnownAnswers NoStringTwice ExitStatusIsRight
