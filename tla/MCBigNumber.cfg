CONSTANTS
  BYTE = 2
  LEN = 3
SPECIFICATION NumberSpec
CHECK_DEADLOCK FALSE
INVARIANTS Accounting IncAddsOne PlusAddsAll
