CONSTANTS
  W = 4096
  INV3 = 2731
  INV9 = 3641
  INV15 = 3823
  Quart = 2
  Operands <- MCOperands
  Starts <- MCStarts
SPECIFICATION Spec
CHECK_DEADLOCK FALSE
INVARIANTS TypeOK ProductsAreExact RightModuloQ
