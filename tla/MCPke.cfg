CONSTANTS
  Quarter = 512
  Q = 8192
  Halves = {4, 128}
  Step <- MCStep
  N = 4
  K = 3
  ELL = 2
  As <- MCAs
  Ss <- MCSs
  Messages <- MCMessages
  Accs <- MCAccs
  Noises <- MCNoises
SPECIFICATION Spec
CHECK_DEADLOCK FALSE
INVARIANTS TypeOK ProductsAreRight NoiseIsBounded DecodesInWindow WindowIsExact FusedAgrees
