CONSTANTS
  Slots = {s1, s2}
  Seeds = {seedA}
  NoSeed = NoSeed
  FreshSeeds = TRUE
  PK_LEN = 240
  SK_LEN = 368
  CT_LEN = 224
  SS_LEN = 16
  Unlucky = {4}
  Diffs = {1, 127, 128, 255}
  HALF = 32768
  MaxDraws = 6
  MaxDecs = 2
  MaxFaults = 2
SYMMETRY BufferSymmetry
ACTION_CONSTRAINT MixingOrFaults
SPECIFICATION Spec
CHECK_DEADLOCK FALSE
INVARIANTS TypeOK Agreement DrawsSeparate DrawsAccounted DrawsInv HistoryInv SecretBinding ImplicitRejection
PROPERTIES RefinesIdealKem
