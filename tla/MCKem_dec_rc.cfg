CONSTANTS
  Slots = {s1}
  Seeds = {seedA}
  NoSeed = NoSeed
  FreshSeeds = TRUE
  PK_LEN = 240
  SK_LEN = 368
  CT_LEN = 224
  SS_LEN = 16
  Unlucky = {4}
  Diffs = {1, 127, 128, 255}
  HALF = 32768
  MaxDraws = 5
  MaxDecs = 1
  MaxFaults = 2
SPECIFICATION Spec
CHECK_DEADLOCK FALSE
PROPERTIES DecReportsFailure
