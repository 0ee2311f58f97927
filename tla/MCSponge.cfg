CONSTANTS
  R = 4
  DIGEST = 3
  MaxIn = 10
  MaxOut = 10
SPECIFICATION FairSpec
CHECK_DEADLOCK FALSE
INVARIANTS TypeOK MessageIsAbsorbed OutputIsStream
PROPERTY CallsReturn
