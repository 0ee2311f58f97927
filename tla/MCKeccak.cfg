CONSTANTS
  Chunks <- MCChunks
  Ends <- MCEnds
  Takes <- MCTakes
  MaxXors = 2
  MaxCalls = 2
SPECIFICATION KeccakSpec
CHECK_DEADLOCK FALSE
INVARIANTS SqueezedInOrder
PROPERTIES RefinesFips202
