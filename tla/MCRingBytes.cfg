CONSTANTS
  N = 128
  LOGQ = 13
  LOGP = 11
  RATE = 168
  Bitlens = {1, 3, 7, 8, 13, 16}
  ACC = 32
  Requests <- MCRequests
  Garbage = Garbage
SPECIFICATION RingSpec
CHECK_DEADLOCK FALSE
INVARIANTS InOrder NothingIsLost RoundTrip FreshCoefficients
