CONSTANTS
  Nonces = {"a", "b"}
  NoNonce = "none"
  MODULUS = 16
  BYTE = 4
  DIGEST = 8
  OUTLEN = 2
  WORD = 1024
  DfNonce <- MCDfNonce
  RawNonce <- MCRawNonce
  DfPadded <- MCDfPadded
  Sha3Padded <- MCSha3Padded
  Old = Old
  BUF = 5
  Requests = {0, 8, 21}
  MaxCalls = 3
  MaxFailures = 1
SPECIFICATION Spec
CHECK_DEADLOCK FALSE
INVARIANT SuccessMeansSeeded
