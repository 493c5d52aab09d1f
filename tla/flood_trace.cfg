SPECIFICATION Spec
CONSTANTS
  MaxPathBytes = 64
  MaxPayloadBytes = 184
  Node = {"a", "b", "c"}
  Neighbours <- Line
  KeyOf <- Keys
  Offers <- DefaultSizeTrace
  MaxSent = 1
  MaxFaults = 0
  MaxRemains = 0
INVARIANTS
  SentDigestIsFrameDigest
CHECK_DEADLOCK FALSE
