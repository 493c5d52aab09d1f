SPECIFICATION FairSpec
CONSTANTS
  MaxPathBytes = 64
  MaxPayloadBytes = 184
  Node = {"a", "b", "c"}
  Neighbours <- Line
  KeyOf <- Keys
  Offers <- Fair
  MaxSent = 3
  MaxFaults = 0
  MaxRemains = 0
INVARIANTS
  TypeOK
  AcceptedOnce
  DigestIsContent
PROPERTY EveryoneHears
CHECK_DEADLOCK FALSE
