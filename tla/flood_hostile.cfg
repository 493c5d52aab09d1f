SPECIFICATION Spec
CONSTANTS
  MaxPathBytes = 64
  MaxPayloadBytes = 184
  Node = {"a", "b", "c"}
  Neighbours <- Triangle
  KeyOf <- Keys
  Offers <- Hostile
  MaxSent = 1
  MaxFaults = 1
  MaxRemains = 253
INVARIANTS
  AirIsCanonical
  PathIsTrail
  LoopFree
  CutNeverForges
  StopsOnlyWhenFull
PROPERTY Delivers
CHECK_DEADLOCK FALSE
