SPECIFICATION FairSpec
CHECK_DEADLOCK FALSE
CONSTANTS
  MaxPathBytes    = 64
  MaxPayloadBytes = 184
  ChannelHashOf   <- PageChannels
  NoPoint         <- PageNoPoint
  LowOrder        <- PageLowOrder
  Nobody          = Nobody
  UintModulus     <- Modulus
  PublicBytes     <- PageKeys
  Checksum        <- PageChecksum
  Plans           <- PagePlans
  RandomByte      = 255
INVARIANTS
  TypeOK
  AcknowledgedWasRead
  ReadOnlyWithItsKeys
  TextFollowsTheWay
  SnrAlongRoute
  ReadIsAsked
PROPERTIES
  AnswersReachTheWriter
  TraceEnds
