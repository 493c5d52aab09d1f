SPECIFICATION Spec
CONSTANTS
  MaxPathBytes = 64
  MaxPayloadBytes = 184
  ChannelHashOf <- Hashes
  Me = "me"
  KeyOf <- Keys
  Messages <- Everything
  Decoders <- SomeDecoders
  MaxSent = 1
  MaxCut = 12
INVARIANTS
  TypeOK
  ReadIsWritten
  SealedStaysSealed
  DecodersGetTheirKind
  FittingContextReads
CHECK_DEADLOCK FALSE
