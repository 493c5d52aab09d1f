SPECIFICATION Spec
CONSTANTS
  MaxPathBytes = 64
  MaxPayloadBytes = 184
  ChannelHashOf <- Hashes
  Me = "me"
  KeyOf <- Keys
  Messages <- Everything
  Decoders <- SomeDecoders
  MaxSent = 1
  MaxCut = 0
INVARIANT ReadmeContextReads
CHECK_DEADLOCK FALSE
