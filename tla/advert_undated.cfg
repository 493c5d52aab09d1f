SPECIFICATION Spec
CONSTANTS
  Key = {"k1", "k2"}
  Nobody = Nobody
  TimestampModulus = 8
  Drafts <- Undated
  MaxNow = 1
  MaxOnAir = 1
  MaxGarbled = 0
INVARIANTS
  SignedIsAccepted
CHECK_DEADLOCK FALSE
