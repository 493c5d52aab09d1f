SPECIFICATION Spec
CONSTANTS
  Key = {"k1", "k2"}
  Nobody = Nobody
  TimestampModulus = 8
  Drafts <- BlankEnd
  MaxNow = 0
  MaxOnAir = 1
  MaxGarbled = 0
INVARIANTS
  ValidIsConfirmed
CHECK_DEADLOCK FALSE
