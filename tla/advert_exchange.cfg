SPECIFICATION Spec
CONSTANTS
  Key = {"k1", "k2"}
  Nobody = Nobody
  TimestampModulus = 8
  Drafts <- Assorted
  MaxNow = 1
  MaxOnAir = 2
  MaxGarbled = 1
INVARIANTS
  TypeOK
  IntactIsAccepted
  AcceptedWasSigned
  AcceptedSaysWhatWasDrafted
  VerifyConfirms
CHECK_DEADLOCK FALSE
