SPECIFICATION FairSpec
CONSTANTS
  MaxPathBytes = 64
  MaxPayloadBytes = 184
  Plans <- TextPlans
  HashSize = 2
  RandomBytes = {9}
INVARIANTS
  TypeOK
  AckConfirmsText
  TextIsFromItsWriter
  LearnedPathLeads
PROPERTY TextGetsThrough
CHECK_DEADLOCK FALSE
