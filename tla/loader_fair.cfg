SPECIFICATION FairSpec
CONSTANTS
  Copies = {"page", "widget"}
  MaxCalls = 2
  Deadline = 3
INVARIANTS
  TypeOK
  OneInstance
  ApiIsLive
PROPERTY LoadSettles
CHECK_DEADLOCK FALSE
