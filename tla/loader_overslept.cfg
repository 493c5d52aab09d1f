SPECIFICATION Spec
CONSTANTS
  Copies = {"page"}
  MaxCalls = 1
  Deadline = 2
PROPERTY NotRegisteredIsTrue
CHECK_DEADLOCK FALSE
