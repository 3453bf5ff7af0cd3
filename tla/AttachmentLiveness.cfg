SPECIFICATION Spec
CONSTANTS
  MaxCalls = 1
  MaxFrames = 3
  Buffer = 1
CHECK_DEADLOCK FALSE
PROPERTIES
  NeverHeldUp
  ReturnTellsAll
