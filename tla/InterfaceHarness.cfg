SPECIFICATION HarnessSpec
CONSTANTS
  MaxCalls = 2
  MaxFrames = 2
  Buffer = 1
  MaxDirectives = 3
CHECK_DEADLOCK FALSE
INVARIANTS
  HarnessTypeOK
  OpenIsRead
PROPERTIES
  DirectivesReturn
  ObserversTold
