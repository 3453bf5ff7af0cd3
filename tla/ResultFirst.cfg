SPECIFICATION HarnessSafety
CONSTANTS
  MaxCalls = 1
  MaxFrames = 2
  Buffer = 1
  MaxDirectives = 2
CHECK_DEADLOCK FALSE
INVARIANTS
  ResultFirst
