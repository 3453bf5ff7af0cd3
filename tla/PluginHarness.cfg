SPECIFICATION Spec
CONSTANTS
  MaxStarts = 3
  MaxDirectives = 2
  MaxEvents = 1
  MaxSaid = 2
CHECK_DEADLOCK FALSE
INVARIANTS
  HarnessTypeOK
  EndIsReported
  ObservedIsAnswerable
  StartsReachable
PROPERTIES
  Leaves
