SPECIFICATION Spec
CONSTANTS
  Slots = 2
  Pieces = 2
  Readers = {r1}
  WakeRange = 5
  MaxFrames = 4
CHECK_DEADLOCK FALSE
INVARIANTS
  TypeOK
  NoTornFrame
  WholeUnlessLapped
  Retained
  NoLostWakeup
