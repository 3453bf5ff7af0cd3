SPECIFICATION SpecReading
CONSTANTS
  MaxCalls = 1
  MaxFrames = 1
  Buffer = 1
CHECK_DEADLOCK FALSE
PROPERTIES
  GoneTellsReaders
