SPECIFICATION Safety
CONSTANTS
  Authors = {a1, a2}
  Beat = Beat
  Receive = Receive
  Nobody = Nobody
  Streams = {s1}
  Transports = {"ordered"}
  RingCounts = {0}
  MaxCalls = 2
  MaxMessages = 2
  MaxBeats = 1
CHECK_DEADLOCK FALSE
INVARIANTS
  NoStreamAfterEnd
