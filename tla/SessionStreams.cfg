SPECIFICATION Safety
CONSTANTS
  Authors = {a1, a2}
  Beat = Beat
  Receive = Receive
  Nobody = Nobody
  Streams = {s1}
  Transports = {"ordered", "ring"}
  RingCounts = {2}
  MaxCalls = 2
  MaxMessages = 2
  MaxBeats = 1
SYMMETRY AuthorSymmetry
CHECK_DEADLOCK FALSE
INVARIANTS
  TypeOK
  EndIsLast
  SessionInv
  NeverOrphaned
  ClosedMeansAsked
  UniqueIds
  Contiguous
PROPERTIES
  AnswersTrue
