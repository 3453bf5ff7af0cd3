SPECIFICATION Safety
CONSTANTS
  MaxCalls = 2
  MaxFrames = 2
  Buffer = 2
CHECK_DEADLOCK FALSE
INVARIANTS
  TypeOK
  UniqueCalls
  CancelFollowsRequest
  NoFrameLost
  QueuesGivenBack
