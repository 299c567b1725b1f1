\* A socket that is full when an answer is posted.
SPECIFICATION HttpSpec
CONSTANTS
  Roles = {"server", "client", "poster"}
  Messages <- MCMessages
  HeadLen = 6
  MaxBody = 8
  MaxLine = 4
  SockRoom = 3
  Frames = 2
  TsWrap = 2
  MaxMessages = 2
  MaxCuts = 3
  None = None
INVARIANT NothingStray
CHECK_DEADLOCK FALSE
