\* Two clients share a loop; one of them makes a second request.
SPECIFICATION FairSpec
CONSTANTS
  c1 = c1
  c2 = c2
  c3 = c3
  Clients = {c1, c2, c3}
  HttpClients = {c2}
  Shared = {c1, c2}
  Repeaters = {c1}
  MaxRequests = 2
  MaxSessions = 2
  Timer = Timer
  None = None
  Free = Free
INVARIANTS SessionsConsistent RelockNeedsSecondRequest
PROPERTY ClosingEnds
CHECK_DEADLOCK FALSE
