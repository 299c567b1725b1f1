\* A window of two fragments and one client.
SPECIFICATION Spec
CONSTANTS
  r1 = r1
  r2 = r2
  Readers = {r1}
  WindowSize = 2
  ListSize = 2
  MinListed = 2
  MinFragment = 1
  MaxFragment = 1
  Dts = {0, 1, 2}
  MaxFragments = 5
  MaxPackets = 2
  None = None
INVARIANT ServedAsAsked
PROPERTY PlaylistReliable
CHECK_DEADLOCK FALSE
