\* A player on the publisher's loop and an HTTP-FLV player on its own.
SPECIFICATION FairSpec
CONSTANTS
  p1 = p1
  p2 = p2
  Players = {p1, p2}
  Local = {p1}
  FlvPlayers = {p2}
  BufferSize = 2
  BatchSize = 1
  ContentLatency = 1
  NotifyAlways = 2
  NotifyEvery = 2
  Kinds = {"meta", "key"}
  Timestamps = {1}
  MaxPackets = 3
  NoPacket = NoPacket
  Free = Free
PROPERTY PlayersServed
CHECK_DEADLOCK FALSE
