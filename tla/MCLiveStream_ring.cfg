\* One RTMP player that lags, skips and is overrun, while codec headers change.
SPECIFICATION Spec
CONSTANTS
  p1 = p1
  p2 = p2
  Players = {p1}
  Local = {}
  FlvPlayers = {}
  BufferSize = 2
  BatchSize = 3
  ContentLatency = 1
  NotifyAlways = 2
  NotifyEvery = 2
  Kinds = {"audio_header", "video_header", "key"}
  Timestamps = {1, 4}
  MaxPackets = 5
  NoPacket = NoPacket
  Free = Free
INVARIANTS PlayersInOrder GapsAreSkips JoinsAtKeyFrame DecoderConfigured
PROPERTY FeedSpec
CHECK_DEADLOCK FALSE
