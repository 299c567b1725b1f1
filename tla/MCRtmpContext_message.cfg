\* A conforming client that plays or publishes; frames of one and two chunks.
SPECIFICATION Spec
CONSTANTS
  InChunkSize = 1
  OutChunkSize = 2
  BigLen = 3
  AckSize = 20
  SendBatch = 2
  ExtTs = 3
  TsByte = 4
  Timestamps = {1, 5}
  MaxFrames = 3
  MaxPings = 1
  MaxSplits = 2
  None = None
INVARIANTS
  MessagesAsSent
  SendingIsBusy
  BytesCountedOnce
  RequestAnswered
PROPERTY ChannelSpec
CHECK_DEADLOCK FALSE
