\* The multiplexers, the time stamps, the buffer, the commands and HTTP.
SPECIFICATION Spec
CONSTANTS
    MinFragment = 0
    MaxFragment = 2
    MaxPayload = 1400
    SeqSize = 65536
    Times <- MCTimes
    kMaxDelta = 100
    kDefaultVideoDelta = 40
    kDefaultAudioDelta = 20
    MaxPackets = 6
    Byte = {0, 1}
    kBufferOffset = 1
    InitialCap = 2
    ExtSize = 2
    MaxUnread = 4
    MaxWrite = 2
    Values <- MCValues
    Commands <- MCCommands
    MaxValues = 3
    Packets <- MCPackets
    MaxFeed = 5
    Roles = {"server", "client", "poster"}
    Messages <- MCMessages
    HeadLen = 6
    MaxBody = 8
    MaxLine = 4
    SockRoom = 3
    Frames = 2
    TsWrap = 2
    MaxMessages = 2
    MaxCuts = 3
    None = None
INVARIANTS FragmentPlays NalsReassemble TimelineKept CommandsDecode
           RequestsAsSent ParseReturns AnswersWhole AnswersComplete
PROPERTY IsByteQueue
CHECK_DEADLOCK FALSE
