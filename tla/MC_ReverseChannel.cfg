CONSTANTS
    SeqMod = 16
    MaxPayload = 2
    BlpBits = 1
    MaxNackEntries = 1
    RetentionMs = 1
    MaxFrames = 2
    Window = 4
    MaxRequests = 1
    MinReorder = 1
    MaxReorder = 2
    ReversePackets = 1
    PliMinIntervalMs = 1
    kRttPendingMax = 2
    kRttWindow = 1
    FirstSeq = 14
    Frames <- MCFrames
    MaxRestarts = 1
    MaxReceived = 4
    MaxErrors = 1
    MaxClock = 2
SPECIFICATION ReverseSpec
INVARIANTS RetransmitIsOriginal CacheServes AskedOfItsSender RttIsExactAtFirst
PROPERTY KeyFrameLossReported
