CONSTANTS
    IdMod = 16
    ExtMod = 32
    SoftLimit = 1
    HardLimitConfig = 0
    StartOnKeyFrame = TRUE
    ACap = 1
    BCap = 1
    Sent = 3
    Streams = {{1}, {1, 3}}
    FrameLimit = 3
SPECIFICATION FairSpec
INVARIANT NothingLeftInside
PROPERTIES DecoderChain ShownInOrder StopReturns
