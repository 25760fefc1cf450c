CONSTANTS
    IdMod = 8
    ExtMod = 64
    SoftLimit = 2
    HardLimitConfig = 3
    StartOnKeyFrame = TRUE
    First = 4
    KeyFrames = {5, 8}
    Reorder = 3
    MaxPushes = 7
SPECIFICATION Spec
INVARIANT EveryFrameCounted
PROPERTIES DeliveredInOrder ImplementsStream
