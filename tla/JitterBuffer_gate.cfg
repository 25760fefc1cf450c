CONSTANTS
    IdMod = 8
    ExtMod = 64
    SoftLimit = 1
    HardLimitConfig = 0
    StartOnKeyFrame = TRUE
    First = 6
    KeyFrames = {7}
    Reorder = 1
    MaxPushes = 5
SPECIFICATION Spec
PROPERTY GateHolds
