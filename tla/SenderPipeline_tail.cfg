CONSTANTS
    RawCap = 1
    SendCap = 1
    MaxFrames = 2
SPECIFICATION Spec
INVARIANT NoTailLoss
