SPECIFICATION FairSpec
CONSTANTS
    RawCap = 1
    SendCap = 1
    MaxFrames = 3
INVARIANTS SentIsPrefix PliHonoured CleanEnd AbortIsReported
PROPERTY Terminates
