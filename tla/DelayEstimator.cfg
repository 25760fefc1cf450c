CONSTANTS
    TargetDelayMs = 3
    WindowMs = 5
    DelayPercentile = 75
    FloorPercentile = 25
    MinDelayMs = 9
    MaxDelayMs = 2
    DownRateMsPerSec = 800
    MinSamples = 2
    FrameDeltaWindow = 3
    TsMod = 32
    Offsets = {1, 3, 6}
    Pauses = {1, 2, 6}
    Rtts = {0, 1, 12}
    FirstMs = 26
    LastMs = 40
SPECIFICATION EstimatorSpec
INVARIANTS WithinLimits FallsSlowly CoversWindow
