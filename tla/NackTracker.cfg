CONSTANTS
    SeqMod = 16
    Window = 4
    MaxRequests = 2
    Tolerances = {1, 2}
    KeyPackets = {17}
    First = 13
    Last = 19
    Ahead = 5
    MaxResets = 1
SPECIFICATION Spec
INVARIANTS GapsAreExact EveryGapSettled
PROPERTY RequestsPaced
