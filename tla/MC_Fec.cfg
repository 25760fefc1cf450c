CONSTANTS
    SeqMod = 16
    MaxPayload = 3
    GroupSize = 3
    MinGroupSize = 2
    RecentPackets = 3
    FirstSeq = 15
    Lengths <- MCLengths
    MaxRestarts = 1
    MaxRetransmits = 1
SPECIFICATION FecSpec
INVARIANTS RecoveredIsOriginal OneLossIsRecovered RecentIsOfPeer
