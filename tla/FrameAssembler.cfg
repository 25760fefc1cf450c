SPECIFICATION Spec
CONSTANTS
    IdMod = 18
    SeqMod = 32
    MaxPending = 2
    Frags = 2
    First = 15
    Last = 19
    Ahead = 2
    Back = 2
    MaxPackets = 7
    MaxStrays = 1
INVARIANTS DeliveredWhole DeliveredOnce TableIsAhead FramesAccounted LossNotOverstated
