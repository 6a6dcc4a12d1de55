CONSTANTS
    g1 = g1
    g2 = g2
    Poll = {g1, g2}
    None = None
    Size <- MCSize
    IdLen = 1
    Prefix = 1
    MaxPayload = 5
    MaxConc = 2
    Burst = 1
    QueueSize = 1
    MaxPackets = 3
SPECIFICATION FairSpec
INVARIANTS SemaphoreCounts SentInOrder PayloadBounded
PROPERTIES SlowModeAlone KeepsPolling CloseStops
