CONSTANTS
    L = L
    g1 = g1
    Loop = L
    Poller = {g1}
    SlowRate = 1
    MinRate = 2
    MaxRate = 3
    Burst = 4
    RoI = 1
    MaxTime = 3
    MaxErrors = 2
SPECIFICATION LimiterSpec
INVARIANTS SlowModeIsSlow
