CONSTANTS
    s1 = s1
    s2 = s2
    r1 = r1
    r2 = r2
    Nobody = Nobody
    Sender = {s1, s2}
    Receiver = {r1, r2}
    WindowBits = 2
    MaxNonce = 3
SPECIFICATION SessionSpec
SYMMETRY Symmetry
INVARIANTS NoReplay NonceUsedOnce WindowTracksSent
PROPERTIES ImplementsFilter
