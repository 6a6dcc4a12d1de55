CONSTANTS
    g1 = g1
    g2 = g2
    Poll = {g1, g2}
    None = None
    Caches = 2
    Threshold = 3
    Window = 2
    ErrThreshold = 3
    CoolBetween = 2
    BackoffInit = 3
    BackoffMax = 10
    ExitSuccesses = 2
SPECIFICATION PollSpec
INVARIANTS BackoffDoubles
PROPERTIES  SlowModeNotProlonged RotationMostlyEarned
