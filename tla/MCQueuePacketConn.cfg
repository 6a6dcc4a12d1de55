CONSTANTS
    a1 = a1
    q1 = q1
    q2 = q2
    w1 = w1
    r1 = r1
    f1 = f1
    c1 = c1
    c2 = c2
    None = None
    Addr = {a1}
    Chan = {q1, q2}
    Writer = {w1}
    Reader = {r1}
    Feeder = {f1}
    Closer = {c1, c2}
    QueueSize = 1
    Timeout = 2
    MaxHold = 1
    MaxTime = 4
SPECIFICATION FairSpec
INVARIANTS NoPanic HeldQueueIsLive
PROPERTIES FailsAfterClose CloseUnblocks
