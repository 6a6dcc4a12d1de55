CONSTANTS
    c1 = c1
    q1 = q1
    q2 = q2
    q3 = q3
    None = None
    Client = {c1}
    Chan = {q1, q2, q3}
    QueueSize = 1
    Timeout = 2
    KeepAlive = 1
    MaxSess = 3
    MaxFresh = 1
SPECIFICATION FairSpec
INVARIANTS SessionHasSender QueueIsRead
PROPERTIES HealthySessionStays GoneSessionRemoved
