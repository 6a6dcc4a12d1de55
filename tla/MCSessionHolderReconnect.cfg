CONSTANTS
    a1 = a1
    a2 = a2
    k1 = k1
    k2 = k2
    NoSession = NoSession
    Closed = Closed
    Attempt = {a1, a2}
    Conn = {k1, k2}
SPECIFICATION FairHolder
PROPERTIES Reconnects
CHECK_DEADLOCK FALSE
