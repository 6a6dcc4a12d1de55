CONSTANTS
    a1 = a1
    a2 = a2
    k1 = k1
    NoSession = NoSession
    Closed = Closed
    Attempt = {a1, a2}
    Conn = {k1}
    StreamWindow = 1
    SocketBuffer = 1
SPECIFICATION FairStreams
INVARIANTS OnePollingConn LiveSessionIsWatched StreamComplete
PROPERTIES ReconnectsUnlessLost HandlersReturn
CHECK_DEADLOCK FALSE
