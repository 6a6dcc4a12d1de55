CONSTANTS
    h1 = h1
    h2 = h2
    Handler = {h1, h2}
    None = None
    Size <- MCSize
    MaxPayload = 3
    QueueSize = 2
    MaxIn = 1
    MaxPackets = 5
SPECIFICATION FairSpec
INVARIANTS AtMostOnce ResponseBounded InOrderWhileAlone
 
