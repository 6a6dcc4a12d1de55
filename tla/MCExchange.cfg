CONSTANTS
    Half = 2
    PaddingBuffer = 6
    DataLen <- MCDataLen
    PadLen <- MCPadLen
    MaxChunks = 3
    BytesPerChunk = 4
    ChunksPerElement = 2
    Character = {"a", "0", "-", ".", "c", "s", "x", "breaker", "payload"}
    MaxLabel = 7
    MaxResponseBody = 11
    Page <- MCPage
    ServerURL <- MCServerURL
    CacheAddr <- MCCacheAddr
    Direct = Direct
    ResponseBytes = 12
    RequestBytes = 1
SPECIFICATION ExchangeSpec
INVARIANTS ReadsWhatWasWritten CutIsNoticed  ResponseComplete RequestArrives
CHECK_DEADLOCK FALSE
