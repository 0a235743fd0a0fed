CONSTANTS
    t1 = t1
    t2 = t2
    Threads <- TwoThreads
    PerWindow = 1
    Window = 1
    Period = 2
    Retries = 1
    MaxRequests = 2
    MaxTime = 2
    UploadRetries = 0
    MaxEdits = 0
    Streams = {u1, u2}
    TicksPerSecond = 2
    MaxTicks = 0
    ChunkSizes = {1, 4}
SPECIFICATION TransportSpec
PROPERTIES
    ResentUnderAnother
