CONSTANTS
    Clients = {c1, c2}
    Names <- JustQ
    Garbage <- freed
    GetOptions <- Reliable
    Removals = {}
    Faults = {}
    MaxQueues = 1
    MaxChunks = 2
    MaxItems = 3
    MaxChunkIds = 2
    Chunk <- OneByte
    CompactAt = 0
    MaxPath = 2
    Poller = c1
SPECIFICATION PollSpec
PROPERTY ItemsDelivered
