CONSTANTS
    Clients = {c1, c2}
    Names <- JustQ
    Garbage <- freed
    GetOptions <- Reliable
    Removals = {}
    Faults = {"crash"}
    MaxQueues = 1
    MaxChunks = 1
    MaxItems = 3
    MaxChunkIds = 0
    Chunk <- OneByte
    CompactAt = 0
    MaxPath = 2
    Poller = c1
SPECIFICATION PollSpec
PROPERTY ItemsDelivered
