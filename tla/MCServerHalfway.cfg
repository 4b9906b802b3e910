CONSTANTS
    Clients = {c1, c2, c3}
    Names <- JustQ
    Garbage <- freed
    GetOptions <- OpenOrTake
    Removals = {"flush"}
    Faults = {}
    MaxQueues = 2
    MaxChunks = 1
    MaxItems = 2
    MaxChunkIds = 0
    Chunk <- OneByte
    CompactAt = 0
    MaxPath = 2
    Poller = c1
SPECIFICATION Spec
PROPERTY HalfwayItemAppears
