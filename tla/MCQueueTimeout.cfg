CONSTANTS
    Producers = {p1}
    Consumers = {c1, c2}
    Chunk <- OneChunk
    MaxChunks = 1
    MaxItems = 2
    MaxChunkIds = 0
    CompactAt = 3
    Faults = {}
SPECIFICATION LiveSpec
PROPERTY TimeoutAtDeadline
