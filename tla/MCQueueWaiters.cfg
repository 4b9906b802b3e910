CONSTANTS
    Producers = {p1}
    Consumers = {c1, c2, c3}
    Chunk <- OneChunk
    MaxChunks = 1
    MaxItems = 3
    MaxChunkIds = 0
    CompactAt = 3
    Faults = {}
SPECIFICATION LiveSpec
INVARIANT NoLostWakeup
PROPERTY WaiterServed
