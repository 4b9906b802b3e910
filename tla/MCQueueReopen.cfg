CONSTANTS
    Producers = {p1}
    Consumers = {c1}
    Chunk <- OneChunk
    MaxChunks = 2
    MaxItems = 2
    MaxChunkIds = 2
    CompactAt = 3
    Faults = {"crash"}
SPECIFICATION ReopenSpec
INVARIANT ReopensAnyJournal
