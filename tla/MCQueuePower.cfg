CONSTANTS
    Producers = {p1}
    Consumers = {c1}
    Chunk <- MCChunk
    MaxChunks = 2
    MaxItems = 2
    MaxChunkIds = 3
    CompactAt = 3
    Faults = {"power", "io"}
SPECIFICATION Spec
INVARIANTS BodyIntact SyncedSurvives
