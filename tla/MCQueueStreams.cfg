CONSTANTS
    Producers = {p1, p2}
    Consumers = {c1, c2}
    Chunk <- MCChunk
    MaxChunks = 2
    MaxItems = 3
    MaxChunkIds = 4
    CompactAt = 3
    Faults = {}
SPECIFICATION Spec
SYMMETRY Symmetry
INVARIANTS TypeOK SoleOwner CountIsItems BodyIntact NoLeakedChunk ReadsWhatWasPushed
