CONSTANTS
    Producers = {p1}
    Consumers = {c1, c2}
    Chunk <- MCChunk
    MaxChunks = 2
    MaxItems = 3
    MaxChunkIds = 4
    CompactAt = 0
    Faults = {"crash", "io"}
SPECIFICATION Spec
SYMMETRY Symmetry
INVARIANTS IndInv NoItemStranded BodyIntact ReadsWhatWasPushed
PROPERTY ImplementsReliableQueue
