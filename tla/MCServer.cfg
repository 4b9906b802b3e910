CONSTANTS
    Clients = {c1, c2}
    Names <- JustQ
    Garbage <- freed
    GetOptions <- AllOptions
    Removals = {"flush", "delete"}
    Faults = {}
    MaxQueues = 2
    MaxChunks = 2
    MaxItems = 2
    MaxChunkIds = 2
    Chunk <- OneByte
    CompactAt = 0
    MaxPath = 2
    Poller = c1
SPECIFICATION Spec
SYMMETRY Symmetry
INVARIANTS ServerTypeOK ItemHeldOnce ItemsReachable ChunksOwned OneCallback StaysUp
