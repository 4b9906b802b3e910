CONSTANTS
    Clients = {c1, c2}
    Names <- QAndQ0
    Garbage <- freed
    GetOptions <- OnlyOpen
    Removals = {"delete", "flush_all"}
    Faults = {"crash", "stop"}
    MaxQueues = 3
    MaxChunks = 1
    MaxItems = 1
    MaxChunkIds = 0
    Chunk <- OneByte
    CompactAt = 0
    MaxPath = 2
    Poller = c1
SPECIFICATION Spec
SYMMETRY Symmetry
INVARIANTS OneJournalEach ItemsReachable
