SPECIFICATION Spec
CONSTANTS
    HintStreams <- MCHintStreams
    Chunks <- MCChunks
    Blocks <- MCBlocks
    ReturnCodes <- MCReturnCodes
    HeapStart = 1
    InputRegionStart = 48
    MaxMemory = 64
    PV_BUF_INITIAL_CAP = 2
    HeapLimit = 15
    MaxOutput = 6
INVARIANTS
    MemoryIntact
PROPERTIES
    WritesReturn
    Implements
