SPECIFICATION Spec
CONSTANTS
    Inputs <- MCInputs
    Chunks <- MCChunks
    Blocks <- MCBlocks
    ReturnCodes <- MCReturnCodes
    HeapStart = 1
    MaxMemory = 32
    MAX_HINT_BUFFER_WORDS = 2
    OutputCap = 8
    PublicBytes = 12
    HeapLimit = 20
    MaxOutput = 8
INVARIANTS
    HintsStayInBlock
PROPERTIES
    Implements
