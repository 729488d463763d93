SPECIFICATION Spec
CONSTANTS
    Inputs <- MCInputs
    Chunks <- MCChunks
    ReturnCodes <- MCReturnCodes
    INPUT_HEADER = 8
    LenBytes = 8
    OutputCap = 32
    MAX_OUTPUT_SLOTS = 2
    MappedSlots = 4
    MaxOutput = 8
INVARIANTS
    SlotsInRange
PROPERTIES
    Implements
