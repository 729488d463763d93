SPECIFICATION SpecGuest
CONSTANTS
    MaxLength32 = 9
    Addr <- MCAddr
    Before <- MCBefore
    Calls <- MCCalls
INVARIANTS
    AccessesAllowed
PROPERTIES
    Implements
