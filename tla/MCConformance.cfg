SPECIFICATION Spec
CONSTANTS
    StemA = StemA
    StemB = StemB
    StemC = StemC
    Good = Good
    Bad = Bad
    Right = Right
    Wrong = Wrong
    NoBytes = NoBytes
    BadHex = BadHex
    Fixtures <- MCFixtures
    Guests <- MCGuests
    Leftovers <- MCLeftovers
INVARIANTS
    ExitZeroIffAllMatch
    
