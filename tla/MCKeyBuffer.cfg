SPECIFICATION Spec
CONSTANTS
    Keys <- MCKeys
    MaxKeys = 4
INVARIANTS
    TypeOK
    PopOwnsSlot
PROPERTIES
    ImplementsFifo
    GetchReturns
