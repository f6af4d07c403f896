SPECIFICATION Spec
CONSTANTS
    HeapStart = 2
    HeapEnd = 8
    AddrSpace = 25
    MainSizes <- MCMainSizes
    IrqSizes <- MCIrqSizes
INVARIANTS
    TypeOK
    OwnedDisjoint
    DataIntact
    MaskedZeroed
    FaultNeedsRace
\* PageFault stops the machine.
CHECK_DEADLOCK FALSE
