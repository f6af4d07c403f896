SPECIFICATION Spec
CONSTANTS
    HeapStart = 2
    HeapEnd = 8
    AddrSpace = 25
    MainSizes <- MCMainSizes
    IrqSizes <- MCIrqSizes
INVARIANT ZeroedOnReturn
CHECK_DEADLOCK FALSE
