SPECIFICATION Spec
CONSTANTS
    Lines <- MCLines
    Ms = 2
INVARIANTS
    TypeOK
    NothingLeftInService
    SleepLength
PROPERTIES
    EoiRetiresOwn
    EveryRequestDelivered
    SleepReturns
\* A vector without a handler stops the machine.
CHECK_DEADLOCK FALSE
