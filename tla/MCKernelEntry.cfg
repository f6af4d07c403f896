SPECIFICATION Spec
CONSTANTS
    Rips <- MCRips
    UserStacks <- MCUserStacks
    MaxWaiting = 2
INVARIANTS
    TypeOK
    NoIrqOnUserStack
    UserResumes
PROPERTY SyscallReturns
