CONSTANTS
    Section <- MCSection
    Slots = 2
    FsbufSize = 170
    Reach = 200
    Free = {60, 140, 186}
SPECIFICATION Spec
INVARIANTS TypeOK ReadFollowsPeek ReadSucceeds FilesAreLocals
CHECK_DEADLOCK FALSE
