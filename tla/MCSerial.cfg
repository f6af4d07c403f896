CONSTANTS
    TypeWidth = 4
    Unroll = 2
    Wrap = 64
    LowPage = 4
    Modulus = 256
    KernelAddr <- MCKernelAddr
    UserAddr <- MCUserAddr
    PrintSize <- MCPrintSize
    Directive <- MCDirective
    Argument <- MCArgument
    Text <- MCString
    Line = {0, 90, 107}
    DebugSize = 6
    Fifo = 2
SPECIFICATION SerialSpec
INVARIANTS CopiesExactly SendsText
PROPERTY SerialReturns
\* One call of sys_print or of debug.
CHECK_DEADLOCK FALSE
