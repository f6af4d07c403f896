CONSTANTS
    Key <- MCKey
    Blank <- MCBlank
    Command <- MCCommand
    Size = 4
    Newline = "newline"
    Backspace = "backspace"
    Space <- MCSpace
    Printable <- MCPrintable
    Capacity = 2
    Columns = 2
    FirstRow = 0
    FrameRows = 1
    MappedRows = 2
    RowCap = 2
    ColCap = 3
    HeapSize = 6
    BufferSize = 2
    AnswerSize = 1
SPECIFICATION TerminalSpec
INVARIANT EchoInFrame
\* The machine stops at a fault.
CHECK_DEADLOCK FALSE
