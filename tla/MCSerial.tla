------------------------------ MODULE MCSerial ------------------------------
EXTENDS Serial

MCDirective == [left : BOOLEAN, lz : BOOLEAN, alt : BOOLEAN, width : {0, 2, 6},
                conv : {"d", "u", "x", "s"}]
MCArgument == {-128, -9, 0, 7, 10, 99, 127}
MCString == {<<>>, <<65, 66, 67>>}
MCKernelAddr == {0} \cup 16 .. 19
MCUserAddr == 32 .. 35
MCPrintSize == 0 .. 19
=============================================================================
