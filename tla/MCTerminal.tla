----------------------------- MODULE MCTerminal -----------------------------
EXTENDS Terminal

MCKey == {"p", " ", "backspace", "escape"}
MCBlank == {" "}
MCCommand == <<"p", "p">>
MCSpace == " "
MCPrintable == {"p", " "}
=============================================================================
