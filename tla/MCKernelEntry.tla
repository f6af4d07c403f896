--------------------------- MODULE MCKernelEntry ---------------------------
\* Two places and two stack pointers, so that registers restored from the
\* wrong frame show; a key buffer that fills after two keys.
EXTENDS KernelEntry

MCRips == {"r1", "r2"}
MCUserStacks == {"u1", "u2"}
=============================================================================
