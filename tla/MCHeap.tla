------------------------------- MODULE MCHeap -------------------------------
\* A heap of six bytes.  Sizes: none, small, the largest that fits, and one so
\* large that heap_current + size wraps around.
EXTENDS Heap

MCMainSizes == {0, 1, 2, 5, AddrSpace - 3}
MCIrqSizes == {1, 2}
=============================================================================
