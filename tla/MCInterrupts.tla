---------------------------- MODULE MCInterrupts ----------------------------
\* The timer, the keyboard, two lines of the slave, and line 7, on which the
\* controller reports a request that went away.
EXTENDS Interrupts

MCLines == {0, 1, 7, 12, 14}
=============================================================================
