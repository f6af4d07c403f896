---------------------------- MODULE MCKeyBuffer ----------------------------
\* Two keys and four slots: the buffer fills, wraps around several times, and
\* the order of the keys can be told apart.
EXTENDS KeyBuffer

MCKeys == {1, 2}
=============================================================================
