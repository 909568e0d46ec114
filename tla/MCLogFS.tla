------------------------------ MODULE MCLogFS ------------------------------
\* The instances of LogFS that TLC checks.  Blocks of two bytes make every
\* position in a block a boundary; the lengths appended end anywhere, fill one or
\* two blocks, and cover the empty append (the value of a tombstone of kvdb.c);
\* reads touch one, two or three blocks.
EXTENDS LogFS

MCBlkSz      == 2
MCAppendLens == {0, 3, 4}
MCReadLens   == {0, 3}
=============================================================================
