----------------------------- MODULE MCAvlStore -----------------------------
\* The instances of AvlStore that TLC checks, in bytes divided by eight: a node has
\* five units, struct state three, and a word with its NUL two.
EXTENDS AvlStore

MCWords    == 1 .. 4
MCMaxCount == [w \in MCWords |-> IF w = 2 THEN 2 ELSE 1]
MCWordLen  == [w \in MCWords |-> 2]
=============================================================================
