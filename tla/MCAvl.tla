------------------------------- MODULE MCAvl -------------------------------
\* The instance of Avl that TLC checks.  A deletion that rotates on two levels
\* needs a tree of twelve nodes; one word, in the middle, occurs up to twice.
EXTENDS Avl

MCWords    == 1 .. 12
MCMaxCount == [w \in MCWords |-> IF w = 7 THEN 2 ELSE 1]
=============================================================================
