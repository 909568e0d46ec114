----------------------------- MODULE BlockQueue -----------------------------
(***************************************************************************)
(* What the write cache of project-4/logfs.c promises its two threads: a   *)
(* first-in first-out queue of at most Capacity blocks.  `q' is the queue  *)
(* and `taken' the block most recently handed to the consumer.             *)
(***************************************************************************)
EXTENDS Naturals, Sequences

CONSTANTS Capacity, Blocks, NoBlock

VARIABLES q, taken

vars == <<q, taken>>

Init == q = <<>> /\ taken = NoBlock

Put(b) ==
    /\ Len(q) < Capacity
    /\ q' = Append(q, b)
    /\ UNCHANGED taken

Take ==
    /\ q # <<>>
    /\ taken' = Head(q)
    /\ q' = Tail(q)

Next == Take \/ \E b \in Blocks : Put(b)

Spec == Init /\ [][Next]_vars
=============================================================================
