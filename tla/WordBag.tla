------------------------------ MODULE WordBag ------------------------------
(***************************************************************************)
(* What project-3/avl.c promises its client: a bag of words.  bag[w] is    *)
(* how often w is in it, items the number of words in it, and unique that  *)
(* of different ones.                                                      *)
(***************************************************************************)
EXTENDS Integers

CONSTANT Words

VARIABLES bag, items, unique

Empty == [w \in Words |-> 0]

Init == bag = Empty /\ items = 0 /\ unique = 0

\* n more words w in the bag, and no other change to it.
Add(w, n) ==
    /\ \A v \in Words : bag'[v] = bag[v] + (IF v = w THEN n ELSE 0)
    /\ bag' \in [Words -> Nat]

Insert(w) ==
    /\ items' = items + 1
    /\ unique' = unique + (IF bag[w] = 0 THEN 1 ELSE 0)
    /\ Add(w, 1)

Delete(w) ==
    /\ items' = items - 1
    /\ unique' = unique - (IF bag[w] = 1 THEN 1 ELSE 0)
    /\ Add(w, -1)

Truncate == items' = 0 /\ unique' = 0 /\ bag' = Empty

Next == Truncate \/ \E w \in Words : Insert(w) \/ Delete(w)

Spec == Init /\ [][Next]_<<bag, items, unique>>
=============================================================================
