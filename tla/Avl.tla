-------------------------------- MODULE Avl --------------------------------
(***************************************************************************)
(* The persistent AVL tree of project-3/avl.c: a multiset of words kept in *)
(* storage class memory.                                                   *)
(*                                                                         *)
(* Data.  A tree is Nil or a record with the fields of struct node; words  *)
(* are integers, compared as strcmp() compares them.  The tree is always   *)
(* reached from the root, so pointers to nodes are not needed.  The        *)
(* allocator below is the subject of module Scm; here it does its work.    *)
(***************************************************************************)
EXTENDS Integers, Sequences

CONSTANTS
    Words,     \* the words the client inserts: integers, for their order
    MaxCount,  \* bound: MaxCount[w], how often w may be in the tree
    MaxLevels  \* bound: levels of the tree

ASSUME AvlAssumption ==
    /\ Words \subseteq Int
    /\ MaxCount \in [Words -> Nat]
    /\ MaxLevels \in Nat

VARIABLES
    open,      \* is there a struct avl?
    root,      \* state->root
    items,     \* state->items
    unique     \* state->unique

vars == <<open, root, items, unique>>
-----------------------------------------------------------------------------
Nil == [depth |-> -1]

\* The trees of up to h levels.
Tree[h \in Nat] ==
    IF h = 0 THEN {Nil}
    ELSE {Nil} \cup [depth : Nat, count : Nat, item : Words,
                     left : Tree[h - 1], right : Tree[h - 1]]

Trees == Tree[MaxLevels]

delta(t)   == t.depth
balance(t) == delta(t.left) - delta(t.right)

\* depth() of a node with the subtrees l and r.
depth(l, r) == 1 + (IF delta(l) > delta(r) THEN delta(l) ELSE delta(r))

\* The node t with other subtrees and its depth recomputed.
Node(t, l, r) ==
    [depth |-> depth(l, r), count |-> t.count, item |-> t.item, left |-> l, right |-> r]

rotate_right(t) == Node(t.left, t.left.left, Node(t, t.left.right, t.right))
rotate_left(t)  == Node(t.right, Node(t, t.left, t.right.left), t.right.right)

rotate_left_right(t) == rotate_right([t EXCEPT !.left = rotate_left(t.left)])
rotate_right_left(t) == rotate_left([t EXCEPT !.right = rotate_right(t.right)])

Leaf(w) == [depth |-> 0, count |-> 1, item |-> w, left |-> Nil, right |-> Nil]

\* update(): the subtree t with the word w added.  A child is replaced before the
\* balance is tested, and the depth is recomputed last.
update(t, w) ==
    LET U[s \in Trees] ==
          IF s = Nil THEN Leaf(w)
          ELSE IF w = s.item THEN Node([s EXCEPT !.count = @ + 1], s.left, s.right)
          ELSE IF w < s.item
          THEN LET l == U[s.left]
                   u == [s EXCEPT !.left = l]
               IN  IF balance(u) \in -1 .. 1 THEN Node(s, l, s.right)
                   ELSE IF w < l.item THEN rotate_right(u) ELSE rotate_left_right(u)
          ELSE LET r == U[s.right]
                   u == [s EXCEPT !.right = r]
               IN  IF balance(u) \in -1 .. 1 THEN Node(s, s.left, r)
                   ELSE IF w > r.item THEN rotate_left(u) ELSE rotate_right_left(u)
    IN  U[t]

\* Mutant of find_min: the root of the subtree.
find_min_Root(t) == t

find_min(t) ==
    LET M[s \in Trees \ {Nil}] == IF s.left = Nil THEN s ELSE M[s.left] IN M[t]

\* Mutant of LeastOnce: the count stays, so that the node is not unlinked.
LeastOnce_Counted(t) == t

\* The subtree t after the count of its least word is set to 1.
LeastOnce(t) ==
    LET L[s \in Trees \ {Nil}] ==
          IF s.left = Nil THEN [s EXCEPT !.count = 1] ELSE [s EXCEPT !.left = L[s.left]]
    IN  L[t]

\* Mutant of Rebalanced: a single rotation is taken for every case.
Rebalanced_Single(t) ==
    IF balance(t) > 1 THEN rotate_right(t)
    ELSE IF balance(t) < -1 THEN rotate_left(t)
    ELSE t

\* The end of delete(): the depth, and a rotation if it is needed.
Rebalanced(t) ==
    IF balance(t) > 1
    THEN IF balance(t.left) >= 0 THEN rotate_right(t) ELSE rotate_left_right(t)
    ELSE IF balance(t) < -1
    THEN IF balance(t.right) <= 0 THEN rotate_left(t) ELSE rotate_right_left(t)
    ELSE t

\* delete(): the subtree t with the word w taken out once.  A node with two
\* subtrees takes the item and the count of the least node on its right, which
\* is deleted instead.
delete(t, w) ==
    LET D[s \in Trees] == [v \in Words |->
          IF s = Nil THEN Nil
          ELSE IF v < s.item THEN Rebalanced(Node(s, D[s.left][v], s.right))
          ELSE IF v > s.item THEN Rebalanced(Node(s, s.left, D[s.right][v]))
          ELSE IF s.count > 1
          THEN Rebalanced(Node([s EXCEPT !.count = @ - 1], s.left, s.right))
          ELSE IF s.left = Nil THEN s.right
          ELSE IF s.right = Nil THEN s.left
          ELSE LET least == find_min(s.right)
               IN  Rebalanced(Node(least, s.left, D[LeastOnce(s.right)][least.item]))]
    IN  D[t][w]

\* avl_exists() from a subtree: the count of the node that the search meets.
Search(t, w) ==
    LET S[s \in Trees] ==
          IF s = Nil THEN 0
          ELSE IF w = s.item THEN s.count
          ELSE IF w < s.item THEN S[s.left]
          ELSE S[s.right]
    IN  S[t]

avl_exists(w) == Search(root, w)
-----------------------------------------------------------------------------
Init ==
    /\ open = FALSE
    /\ root = Nil /\ items = 0 /\ unique = 0

\* The state is the one in the file, unless the file is truncated.
avl_open(truncate) ==
    /\ ~open
    /\ open' = TRUE
    /\ root' = IF truncate THEN Nil ELSE root
    /\ items' = IF truncate THEN 0 ELSE items
    /\ unique' = IF truncate THEN 0 ELSE unique

avl_close ==
    /\ open
    /\ open' = FALSE
    /\ UNCHANGED <<root, items, unique>>

\* Mutant of avl_insert: every insertion is counted as a new word.
avl_insert_Unique(w) ==
    /\ open
    /\ avl_exists(w) < MaxCount[w] /\ delta(root) + 1 < MaxLevels
    /\ root' = update(root, w)
    /\ items' = items + 1
    /\ unique' = unique + 1
    /\ UNCHANGED open

avl_insert(w) ==
    /\ open
    /\ avl_exists(w) < MaxCount[w] /\ delta(root) + 1 < MaxLevels
    /\ root' = update(root, w)
    /\ items' = items + 1
    /\ unique' = IF avl_exists(w) = 0 THEN unique + 1 ELSE unique
    /\ UNCHANGED open

\* Mutant of avl_delete: the word is not looked for first.
avl_delete_Absent(w) ==
    /\ open
    /\ items' = items - 1
    /\ unique' = IF avl_exists(w) = 1 THEN unique - 1 ELSE unique
    /\ root' = delete(root, w)
    /\ UNCHANGED open

\* The command `delete' of main.c deletes only words that exist, as the assertion
\* of avl_delete() demands.
avl_delete(w) ==
    /\ open
    /\ avl_exists(w) # 0
    /\ items' = items - 1
    /\ unique' = IF avl_exists(w) = 1 THEN unique - 1 ELSE unique
    /\ root' = delete(root, w)
    /\ UNCHANGED open

Next ==
    \/ \E truncate \in BOOLEAN : avl_open(truncate)
    \/ avl_close
    \/ \E w \in Words : avl_insert(w) \/ avl_delete(w)

Spec == Init /\ [][Next]_vars
-----------------------------------------------------------------------------
\* traverse(): the nodes in the order in which `list' shows them.
traverse(t) ==
    LET T[s \in Trees] == IF s = Nil THEN <<>> ELSE T[s.left] \o <<s>> \o T[s.right]
    IN  T[t]

Listing == traverse(root)

Nodes == LET list == Listing IN {list[i] : i \in DOMAIN list}

\* What the nodes of t with a word of W add up to, wherever they are: their counts,
\* or, if each counts once, their number.
Total(t, W, once) ==
    LET S[s \in Trees] ==
          IF s = Nil THEN 0
          ELSE S[s.left] + S[s.right] +
                 (IF s.item \notin W THEN 0 ELSE IF once THEN 1 ELSE s.count)
    IN  S[t]

\* The bag of words that the client finds.
Contents == [w \in Words |-> avl_exists(w)]

Height(t) ==
    LET H[s \in Trees] ==
          IF s = Nil THEN -1
          ELSE LET l == H[s.left]
                   r == H[s.right]
               IN  1 + (IF l > r THEN l ELSE r)
    IN  H[t]

\* The counters of struct state and the fields of the nodes have the types of the
\* code: no counter falls below 0, no node stays with a count of 0.
TypeOK ==
    /\ open \in BOOLEAN
    /\ \A n \in Nodes : n.depth \in Nat /\ n.count \in Nat \ {0} /\ n.item \in Words
    /\ items \in Nat
    /\ unique \in Nat

\* `list' shows every word of the tree once and in order, whatever rotations and
\* deletions made it, and avl_exists() finds every word with all its occurrences.
ListIsExact ==
    LET list == Listing
    IN  /\ \A i \in 1 .. Len(list) - 1 : list[i].item < list[i + 1].item
        /\ \A w \in Words : avl_exists(w) = Total(root, {w}, FALSE)
        /\ items = Total(root, Words, FALSE) /\ unique = Len(list)

\* The depth kept in every node is its height, and the subtrees of a node differ
\* in height by one at most: a search takes logarithmic time.
IsBalanced ==
    \A n \in Nodes : n.depth = Height(n) /\ balance(n) \in -1 .. 1

\* The tree is a bag: an insertion adds one word, a deletion takes away one
\* occurrence of its word and of no other, opening and closing keep it; and
\* avl_items() and avl_unique(), counted apart from the tree, are its sizes.
Bag == INSTANCE WordBag WITH bag <- Contents
ImplementsBag == Bag!Spec
=============================================================================
