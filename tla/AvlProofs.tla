----------------------------- MODULE AvlProofs -----------------------------
(***************************************************************************)
(* Proofs about the AVL tree of project-3/avl.c.                           *)
(*                                                                         *)
(* Good(t) says that t is an AVL tree in search order whose depths are     *)
(* right: it is in a set of trees that has the subtrees of its members and *)
(* in which every node is so (Local).  What a tree contains is measured by *)
(* Total, for every set of words and in both ways of counting, so that one *)
(* equation says what is in the tree, how often, and how many nodes it has.*)
(*                                                                         *)
(* The lemmas follow the code.  A node made of two sound trees is sound    *)
(* (Build); the four rotations take the balance back and keep the contents *)
(* (RotateRight, ..., RebalancedIs); update() adds one word (UpdateCorrect)*)
(* and delete() takes one away (DeleteCorrect).  The invariant Inv is that *)
(* the root is sound and the two counters are its totals.                  *)
(*                                                                         *)
(* A recursive function of the model is known by its equation (HeightIs,   *)
(* UpdateIs, DeleteIs, ...): it has a solution, as the relation Smaller is *)
(* well-founded.  What such functions return is proved by induction over a *)
(* set of trees (TreeInduction); delete() calls itself for a tree that is  *)
(* no subtree but has fewer levels, so that for it a least counterexample  *)
(* is refuted (Smallest).                                                  *)
(***************************************************************************)
EXTENDS Avl, WellFoundedInduction, TLAPS

\* A set of naturals that is not empty has a least one.
LEMMA Least ==
    ASSUME NEW S \in SUBSET Nat, S # {}
    PROVE  \E x \in S : \A y \in S : x <= y
<1> DEFINE R == OpToRel(<, Nat)
<1>1. R = {p \in Nat \X Nat : p[1] < p[2]}
  BY Zenon DEF OpToRel
<1>2. IsWellFoundedOn(R, Nat)
  BY Zenon, NatLessThanWellFounded
<1>3. PICK x \in S : \A y \in S : <<y, x>> \notin R
  <2> HIDE DEF R
  <2> QED  BY <1>2, WFMin
<1>4. ASSUME NEW y \in S PROVE x <= y
  <2>1. <<y, x>> \notin R
    BY <1>3
  <2> HIDE DEF R
  <2> QED  BY <1>1, <2>1
<1> QED  BY <1>4

\* Induction over the naturals, with a set for the predicate.
LEMMA Induction ==
    ASSUME NEW S \in SUBSET Nat, 0 \in S, \A n \in S : n + 1 \in S
    PROVE  S = Nat
<1> SUFFICES ASSUME Nat \ S # {} PROVE FALSE
  OBVIOUS
<1>1. PICK x \in Nat \ S : \A y \in Nat \ S : x <= y
  BY Least
<1>2. x - 1 \in Nat /\ ~(x <= x - 1) /\ (x - 1) + 1 = x
  BY <1>1
<1> QED  BY <1>1, <1>2

\* The trees of h + 1 levels are nodes over those of h levels.
LEMMA Levels ==
    /\ Tree[0] = {Nil}
    /\ \A h \in Nat : Tree[h + 1] =
         {Nil} \cup [depth : Nat, count : Nat, item : Words, left : Tree[h], right : Tree[h]]
<1> DEFINE F == {Nil}
           Def(v, h) == {Nil} \cup [depth : Nat, count : Nat, item : Words, left : v, right : v]
<1>1. NatInductiveDefHypothesis(Tree, F, Def)
  BY DEF NatInductiveDefHypothesis, Tree
<1>2. Tree = [h \in Nat |-> IF h = 0 THEN F ELSE Def(Tree[h - 1], h)]
  <2> HIDE DEF F, Def
  <2>1. NatInductiveDefConclusion(Tree, F, Def)
    BY <1>1, NatInductiveDef
  <2> QED  BY <2>1 DEF NatInductiveDefConclusion
<1>3. Tree[0] = F /\ \A h \in Nat : Tree[h + 1] = Def(Tree[h], h + 1)
  <2> HIDE DEF F, Def
  <2> QED  BY <1>2
<1> QED  BY <1>3

\* A tree of few levels is one of more levels.
LEMMA Monotone == \A h, k \in Nat : h <= k => Tree[h] \subseteq Tree[k]
<1> DEFINE P(n) == Tree[n] \subseteq Tree[n + 1]
           S == {n \in Nat : P(n)}
<1>1. P(0)
  <2>1. Tree[0 + 1] = {Nil} \cup [depth : Nat, count : Nat, item : Words, left : Tree[0], right : Tree[0]]
    BY Levels
  <2> QED  BY <2>1, Levels
<1>2. ASSUME NEW n \in Nat, P(n) PROVE P(n + 1)
  <2>1. /\ Tree[n + 1] = {Nil} \cup [depth : Nat, count : Nat, item : Words, left : Tree[n], right : Tree[n]]
        /\ Tree[n + 1 + 1] = {Nil} \cup [depth : Nat, count : Nat, item : Words, left : Tree[n + 1], right : Tree[n + 1]]
    BY Levels
  <2> QED  BY <2>1, <1>2
<1>3. \A n \in Nat : P(n)
  <2>1. 0 \in S /\ \A n \in S : n + 1 \in S
    BY <1>1, <1>2
  <2>2. S = Nat
    <3> HIDE DEF S
    <3>1. S \subseteq Nat
      BY DEF S
    <3> QED  BY <2>1, <3>1, Induction
  <2> QED  BY <2>2
<1> DEFINE Q(n) == \A h \in Nat : Tree[h] \subseteq Tree[h + n]
           U == {n \in Nat : Q(n)}
<1>4. Q(0)
  OBVIOUS
<1>5. ASSUME NEW n \in Nat, Q(n) PROVE Q(n + 1)
  <2>1. ASSUME NEW h \in Nat PROVE Tree[h] \subseteq Tree[h + (n + 1)]
    <3>1. Tree[h] \subseteq Tree[h + n] /\ Tree[h + n] \subseteq Tree[(h + n) + 1] /\ (h + n) + 1 = h + (n + 1)
      BY <1>3, <1>5
    <3> QED  BY <3>1
  <2> QED  BY <2>1
<1>6. \A n \in Nat : Q(n)
  <2>1. 0 \in U /\ \A n \in U : n + 1 \in U
    BY <1>4, <1>5
  <2>2. U = Nat
    <3> HIDE DEF U
    <3>1. U \subseteq Nat
      BY DEF U
    <3> QED  BY <2>1, <3>1, Induction
  <2> QED  BY <2>2
<1> QED
  <2> TAKE h, k \in Nat
  <2>1. HAVE h <= k
  <2>2. k - h \in Nat /\ h + (k - h) = k
    BY <2>1
  <2> QED  BY <1>6, <2>2

\* The fields of a node, whose subtrees have fewer levels.
LEMMA Fields ==
    ASSUME NEW h \in Nat, NEW t \in Tree[h], t # Nil
    PROVE  /\ h > 0 /\ h - 1 \in Nat
           /\ t = [depth |-> t.depth, count |-> t.count, item |-> t.item,
                   left |-> t.left, right |-> t.right]
           /\ t.depth \in Nat /\ t.count \in Nat /\ t.item \in Words
           /\ t.left \in Tree[h - 1] /\ t.right \in Tree[h - 1]
<1>1. h # 0
  BY Levels
<1>2. h - 1 \in Nat /\ (h - 1) + 1 = h
  BY <1>1
<1>3. Tree[h] = {Nil} \cup [depth : Nat, count : Nat, item : Words,
                            left : Tree[h - 1], right : Tree[h - 1]]
  BY <1>2, Levels
<1> QED  BY <1>1, <1>2, <1>3

\* Nil is a tree of every number of levels.
LEMMA NilFits == ASSUME NEW h \in Nat PROVE Nil \in Tree[h]
<1>1. 0 \in Nat /\ 0 <= h
  OBVIOUS
<1> QED  BY <1>1, Levels, Monotone

\* A node is not Nil.
LEMMA NodeFits ==
    ASSUME NEW h \in Nat, NEW d \in Nat, NEW c \in Nat, NEW x \in Words,
           NEW l \in Tree[h], NEW r \in Tree[h]
    PROVE  LET n == [depth |-> d, count |-> c, item |-> x, left |-> l, right |-> r]
           IN  n \in Tree[h + 1] /\ n # Nil
<1> DEFINE n == [depth |-> d, count |-> c, item |-> x, left |-> l, right |-> r]
<1>1. n \in Tree[h + 1]
  <2>1. Tree[h + 1] = {Nil} \cup [depth : Nat, count : Nat, item : Words,
                                  left : Tree[h], right : Tree[h]]
    BY Levels
  <2> QED  BY <2>1
<1>2. n.depth # Nil.depth
  BY DEF Nil
<1> QED  BY <1>1, <1>2

Level(t) == CHOOSE h \in Nat : t \in Tree[h] /\ \A k \in Nat : t \in Tree[k] => h <= k

\* A tree has a least number of levels.
LEMMA LevelIs ==
    ASSUME NEW h \in Nat, NEW t \in Tree[h]
    PROVE  Level(t) \in Nat /\ t \in Tree[Level(t)] /\ Level(t) <= h
<1> DEFINE S == {k \in Nat : t \in Tree[k]}
<1>1. S \in SUBSET Nat /\ S # {}
  OBVIOUS
<1>2. PICK k \in S : \A y \in S : k <= y
  <2> HIDE DEF S
  <2> QED  BY <1>1, Least
<1>3. \E k2 \in Nat : t \in Tree[k2] /\ \A y \in Nat : t \in Tree[y] => k2 <= y
  BY <1>2
<1> QED  BY <1>3 DEF Level

\* The subtrees of a tree are of the model, and smaller.
LEMMA Subtrees ==
    ASSUME NEW t \in Trees, t # Nil
    PROVE  /\ t = [depth |-> t.depth, count |-> t.count, item |-> t.item,
                   left |-> t.left, right |-> t.right]
           /\ t.depth \in Nat /\ t.count \in Nat /\ t.item \in Words
           /\ t.left \in Trees /\ t.right \in Trees
           /\ Level(t) \in Nat /\ Level(t.left) \in Nat /\ Level(t.right) \in Nat
           /\ Level(t.left) < Level(t) /\ Level(t.right) < Level(t)
<1> DEFINE h == Level(t)
<1>1. MaxLevels \in Nat /\ t \in Tree[MaxLevels]
  BY AvlAssumption DEF Trees
<1>2. h \in Nat /\ t \in Tree[h] /\ h <= MaxLevels
  BY <1>1, LevelIs
<1> HIDE DEF h
<1>3. /\ h > 0 /\ h - 1 \in Nat
      /\ t = [depth |-> t.depth, count |-> t.count, item |-> t.item,
                   left |-> t.left, right |-> t.right]
      /\ t.depth \in Nat /\ t.count \in Nat /\ t.item \in Words
      /\ t.left \in Tree[h - 1] /\ t.right \in Tree[h - 1]
  BY <1>2, Fields
<1>4. Tree[h - 1] \subseteq Trees
  <2>1. h - 1 <= MaxLevels
    BY <1>1, <1>2
  <2> QED  BY <1>1, <1>3, <2>1, Monotone DEF Trees
<1>5. /\ Level(t.left) \in Nat /\ Level(t.left) <= h - 1
      /\ Level(t.right) \in Nat /\ Level(t.right) <= h - 1
  BY <1>3, LevelIs
<1>6. Level(t.left) < h /\ Level(t.right) < h
  BY <1>2, <1>3, <1>5
<1> QED  BY <1>2, <1>3, <1>4, <1>5, <1>6 DEF h

Smaller == {p \in Trees \X Trees : Level(p[1]) < Level(p[2])}

\* Every tree of the model has its level.
LEMMA TreeLevel == ASSUME NEW t \in Trees PROVE Level(t) \in Nat /\ t \in Tree[Level(t)]
  BY AvlAssumption, LevelIs DEF Trees

\* A nonempty set of trees has one with the fewest levels.
LEMMA Smallest ==
    ASSUME NEW S \in SUBSET Trees, S # {}
    PROVE  \E x \in S : \A y \in Trees : Level(y) < Level(x) => y \notin S
<1> DEFINE N == {Level(t) : t \in S}
<1>1. N \in SUBSET Nat /\ N # {}
  BY TreeLevel
<1>2. PICK k \in N : \A y \in N : k <= y
  <2> HIDE DEF N
  <2> QED  BY <1>1, Least
<1>3. PICK x \in S : Level(x) = k
  BY <1>2
<1>4. ASSUME NEW y \in S, Level(y) < Level(x) PROVE FALSE
  <2>1. Level(y) \in N /\ Level(y) \in Nat /\ Level(x) \in Nat
    BY TreeLevel
  <2> QED  BY <2>1, <1>2, <1>3, <1>4
<1> QED  BY <1>3, <1>4

\* There is no endless descent in levels.
LEMMA WellFounded == IsWellFoundedOn(Smaller, Trees)
<1>1. ASSUME NEW S \in SUBSET Trees, S # {}
      PROVE  \E x \in S : \A y \in S : ~(<<y, x>> \in Smaller)
  <2>1. PICK x \in S : \A y \in Trees : Level(y) < Level(x) => y \notin S
    BY <1>1, Smallest
  <2> QED  BY <2>1 DEF Smaller
<1> QED  BY <1>1, MinWF

\* Induction over the subtrees of a tree.
LEMMA TreeInduction ==
    ASSUME NEW S \in SUBSET Trees, Nil \in S,
           \A t \in Trees \ {Nil} : t.left \in S /\ t.right \in S => t \in S
    PROVE  S = Trees
<1> SUFFICES ASSUME Trees \ S # {} PROVE FALSE
  OBVIOUS
<1>1. PICK x \in Trees \ S : \A y \in Trees : Level(y) < Level(x) => y \notin Trees \ S
  BY Smallest
<1>2. x # Nil /\ x \in Trees
  OBVIOUS
<1>3. x.left \in S /\ x.right \in S
  BY <1>1, <1>2, Subtrees
<1> QED  BY <1>1, <1>2, <1>3
-----------------------------------------------------------------------------
\* The empty tree is one of the model.
LEMMA NilIn == Nil \in Trees
  BY AvlAssumption, NilFits DEF Trees

\* A recursive call for a subtree is a call for a smaller tree.
LEMMA Before ==
    ASSUME NEW t \in Trees, t # Nil
    PROVE  t.left \in SetLessThan(t, Smaller, Trees) /\ t.right \in SetLessThan(t, Smaller, Trees)
  BY Subtrees DEF SetLessThan, Smaller

\* Height() satisfies its equation.
LEMMA HeightIs ==
    /\ Height(Nil) = -1
    /\ \A t \in Trees \ {Nil} :
         Height(t) = 1 + (IF Height(t.left) > Height(t.right) THEN Height(t.left) ELSE Height(t.right))
<1> DEFINE Def(f, s) == IF s = Nil THEN -1
                        ELSE LET l == f[s.left]
                                 r == f[s.right]
                             IN  1 + (IF l > r THEN l ELSE r)
           H == CHOOSE f : f = [s \in Trees |-> Def(f, s)]
<1>1. \A t : Height(t) = H[t]
  BY DEF Height
<1>2. H = [s \in Trees |-> Def(H, s)]
  <2>1. WFDefOn(Smaller, Trees, Def)
    <3>1. ASSUME NEW g, NEW h, NEW s \in Trees,
                 \A y \in SetLessThan(s, Smaller, Trees) : g[y] = h[y]
          PROVE  Def(g, s) = Def(h, s)
      BY <3>1, Before
    <3> HIDE DEF Def
    <3> QED  BY <3>1 DEF WFDefOn
  <2>2. OpDefinesFcn(H, Trees, Def)
    BY Zenon DEF OpDefinesFcn
  <2> HIDE DEF H, Def
  <2>3. WFInductiveDefines(H, Trees, Def)
    BY <2>1, <2>2, WellFounded, WFInductiveDef
  <2> QED  BY <2>3 DEF WFInductiveDefines
<1> HIDE DEF H
<1> QED  BY <1>1, <1>2, Subtrees, NilIn

\* Total() satisfies its equation.
LEMMA TotalIs ==
    ASSUME NEW W, NEW once
    PROVE  /\ Total(Nil, W, once) = 0
           /\ \A t \in Trees \ {Nil} :
                Total(t, W, once) = Total(t.left, W, once) + Total(t.right, W, once) +
                    (IF t.item \notin W THEN 0 ELSE IF once THEN 1 ELSE t.count)
<1> DEFINE Def(f, s) ==
             IF s = Nil THEN 0
             ELSE f[s.left] + f[s.right] +
                    (IF s.item \notin W THEN 0 ELSE IF once THEN 1 ELSE s.count)
           F == CHOOSE f : f = [s \in Trees |-> Def(f, s)]
<1>1. \A t : Total(t, W, once) = F[t]
  BY DEF Total
<1>2. F = [s \in Trees |-> Def(F, s)]
  <2>1. WFDefOn(Smaller, Trees, Def)
    <3>1. ASSUME NEW g, NEW h, NEW s \in Trees,
                 \A y \in SetLessThan(s, Smaller, Trees) : g[y] = h[y]
          PROVE  Def(g, s) = Def(h, s)
      BY <3>1, Before
    <3> HIDE DEF Def
    <3> QED  BY <3>1 DEF WFDefOn
  <2>2. OpDefinesFcn(F, Trees, Def)
    BY Zenon DEF OpDefinesFcn
  <2> HIDE DEF F, Def
  <2>3. WFInductiveDefines(F, Trees, Def)
    BY <2>1, <2>2, WellFounded, WFInductiveDef
  <2> QED  BY <2>3 DEF WFInductiveDefines
<1> HIDE DEF F
<1>3. \A s \in Trees : F[s] = Def(F, s)
  <2> HIDE DEF Def
  <2> QED  BY <1>2
<1>4. F[Nil] = Def(F, Nil)
  BY <1>3, NilIn
<1> QED  BY <1>1, <1>3, <1>4

\* The search of avl_exists() satisfies its equation.
LEMMA SearchIs ==
    ASSUME NEW w
    PROVE  /\ Search(Nil, w) = 0
           /\ \A t \in Trees \ {Nil} :
                Search(t, w) = IF w = t.item THEN t.count
                               ELSE IF w < t.item THEN Search(t.left, w)
                               ELSE Search(t.right, w)
<1> DEFINE Def(f, s) ==
             IF s = Nil THEN 0
             ELSE IF w = s.item THEN s.count
             ELSE IF w < s.item THEN f[s.left]
             ELSE f[s.right]
           F == CHOOSE f : f = [s \in Trees |-> Def(f, s)]
<1>1. \A t : Search(t, w) = F[t]
  BY DEF Search
<1>2. F = [s \in Trees |-> Def(F, s)]
  <2>1. WFDefOn(Smaller, Trees, Def)
    <3>1. ASSUME NEW g, NEW h, NEW s \in Trees,
                 \A y \in SetLessThan(s, Smaller, Trees) : g[y] = h[y]
          PROVE  Def(g, s) = Def(h, s)
      BY <3>1, Before
    <3> HIDE DEF Def
    <3> QED  BY <3>1 DEF WFDefOn
  <2>2. OpDefinesFcn(F, Trees, Def)
    BY Zenon DEF OpDefinesFcn
  <2> HIDE DEF F, Def
  <2>3. WFInductiveDefines(F, Trees, Def)
    BY <2>1, <2>2, WellFounded, WFInductiveDef
  <2> QED  BY <2>3 DEF WFInductiveDefines
<1> HIDE DEF F
<1>3. \A s \in Trees : F[s] = Def(F, s)
  <2> HIDE DEF Def
  <2> QED  BY <1>2
<1>4. F[Nil] = Def(F, Nil)
  BY <1>3, NilIn
<1> QED  BY <1>1, <1>3, <1>4

\* traverse() satisfies its equation.
LEMMA TraverseIs ==
    /\ traverse(Nil) = <<>>
    /\ \A t \in Trees \ {Nil} : traverse(t) = traverse(t.left) \o <<t>> \o traverse(t.right)
<1> DEFINE Def(f, s) == IF s = Nil THEN <<>> ELSE f[s.left] \o <<s>> \o f[s.right]
           F == CHOOSE f : f = [s \in Trees |-> Def(f, s)]
<1>1. \A t : traverse(t) = F[t]
  BY DEF traverse
<1>2. F = [s \in Trees |-> Def(F, s)]
  <2>1. WFDefOn(Smaller, Trees, Def)
    <3>1. ASSUME NEW g, NEW h, NEW s \in Trees,
                 \A y \in SetLessThan(s, Smaller, Trees) : g[y] = h[y]
          PROVE  Def(g, s) = Def(h, s)
      BY <3>1, Before
    <3> HIDE DEF Def
    <3> QED  BY <3>1 DEF WFDefOn
  <2>2. OpDefinesFcn(F, Trees, Def)
    BY Zenon DEF OpDefinesFcn
  <2> HIDE DEF F, Def
  <2>3. WFInductiveDefines(F, Trees, Def)
    BY <2>1, <2>2, WellFounded, WFInductiveDef
  <2> QED  BY <2>3 DEF WFInductiveDefines
<1> HIDE DEF F
<1>3. \A s \in Trees : F[s] = Def(F, s)
  <2> HIDE DEF Def
  <2> QED  BY <1>2
<1>4. F[Nil] = Def(F, Nil)
  BY <1>3, NilIn
<1> QED  BY <1>1, <1>3, <1>4

\* update() of a node, as a function of what it is for the subtree.
UpdateOf(s, w, l, r) ==
    IF w = s.item THEN Node([s EXCEPT !.count = @ + 1], s.left, s.right)
    ELSE IF w < s.item
    THEN LET u == [s EXCEPT !.left = l]
         IN  IF balance(u) \in -1 .. 1 THEN Node(s, l, s.right)
             ELSE IF w < l.item THEN rotate_right(u) ELSE rotate_left_right(u)
    ELSE LET u == [s EXCEPT !.right = r]
         IN  IF balance(u) \in -1 .. 1 THEN Node(s, s.left, r)
             ELSE IF w > r.item THEN rotate_left(u) ELSE rotate_right_left(u)

\* update() satisfies its equation.
LEMMA UpdateIs ==
    ASSUME NEW w
    PROVE  /\ update(Nil, w) = Leaf(w)
           /\ \A t \in Trees \ {Nil} :
                update(t, w) = UpdateOf(t, w, update(t.left, w), update(t.right, w))
<1> DEFINE Def(f, s) ==
             IF s = Nil THEN Leaf(w)
             ELSE UpdateOf(s, w, f[s.left], f[s.right])
           F == CHOOSE f : f = [s \in Trees |-> Def(f, s)]
<1>1. \A t : update(t, w) = F[t]
  BY DEF update, UpdateOf
<1>2. F = [s \in Trees |-> Def(F, s)]
  <2>1. WFDefOn(Smaller, Trees, Def)
    <3>1. ASSUME NEW g, NEW h, NEW s \in Trees,
                 \A y \in SetLessThan(s, Smaller, Trees) : g[y] = h[y]
          PROVE  Def(g, s) = Def(h, s)
      BY <3>1, Before
    <3> HIDE DEF Def
    <3> QED  BY <3>1 DEF WFDefOn
  <2>2. OpDefinesFcn(F, Trees, Def)
    BY Zenon DEF OpDefinesFcn
  <2> HIDE DEF F, Def
  <2>3. WFInductiveDefines(F, Trees, Def)
    BY <2>1, <2>2, WellFounded, WFInductiveDef
  <2> QED  BY <2>3 DEF WFInductiveDefines
<1> HIDE DEF F
<1>3. \A s \in Trees : F[s] = Def(F, s)
  <2> HIDE DEF Def
  <2> QED  BY <1>2
<1>4. F[Nil] = Def(F, Nil)
  BY <1>3, NilIn
<1> QED  BY <1>1, <1>3, <1>4

NonNil == Trees \ {Nil}

\* Nor is there one among the nodes.
LEMMA WellFoundedNodes == IsWellFoundedOn(Smaller, NonNil)
<1>1. NonNil \in SUBSET Trees
  BY DEF NonNil
<1> QED  BY <1>1, WellFounded, IsWellFoundedOnSubset

\* The recursive call of a function on nodes is for a smaller node.
LEMMA BeforeNode ==
    ASSUME NEW t \in NonNil, t.left # Nil
    PROVE  t.left \in SetLessThan(t, Smaller, NonNil)
  BY Subtrees DEF SetLessThan, Smaller, NonNil

\* find_min() satisfies its equation.
LEMMA FindMinIs ==
    \A t \in NonNil : find_min(t) = IF t.left = Nil THEN t ELSE find_min(t.left)
<1> DEFINE Def(f, s) == IF s.left = Nil THEN s ELSE f[s.left]
           F == CHOOSE f : f = [s \in NonNil |-> Def(f, s)]
<1>1. \A t : find_min(t) = F[t]
  BY DEF find_min, NonNil
<1>2. F = [s \in NonNil |-> Def(F, s)]
  <2>1. WFDefOn(Smaller, NonNil, Def)
    <3>1. ASSUME NEW g, NEW h, NEW s \in NonNil,
                 \A y \in SetLessThan(s, Smaller, NonNil) : g[y] = h[y]
          PROVE  Def(g, s) = Def(h, s)
      BY <3>1, BeforeNode
    <3> HIDE DEF Def
    <3> QED  BY <3>1 DEF WFDefOn
  <2>2. OpDefinesFcn(F, NonNil, Def)
    BY Zenon DEF OpDefinesFcn
  <2> HIDE DEF F, Def
  <2>3. WFInductiveDefines(F, NonNil, Def)
    BY <2>1, <2>2, WellFoundedNodes, WFInductiveDef
  <2> QED  BY <2>3 DEF WFInductiveDefines
<1> HIDE DEF F
<1>3. \A s \in NonNil : F[s] = Def(F, s)
  <2> HIDE DEF Def
  <2> QED  BY <1>2
<1> QED  BY <1>1, <1>3

\* Resetting the least count satisfies its equation.
LEMMA LeastOnceIs ==
    \A t \in NonNil : LeastOnce(t) = IF t.left = Nil THEN [t EXCEPT !.count = 1]
                                     ELSE [t EXCEPT !.left = LeastOnce(t.left)]
<1> DEFINE Def(f, s) == IF s.left = Nil THEN [s EXCEPT !.count = 1]
                        ELSE [s EXCEPT !.left = f[s.left]]
           F == CHOOSE f : f = [s \in NonNil |-> Def(f, s)]
<1>1. \A t : LeastOnce(t) = F[t]
  BY DEF LeastOnce, NonNil
<1>2. F = [s \in NonNil |-> Def(F, s)]
  <2>1. WFDefOn(Smaller, NonNil, Def)
    <3>1. ASSUME NEW g, NEW h, NEW s \in NonNil,
                 \A y \in SetLessThan(s, Smaller, NonNil) : g[y] = h[y]
          PROVE  Def(g, s) = Def(h, s)
      BY <3>1, BeforeNode
    <3> HIDE DEF Def
    <3> QED  BY <3>1 DEF WFDefOn
  <2>2. OpDefinesFcn(F, NonNil, Def)
    BY Zenon DEF OpDefinesFcn
  <2> HIDE DEF F, Def
  <2>3. WFInductiveDefines(F, NonNil, Def)
    BY <2>1, <2>2, WellFoundedNodes, WFInductiveDef
  <2> QED  BY <2>3 DEF WFInductiveDefines
<1> HIDE DEF F
<1>3. \A s \in NonNil : F[s] = Def(F, s)
  <2> HIDE DEF Def
  <2> QED  BY <1>2
<1> QED  BY <1>1, <1>3

\* The subtree with the least word's count reset has as many levels.
LEMMA LeastOnceFits ==
    ASSUME NEW t \in NonNil
    PROVE  LeastOnce(t) \in NonNil /\ Level(LeastOnce(t)) <= Level(t)
<1> DEFINE P(h) == \A s \in NonNil : s \in Tree[h] => LeastOnce(s) \in Tree[h] /\ LeastOnce(s) # Nil
           S == {h \in Nat : P(h)}
<1>1. P(0)
  BY Levels DEF NonNil
<1>2. ASSUME NEW h \in Nat, P(h) PROVE P(h + 1)
  <2> SUFFICES ASSUME NEW s \in NonNil, s \in Tree[h + 1]
               PROVE  LeastOnce(s) \in Tree[h + 1] /\ LeastOnce(s) # Nil
    OBVIOUS
  <2>1. /\ s = [depth |-> s.depth, count |-> s.count, item |-> s.item,
                   left |-> s.left, right |-> s.right]
        /\ s.depth \in Nat /\ s.count \in Nat /\ s.item \in Words
        /\ s.left \in Tree[h] /\ s.right \in Tree[h]
        /\ s.left \in Trees
    BY Fields, Subtrees DEF NonNil
  <2>2. CASE s.left = Nil
    <3>1. LeastOnce(s) = [depth |-> s.depth, count |-> 1, item |-> s.item,
                          left |-> s.left, right |-> s.right]
      BY <2>1, <2>2, LeastOnceIs
    <3> QED  BY <2>1, <3>1, NodeFits
  <2>3. CASE s.left # Nil
    <3>1. LeastOnce(s) = [depth |-> s.depth, count |-> s.count, item |-> s.item,
                          left |-> LeastOnce(s.left), right |-> s.right]
      BY <2>1, <2>3, LeastOnceIs
    <3>2. LeastOnce(s.left) \in Tree[h]
      BY <1>2, <2>1, <2>3 DEF NonNil
    <3> QED  BY <2>1, <3>1, <3>2, NodeFits
  <2> QED  BY <2>2, <2>3
<1>3. \A h \in Nat : P(h)
  <2>1. 0 \in S /\ \A n \in S : n + 1 \in S
    BY <1>1, <1>2
  <2>2. S = Nat
    <3> HIDE DEF S
    <3>1. S \subseteq Nat
      BY DEF S
    <3> QED  BY <2>1, <3>1, Induction
  <2> QED  BY <2>2
<1>4. Level(t) \in Nat /\ t \in Tree[Level(t)] /\ t \in Tree[MaxLevels] /\ MaxLevels \in Nat
  BY TreeLevel, AvlAssumption DEF NonNil, Trees
<1>5. LeastOnce(t) \in Tree[Level(t)] /\ LeastOnce(t) \in Tree[MaxLevels] /\ LeastOnce(t) # Nil
  BY <1>3, <1>4
<1> QED  BY <1>4, <1>5, LevelIs DEF NonNil, Trees

\* find_min() returns a node.
LEMMA FindMinFits == \A t \in NonNil : find_min(t) \in NonNil
<1> DEFINE S == {Nil} \cup {t \in NonNil : find_min(t) \in NonNil}
<1>1. S \in SUBSET Trees /\ Nil \in S
  BY NilIn DEF NonNil
<1>2. ASSUME NEW t \in Trees \ {Nil}, t.left \in S /\ t.right \in S PROVE t \in S
  BY <1>2, FindMinIs DEF NonNil
<1>3. S = Trees
  <2> HIDE DEF S
  <2> QED  BY <1>1, <1>2, TreeInduction
<1> QED  BY <1>3 DEF NonNil

\* delete() of a node, as a function of what it is for the subtrees.
DeleteOf(s, v, l, r, m) ==
    IF v < s.item THEN Rebalanced(Node(s, l, s.right))
    ELSE IF v > s.item THEN Rebalanced(Node(s, s.left, r))
    ELSE IF s.count > 1
    THEN Rebalanced(Node([s EXCEPT !.count = @ - 1], s.left, s.right))
    ELSE IF s.left = Nil THEN s.right
    ELSE IF s.right = Nil THEN s.left
    ELSE Rebalanced(Node(find_min(s.right), s.left, m))

\* delete() satisfies its equation.
LEMMA DeleteIs ==
    /\ \A v \in Words : delete(Nil, v) = Nil
    /\ \A t \in NonNil, v \in Words :
         delete(t, v) = DeleteOf(t, v, delete(t.left, v), delete(t.right, v),
                                 delete(LeastOnce(t.right), find_min(t.right).item))
<1> DEFINE Def(f, s) == [v \in Words |->
             IF s = Nil THEN Nil
             ELSE DeleteOf(s, v, f[s.left][v], f[s.right][v],
                           f[LeastOnce(s.right)][find_min(s.right).item])]
           F == CHOOSE f : f = [s \in Trees |-> Def(f, s)]
<1>1. \A t, v : delete(t, v) = F[t][v]
  BY DEF delete, DeleteOf
<1>2. F = [s \in Trees |-> Def(F, s)]
  <2>1. WFDefOn(Smaller, Trees, Def)
    <3>1. ASSUME NEW g, NEW h, NEW s \in Trees,
                 \A y \in SetLessThan(s, Smaller, Trees) : g[y] = h[y]
          PROVE  Def(g, s) = Def(h, s)
      <4>1. CASE s = Nil
        BY <4>1
      <4>2. CASE s # Nil
        <5>1. g[s.left] = h[s.left] /\ g[s.right] = h[s.right]
          BY <3>1, <4>2, Before
        <5>2. CASE s.right = Nil
          BY <4>2, <5>1, <5>2 DEF DeleteOf
        <5>3. CASE s.right # Nil
          <6>1. LeastOnce(s.right) \in SetLessThan(s, Smaller, Trees)
            <7>1. /\ LeastOnce(s.right) \in Trees /\ Level(LeastOnce(s.right)) \in Nat
                  /\ Level(LeastOnce(s.right)) <= Level(s.right)
                  /\ Level(s.right) < Level(s) /\ Level(s.right) \in Nat /\ Level(s) \in Nat
              BY <4>2, <5>3, LeastOnceFits, Subtrees, TreeLevel DEF NonNil
            <7> QED  BY <7>1 DEF SetLessThan, Smaller
          <6>2. g[LeastOnce(s.right)] = h[LeastOnce(s.right)]
            BY <3>1, <6>1
          <6> QED  BY <5>1, <6>2
        <5> QED  BY <5>2, <5>3
      <4> QED  BY <4>1, <4>2
    <3> HIDE DEF Def
    <3> QED  BY <3>1 DEF WFDefOn
  <2>2. OpDefinesFcn(F, Trees, Def)
    BY Zenon DEF OpDefinesFcn
  <2> HIDE DEF F, Def
  <2>3. WFInductiveDefines(F, Trees, Def)
    BY <2>1, <2>2, WellFounded, WFInductiveDef
  <2> QED  BY <2>3 DEF WFInductiveDefines
<1> HIDE DEF F
<1>3. \A s \in Trees : F[s] = Def(F, s)
  <2> HIDE DEF Def
  <2> QED  BY <1>2
<1>4. ASSUME NEW v \in Words PROVE delete(Nil, v) = Nil
  BY <1>1, <1>3, NilIn
<1>5. ASSUME NEW t \in NonNil, NEW v \in Words
      PROVE  delete(t, v) = DeleteOf(t, v, delete(t.left, v), delete(t.right, v),
                                 delete(LeastOnce(t.right), find_min(t.right).item))
  <2>1. F[t] = Def(F, t) /\ t # Nil
    BY <1>3 DEF NonNil
  <2>2. F[t][v] = DeleteOf(t, v, F[t.left][v], F[t.right][v],
                           F[LeastOnce(t.right)][find_min(t.right).item])
    BY <2>1
  <2> QED  BY <1>1, <2>2
<1> QED  BY <1>4, <1>5
-----------------------------------------------------------------------------
(***************************************************************************)
(* What a sound tree is.                                                   *)
(***************************************************************************)
\* The words in the nodes of t.
In(t) == {w \in Words : Total(t, {w}, TRUE) > 0}

\* What a node adds to Total.
Weight(x, c, W, once) == IF x \notin W THEN 0 ELSE IF once THEN 1 ELSE c

\* Total of a node, from its subtrees.
LEMMA TotalNode ==
    ASSUME NEW t \in NonNil, NEW W, NEW once
    PROVE  Total(t, W, once) = Total(t.left, W, once) + Total(t.right, W, once)
                                 + Weight(t.item, t.count, W, once)
  BY TotalIs DEF NonNil, Weight

\* What a node adds is a natural number.
LEMMA WeightNat ==
    ASSUME NEW x, NEW c \in Nat, NEW W, NEW once
    PROVE  Weight(x, c, W, once) \in Nat
  BY DEF Weight

\* A total is a natural number.
LEMMA TotalNat ==
    ASSUME NEW t \in Trees, NEW W, NEW once
    PROVE  Total(t, W, once) \in Nat
<1> DEFINE S == {s \in Trees : Total(s, W, once) \in Nat}
<1>1. S \in SUBSET Trees /\ Nil \in S
  BY NilIn, TotalIs
<1>2. ASSUME NEW s \in Trees \ {Nil}, s.left \in S /\ s.right \in S PROVE s \in S
  <2>1. Weight(s.item, s.count, W, once) \in Nat
    BY Subtrees, WeightNat
  <2> QED  BY <1>2, <2>1, TotalNode DEF NonNil
<1>3. S = Trees
  <2> HIDE DEF S
  <2> QED  BY <1>1, <1>2, TreeInduction
<1> QED  BY <1>3

\* The empty tree has no words.
LEMMA InNil == In(Nil) = {}
<1>1. \A W, once : Total(Nil, W, once) = 0
  BY TotalIs
<1>2. \A w : Total(Nil, {w}, TRUE) = 0
  BY <1>1, Zenon
<1>3. ~(0 > 0)
  OBVIOUS
<1> QED  BY <1>2, <1>3, Zenon DEF In

\* The words of a node are those of its subtrees and its own.
LEMMA InNode ==
    ASSUME NEW t \in NonNil
    PROVE  In(t) = In(t.left) \cup In(t.right) \cup {t.item}
<1>1. t.item \in Words /\ t.left \in Trees /\ t.right \in Trees /\ t.count \in Nat
  BY Subtrees DEF NonNil
<1>2. ASSUME NEW w \in Words
      PROVE  w \in In(t) <=> w \in In(t.left) \/ w \in In(t.right) \/ w = t.item
  <2>1. /\ Total(t.left, {w}, TRUE) \in Nat /\ Total(t.right, {w}, TRUE) \in Nat
        /\ Weight(t.item, t.count, {w}, TRUE) = IF w = t.item THEN 1 ELSE 0
    BY <1>1, TotalNat DEF Weight
  <2>2. Total(t, {w}, TRUE) = Total(t.left, {w}, TRUE) + Total(t.right, {w}, TRUE)
                                + Weight(t.item, t.count, {w}, TRUE)
    BY TotalNode, Zenon
  <2>3. \A s : w \in In(s) <=> Total(s, {w}, TRUE) > 0
    BY DEF In
  <2> DEFINE n == Total(t, {w}, TRUE)
             l == Total(t.left, {w}, TRUE)
             r == Total(t.right, {w}, TRUE)
             k == Weight(t.item, t.count, {w}, TRUE)
  <2>4. (w \in In(t) <=> n > 0) /\ (w \in In(t.left) <=> l > 0) /\ (w \in In(t.right) <=> r > 0)
    BY <2>3
  <2>5. n = l + r + k /\ l \in Nat /\ r \in Nat /\ k = (IF w = t.item THEN 1 ELSE 0)
    BY <2>1, <2>2
  <2> HIDE DEF n, l, r, k
  <2> QED  BY <2>4, <2>5
<1> QED  BY <1>1, <1>2 DEF In

\* A word that no node has does not count.
LEMMA Absent ==
    ASSUME NEW t \in Trees, NEW w \in Words, w \notin In(t)
    PROVE  Total(t, {w}, FALSE) = 0
<1> DEFINE S == {s \in Trees : w \notin In(s) => Total(s, {w}, FALSE) = 0}
<1>1. S \in SUBSET Trees /\ Nil \in S
  BY NilIn, TotalIs
<1>2. ASSUME NEW s \in Trees \ {Nil}, s.left \in S /\ s.right \in S PROVE s \in S
  <2> SUFFICES ASSUME w \notin In(s) PROVE Total(s, {w}, FALSE) = 0
    OBVIOUS
  <2>1. w \notin In(s.left) /\ w \notin In(s.right) /\ w # s.item
    BY InNode DEF NonNil
  <2>2. Weight(s.item, s.count, {w}, FALSE) = 0
    BY <2>1 DEF Weight
  <2>3. Total(s.left, {w}, FALSE) = 0 /\ Total(s.right, {w}, FALSE) = 0
    BY <1>2, <2>1
  <2>4. Total(s, {w}, FALSE) = Total(s.left, {w}, FALSE) + Total(s.right, {w}, FALSE)
                                 + Weight(s.item, s.count, {w}, FALSE)
    BY TotalNode, Zenon DEF NonNil
  <2>5. 0 + 0 + 0 = 0
    OBVIOUS
  <2>6. Total(s, {w}, FALSE) = 0
    BY <2>2, <2>3, <2>4, <2>5, Zenon
  <2> QED  BY <2>6
<1>3. S = Trees
  <2> HIDE DEF S
  <2> QED  BY <1>1, <1>2, TreeInduction
<1> QED  BY <1>3

\* What holds at every node.
Local(t) ==
    /\ t.depth = depth(t.left, t.right)
    /\ balance(t) \in -1 .. 1
    /\ t.count > 0
    /\ \A w \in In(t.left) : w < t.item
    /\ \A w \in In(t.right) : w > t.item

\* It holds at all nodes of t: at all trees of a set that has t and their subtrees.
Closed(S) == \A s \in S : s # Nil => Local(s) /\ s.left \in S /\ s.right \in S
Good(t) == \E S \in SUBSET Trees : t \in S /\ Closed(S)

\* The empty tree is sound.
LEMMA GoodNil == Good(Nil)
<1>1. {Nil} \in SUBSET Trees /\ Closed({Nil})
  BY NilIn DEF Closed
<1> QED  BY <1>1 DEF Good

\* A sound tree is one of the model.
LEMMA GoodIn == ASSUME NEW t, Good(t) PROVE t \in Trees
  BY DEF Good

\* The subtrees of a sound tree are sound.
LEMMA GoodParts ==
    ASSUME NEW t, Good(t), t # Nil
    PROVE  Local(t) /\ Good(t.left) /\ Good(t.right)
<1>1. PICK S \in SUBSET Trees : t \in S /\ Closed(S)
  BY DEF Good
<1>2. Local(t) /\ t.left \in S /\ t.right \in S
  BY <1>1 DEF Closed
<1> QED  BY <1>1, <1>2 DEF Good

\* A node of sound subtrees is sound if it is so itself.
LEMMA GoodFrom ==
    ASSUME NEW t \in Trees, Local(t), Good(t.left), Good(t.right)
    PROVE  Good(t)
<1>1. PICK L \in SUBSET Trees : t.left \in L /\ Closed(L)
  BY DEF Good
<1>2. PICK R \in SUBSET Trees : t.right \in R /\ Closed(R)
  BY DEF Good
<1>3. Closed(L \cup R \cup {t})
  BY <1>1, <1>2 DEF Closed
<1> QED  BY <1>3 DEF Good

\* DELTA() of a null pointer.
LEMMA DeltaNil == delta(Nil) = -1
  BY DEF delta, Nil

\* A good tree has a level more than its depth says.
LEMMA GoodLevels ==
    ASSUME NEW t, Good(t)
    PROVE  /\ delta(t) \in Nat \cup {-1} /\ (t # Nil => delta(t) \in Nat)
           /\ t \in Tree[delta(t) + 1]
<1> DEFINE P(s) == /\ delta(s) \in Nat \cup {-1} /\ (s # Nil => delta(s) \in Nat)
                   /\ s \in Tree[delta(s) + 1]
           S == {s \in Trees : Good(s) => P(s)}
<1>1. S \in SUBSET Trees /\ Nil \in S
  <2>1. P(Nil)
    BY DeltaNil, Levels
  <2> QED  BY <2>1, NilIn
<1>2. ASSUME NEW s \in Trees \ {Nil}, s.left \in S /\ s.right \in S PROVE s \in S
  <2> SUFFICES ASSUME Good(s) PROVE P(s)
    OBVIOUS
  <2>1. Local(s) /\ P(s.left) /\ P(s.right)
    BY <1>2, GoodParts
  <2>2. /\ s = [depth |-> s.depth, count |-> s.count, item |-> s.item,
                   left |-> s.left, right |-> s.right]
        /\ s.depth \in Nat /\ s.count \in Nat /\ s.item \in Words
    BY Subtrees
  <2> DEFINE h == s.depth
  <2>3. h \in Nat /\ delta(s.left) + 1 <= h /\ delta(s.right) + 1 <= h /\ delta(s) = h
    BY <2>1, <2>2 DEF Local, depth, delta
  <2>4. s.left \in Tree[h] /\ s.right \in Tree[h]
    <3>1. delta(s.left) + 1 \in Nat /\ delta(s.right) + 1 \in Nat
      BY <2>1
    <3> QED  BY <2>1, <2>3, <3>1, Monotone
  <2>5. s \in Tree[h + 1]
    BY <2>2, <2>4, NodeFits
  <2> QED  BY <2>3, <2>5
<1>3. S = Trees
  <2> HIDE DEF S
  <2> QED  BY <1>1, <1>2, TreeInduction
<1> QED  BY <1>3, GoodIn
-----------------------------------------------------------------------------
(***************************************************************************)
(* Building and rotating.                                                  *)
(***************************************************************************)
\* The subtrees l and r are sound and on the right sides of the word x, and a node
\* above them is not too high.
Shape(l, r, x, c) ==
    /\ Good(l) /\ Good(r) /\ x \in Words /\ c \in Nat \ {0}
    /\ \A w \in In(l) : w < x
    /\ \A w \in In(r) : w > x
    /\ delta(l) + 2 <= MaxLevels /\ delta(r) + 2 <= MaxLevels

\* n is sound and has what a node with these subtrees has.
Keeps(n, l, r, x, c) ==
    /\ Good(n) /\ n # Nil
    /\ In(n) = In(l) \cup In(r) \cup {x}
    /\ \A W, once : Total(n, W, once) = Total(l, W, once) + Total(r, W, once)
                                          + Weight(x, c, W, once)

Made(l, r, x, c) ==
    [depth |-> depth(l, r), count |-> c, item |-> x, left |-> l, right |-> r]

\* Node() in terms of the parts.
LEMMA NodeIs == \A t, l, r : Node(t, l, r) = Made(l, r, t.item, t.count)
  BY DEF Node, Made

\* The depths of sound trees, for the arithmetic.
LEMMA Numbers ==
    ASSUME NEW t, Good(t)
    PROVE  /\ delta(t) \in Int /\ delta(t) >= -1 /\ (t # Nil => delta(t) >= 0)
           /\ MaxLevels \in Nat
  BY GoodLevels, AvlAssumption

\* A node over two sound trees of about the same depth is sound.
LEMMA Build ==
    ASSUME NEW l, NEW r, NEW x, NEW c, Shape(l, r, x, c), delta(l) - delta(r) \in -1 .. 1
    PROVE  LET n == Made(l, r, x, c)
           IN  Keeps(n, l, r, x, c) /\ delta(n) = depth(l, r)
<1> DEFINE n == Made(l, r, x, c)
           h == depth(l, r)
<1>1. /\ delta(l) \in Int /\ delta(l) >= -1 /\ delta(r) \in Int /\ delta(r) >= -1
      /\ MaxLevels \in Nat
      /\ l \in Tree[delta(l) + 1] /\ r \in Tree[delta(r) + 1]
  BY Numbers, GoodLevels DEF Shape
<1>2. h \in Nat /\ delta(l) + 1 <= h /\ delta(r) + 1 <= h /\ h + 1 <= MaxLevels
  BY <1>1 DEF depth, Shape
<1>3. n = [depth |-> h, count |-> c, item |-> x, left |-> l, right |-> r]
  BY DEF Made
<1> HIDE DEF h
<1>4. l \in Tree[h] /\ r \in Tree[h]
  <2>1. delta(l) + 1 \in Nat /\ delta(r) + 1 \in Nat
    BY <1>1
  <2> QED  BY <1>1, <1>2, <2>1, Monotone
<1>5. n \in Tree[h + 1] /\ n # Nil
  <2> HIDE DEF n
  <2>1. c \in Nat /\ x \in Words
    BY DEF Shape
  <2> QED  BY <1>2, <1>3, <1>4, <2>1, NodeFits
<1>6. n \in NonNil
  <2>1. Tree[h + 1] \subseteq Tree[MaxLevels]
    BY <1>1, <1>2, Monotone
  <2> QED  BY <1>5, <2>1 DEF NonNil, Trees
<1>7. n.depth = h /\ n.count = c /\ n.item = x /\ n.left = l /\ n.right = r
  BY <1>3
<1>8. Good(n)
  <2>1. Local(n)
    BY <1>7 DEF Local, h, balance, Shape
  <2> QED  BY <1>6, <1>7, <2>1, GoodFrom DEF NonNil, Shape
<1>9. In(n) = In(l) \cup In(r) \cup {x}
  BY <1>6, <1>7, InNode
<1>10. ASSUME NEW W, NEW once
       PROVE  Total(n, W, once) = Total(l, W, once) + Total(r, W, once) + Weight(x, c, W, once)
  BY <1>6, <1>7, TotalNode
<1>11. delta(n) = h
  BY <1>7 DEF delta
<1> QED  BY <1>5, <1>8, <1>9, <1>10, <1>11 DEF Keeps, h

\* The parts of a sound tree have the shape.
LEMMA PartsShape ==
    ASSUME NEW t, Good(t), t # Nil
    PROVE  /\ t.item \in Words /\ t.count \in Nat \ {0}
           /\ Good(t.left) /\ Good(t.right)
           /\ \A w \in In(t.left) : w < t.item
           /\ \A w \in In(t.right) : w > t.item
           /\ In(t) = In(t.left) \cup In(t.right) \cup {t.item}
           /\ \A W, once : Total(t, W, once) = Total(t.left, W, once) + Total(t.right, W, once)
                                                 + Weight(t.item, t.count, W, once)
           /\ delta(t) = depth(t.left, t.right)
           /\ balance(t) = delta(t.left) - delta(t.right) /\ balance(t) \in -1 .. 1
<1>1. Local(t) /\ Good(t.left) /\ Good(t.right) /\ t \in NonNil
  BY GoodParts, GoodIn DEF NonNil
<1>2. t.item \in Words /\ t.count \in Nat
  BY <1>1, Subtrees DEF NonNil
<1>3. \A W, once : Total(t, W, once) = Total(t.left, W, once) + Total(t.right, W, once)
                                                 + Weight(t.item, t.count, W, once)
  BY <1>1, TotalNode
<1> QED  BY <1>1, <1>2, <1>3, InNode DEF Local, delta, balance

\* rotate_right() takes the shape back where the left subtree is too high, and its
\* own left subtree no lower than its right one.
LEMMA RotateRight ==
    ASSUME NEW u, NEW l, NEW r, NEW x, NEW c, Shape(l, r, x, c),
           u.left = l, u.right = r, u.item = x, u.count = c,
           delta(l) = delta(r) + 2, balance(l) >= 0
    PROVE  /\ Keeps(rotate_right(u), l, r, x, c)
           /\ delta(rotate_right(u)) = delta(l) + 1 - balance(l)
<1> DEFINE y == l.item
           d == l.count
           a == l.left
           b == l.right
           p == Made(b, r, x, c)
           n == Made(a, p, y, d)
<1>1. /\ delta(l) \in Int /\ delta(r) \in Int /\ delta(r) >= -1 /\ MaxLevels \in Nat
      /\ l # Nil /\ delta(l) + 2 <= MaxLevels
  BY Numbers, DeltaNil DEF Shape
<1>2. /\ y \in Words /\ d \in Nat \ {0} /\ Good(a) /\ Good(b)
      /\ \A w \in In(a) : w < y
      /\ \A w \in In(b) : w > y
      /\ In(l) = In(a) \cup In(b) \cup {y}
      /\ delta(l) = depth(a, b)
      /\ balance(l) = delta(a) - delta(b) /\ balance(l) \in -1 .. 1
  BY <1>1, PartsShape DEF Shape
<1>14. \A W, once : Total(l, W, once) = Total(a, W, once) + Total(b, W, once)
                                         + Weight(y, d, W, once)
  BY <1>1, PartsShape DEF Shape
<1>3. /\ delta(a) \in Int /\ delta(a) >= -1 /\ delta(b) \in Int /\ delta(b) >= -1
  BY <1>2, Numbers
<1>4. rotate_right(u) = n
  BY NodeIs DEF rotate_right, Made
<1> HIDE DEF p, n, y, d, a, b
<1>5. delta(a) = delta(l) - 1 /\ delta(b) = delta(l) - 1 - balance(l)
  BY <1>1, <1>2, <1>3 DEF depth
<1>15. balance(l) \in 0 .. 1
  BY <1>2
<1>6. Shape(b, r, x, c) /\ delta(b) - delta(r) \in -1 .. 1
  <2>1. \A w \in In(b) : w < x
    BY <1>2 DEF Shape
  <2>2. delta(b) + 2 <= MaxLevels /\ delta(b) - delta(r) \in -1 .. 1
    BY <1>1, <1>2, <1>5 DEF Shape
  <2> QED  BY <1>2, <2>1, <2>2 DEF Shape
<1>7. Keeps(p, b, r, x, c) /\ delta(p) = depth(b, r)
  BY <1>6, Build DEF p
<1>8. delta(p) = delta(l) - balance(l)
  BY <1>1, <1>2, <1>5, <1>7 DEF depth
<1>9. Shape(a, p, y, d) /\ delta(a) - delta(p) \in -1 .. 1
  <2>1. \A w \in In(p) : w > y
    <3>1. In(p) = In(b) \cup In(r) \cup {x}
      BY <1>7 DEF Keeps
    <3>2. y < x
      BY <1>2 DEF Shape
    <3>3. ASSUME NEW w \in In(r) PROVE w > y
      <4>1. w > x /\ w \in Int /\ x \in Int /\ y \in Int
        BY <1>2, AvlAssumption DEF Shape, In
      <4> QED  BY <3>2, <4>1
    <3>4. x > y
      BY <1>2, <3>2, AvlAssumption DEF Shape
    <3> QED  BY <1>2, <3>1, <3>3, <3>4
  <2>2. /\ delta(a) + 2 <= MaxLevels /\ delta(p) + 2 <= MaxLevels
        /\ delta(a) - delta(p) \in -1 .. 1
    BY <1>1, <1>5, <1>8, <1>15
  <2>3. Good(p)
    BY <1>7 DEF Keeps
  <2>4. Good(a) /\ y \in Words /\ d \in Nat \ {0} /\ \A w \in In(a) : w < y
    BY <1>2
  <2> QED  BY <2>1, <2>2, <2>3, <2>4, Zenon DEF Shape
<1>10. Keeps(n, a, p, y, d) /\ delta(n) = depth(a, p)
  BY <1>9, Build DEF n
<1>11. delta(n) = delta(l) + 1 - balance(l)
  BY <1>1, <1>5, <1>8, <1>10, <1>15 DEF depth
<1>12. In(n) = In(l) \cup In(r) \cup {x}
  BY <1>2, <1>7, <1>10 DEF Keeps
<1>13. ASSUME NEW W, NEW once
       PROVE  Total(n, W, once) = Total(l, W, once) + Total(r, W, once) + Weight(x, c, W, once)
  <2>1. Total(n, W, once) = Total(a, W, once) + Total(p, W, once) + Weight(y, d, W, once)
    BY <1>10 DEF Keeps
  <2>2. Total(p, W, once) = Total(b, W, once) + Total(r, W, once) + Weight(x, c, W, once)
    BY <1>7 DEF Keeps
  <2>3. Total(l, W, once) = Total(a, W, once) + Total(b, W, once) + Weight(y, d, W, once)
    BY <1>14
  <2>4. /\ Total(a, W, once) \in Nat /\ Total(b, W, once) \in Nat
        /\ Total(r, W, once) \in Nat
        /\ Weight(x, c, W, once) \in Nat /\ Weight(y, d, W, once) \in Nat
    BY <1>2, GoodIn, TotalNat, WeightNat DEF Shape
  <2> QED  BY <2>1, <2>2, <2>3, <2>4
<1> QED  BY <1>4, <1>10, <1>11, <1>12, <1>13 DEF Keeps

\* rotate_left() is its mirror image.
LEMMA RotateLeft ==
    ASSUME NEW u, NEW l, NEW r, NEW x, NEW c, Shape(l, r, x, c),
           u.left = l, u.right = r, u.item = x, u.count = c,
           delta(r) = delta(l) + 2, balance(r) <= 0
    PROVE  /\ Keeps(rotate_left(u), l, r, x, c)
           /\ delta(rotate_left(u)) = delta(r) + 1 + balance(r)
<1> DEFINE y == r.item
           d == r.count
           a == r.left
           b == r.right
           p == Made(l, a, x, c)
           n == Made(p, b, y, d)
<1>1. /\ delta(l) \in Int /\ delta(r) \in Int /\ delta(l) >= -1 /\ MaxLevels \in Nat
      /\ r # Nil /\ delta(r) + 2 <= MaxLevels
  BY Numbers, DeltaNil DEF Shape
<1>2. /\ y \in Words /\ d \in Nat \ {0} /\ Good(a) /\ Good(b)
      /\ \A w \in In(a) : w < y
      /\ \A w \in In(b) : w > y
      /\ In(r) = In(a) \cup In(b) \cup {y}
      /\ delta(r) = depth(a, b)
      /\ balance(r) = delta(a) - delta(b) /\ balance(r) \in -1 .. 1
  BY <1>1, PartsShape DEF Shape
<1>14. \A W, once : Total(r, W, once) = Total(a, W, once) + Total(b, W, once)
                                         + Weight(y, d, W, once)
  BY <1>1, PartsShape DEF Shape
<1>3. /\ delta(a) \in Int /\ delta(a) >= -1 /\ delta(b) \in Int /\ delta(b) >= -1
  BY <1>2, Numbers
<1>4. rotate_left(u) = n
  BY NodeIs DEF rotate_left, Made
<1> HIDE DEF p, n, y, d, a, b
<1>5. delta(b) = delta(r) - 1 /\ delta(a) = delta(r) - 1 + balance(r)
  BY <1>1, <1>2, <1>3 DEF depth
<1>15. balance(r) \in -1 .. 0
  BY <1>2
<1>6. Shape(l, a, x, c) /\ delta(l) - delta(a) \in -1 .. 1
  <2>1. \A w \in In(a) : w > x
    BY <1>2 DEF Shape
  <2>2. delta(a) + 2 <= MaxLevels /\ delta(l) - delta(a) \in -1 .. 1
    BY <1>1, <1>2, <1>5 DEF Shape
  <2> QED  BY <1>2, <2>1, <2>2 DEF Shape
<1>7. Keeps(p, l, a, x, c) /\ delta(p) = depth(l, a)
  BY <1>6, Build DEF p
<1>8. delta(p) = delta(r) + balance(r)
  BY <1>1, <1>2, <1>5, <1>7 DEF depth
<1>9. Shape(p, b, y, d) /\ delta(p) - delta(b) \in -1 .. 1
  <2>1. \A w \in In(p) : w < y
    <3>1. In(p) = In(l) \cup In(a) \cup {x}
      BY <1>7 DEF Keeps
    <3>2. y > x
      BY <1>2 DEF Shape
    <3>3. ASSUME NEW w \in In(l) PROVE w < y
      <4>1. w < x /\ w \in Int /\ x \in Int /\ y \in Int
        BY <1>2, AvlAssumption DEF Shape, In
      <4> QED  BY <3>2, <4>1
    <3>4. x < y
      BY <1>2, <3>2, AvlAssumption DEF Shape
    <3> QED  BY <1>2, <3>1, <3>3, <3>4
  <2>2. /\ delta(b) + 2 <= MaxLevels /\ delta(p) + 2 <= MaxLevels
        /\ delta(p) - delta(b) \in -1 .. 1
    BY <1>1, <1>5, <1>8, <1>15
  <2>3. Good(p)
    BY <1>7 DEF Keeps
  <2>4. Good(b) /\ y \in Words /\ d \in Nat \ {0} /\ \A w \in In(b) : w > y
    BY <1>2
  <2> QED  BY <2>1, <2>2, <2>3, <2>4, Zenon DEF Shape
<1>10. Keeps(n, p, b, y, d) /\ delta(n) = depth(p, b)
  BY <1>9, Build DEF n
<1>11. delta(n) = delta(r) + 1 + balance(r)
  BY <1>1, <1>5, <1>8, <1>10, <1>15 DEF depth
<1>12. In(n) = In(l) \cup In(r) \cup {x}
  BY <1>2, <1>7, <1>10 DEF Keeps
<1>13. ASSUME NEW W, NEW once
       PROVE  Total(n, W, once) = Total(l, W, once) + Total(r, W, once) + Weight(x, c, W, once)
  <2>1. Total(n, W, once) = Total(p, W, once) + Total(b, W, once) + Weight(y, d, W, once)
    BY <1>10 DEF Keeps
  <2>2. Total(p, W, once) = Total(l, W, once) + Total(a, W, once) + Weight(x, c, W, once)
    BY <1>7 DEF Keeps
  <2>3. Total(r, W, once) = Total(a, W, once) + Total(b, W, once) + Weight(y, d, W, once)
    BY <1>14
  <2>4. /\ Total(a, W, once) \in Nat /\ Total(b, W, once) \in Nat
        /\ Total(l, W, once) \in Nat
        /\ Weight(x, c, W, once) \in Nat /\ Weight(y, d, W, once) \in Nat
    BY <1>2, GoodIn, TotalNat, WeightNat DEF Shape
  <2> QED  BY <2>1, <2>2, <2>3, <2>4
<1> QED  BY <1>4, <1>10, <1>11, <1>12, <1>13 DEF Keeps

\* What a double rotation makes: the subtrees a, b, c, d and the words x < y < z
\* between them in two nodes under a third.
LEMMA Middle ==
    ASSUME NEW a, NEW b, NEW c, NEW d, NEW x, NEW y, NEW z, NEW cx, NEW cy, NEW cz, NEW k,
           Good(a), Good(b), Good(c), Good(d),
           x \in Words, y \in Words, z \in Words,
           cx \in Nat \ {0}, cy \in Nat \ {0}, cz \in Nat \ {0},
           x < y, y < z,
           \A w \in In(a) : w < x,
           \A w \in In(b) : w > x /\ w < y,
           \A w \in In(c) : w > y /\ w < z,
           \A w \in In(d) : w > z,
           k \in Int, k + 4 <= MaxLevels,
           delta(a) = k, delta(d) = k, delta(b) \in k - 1 .. k, delta(c) \in k - 1 .. k
    PROVE  LET p == Made(a, b, x, cx)
               q == Made(c, d, z, cz)
               n == Made(p, q, y, cy)
           IN  /\ Good(n) /\ n # Nil /\ delta(n) = k + 2
               /\ In(n) = In(a) \cup In(b) \cup In(c) \cup In(d) \cup {x, y, z}
               /\ \A W, once :
                    Total(n, W, once) =
                      Total(a, W, once) + Total(b, W, once) + Total(c, W, once)
                        + Total(d, W, once) + Weight(x, cx, W, once)
                        + Weight(y, cy, W, once) + Weight(z, cz, W, once)
<1> DEFINE p == Made(a, b, x, cx)
           q == Made(c, d, z, cz)
           n == Made(p, q, y, cy)
<1>1. x \in Int /\ y \in Int /\ z \in Int /\ MaxLevels \in Nat
  BY AvlAssumption
<1> HIDE DEF p, q, n
<1>2. Shape(a, b, x, cx) /\ Shape(c, d, z, cz)
  BY <1>1 DEF Shape
<1>3. delta(a) - delta(b) \in -1 .. 1 /\ delta(c) - delta(d) \in -1 .. 1
  BY <1>1
<1>4. Keeps(p, a, b, x, cx) /\ delta(p) = k + 1
  <2>1. Keeps(p, a, b, x, cx) /\ delta(p) = depth(a, b)
    BY <1>2, <1>3, Build DEF p
  <2> QED  BY <1>1, <2>1 DEF depth
<1>5. Keeps(q, c, d, z, cz) /\ delta(q) = k + 1
  <2>1. Keeps(q, c, d, z, cz) /\ delta(q) = depth(c, d)
    BY <1>2, <1>3, Build DEF q
  <2> QED  BY <1>1, <2>1 DEF depth
<1>6. Good(p) /\ In(p) = In(a) \cup In(b) \cup {x}
  BY <1>4 DEF Keeps
<1>7. Good(q) /\ In(q) = In(c) \cup In(d) \cup {z}
  BY <1>5 DEF Keeps
<1>8. Shape(p, q, y, cy)
  <2>1. \A w \in In(a) \cup In(d) : w \in Int
    BY AvlAssumption DEF In
  <2>2. \A w \in In(p) : w < y
    BY <1>1, <1>6, <2>1
  <2>3. \A w \in In(q) : w > y
    BY <1>1, <1>7, <2>1
  <2>4. delta(p) + 2 <= MaxLevels /\ delta(q) + 2 <= MaxLevels
    BY <1>1, <1>4, <1>5
  <2> QED  BY <1>6, <1>7, <2>2, <2>3, <2>4 DEF Shape
<1>9. Keeps(n, p, q, y, cy) /\ delta(n) = k + 2
  <2>1. delta(p) - delta(q) \in -1 .. 1
    BY <1>1, <1>4, <1>5
  <2>2. Keeps(n, p, q, y, cy) /\ delta(n) = depth(p, q)
    BY <1>8, <2>1, Build DEF n
  <2> QED  BY <1>1, <1>4, <1>5, <2>2 DEF depth
<1>10. Good(n) /\ n # Nil /\ In(n) = In(p) \cup In(q) \cup {y}
  BY <1>9 DEF Keeps
<1>11. ASSUME NEW W, NEW once
       PROVE  Total(n, W, once) =
                Total(a, W, once) + Total(b, W, once) + Total(c, W, once)
                  + Total(d, W, once) + Weight(x, cx, W, once)
                  + Weight(y, cy, W, once) + Weight(z, cz, W, once)
  <2>1. Total(n, W, once) = Total(p, W, once) + Total(q, W, once) + Weight(y, cy, W, once)
    BY <1>9 DEF Keeps
  <2>2. Total(p, W, once) = Total(a, W, once) + Total(b, W, once) + Weight(x, cx, W, once)
    BY <1>4 DEF Keeps
  <2>3. Total(q, W, once) = Total(c, W, once) + Total(d, W, once) + Weight(z, cz, W, once)
    BY <1>5 DEF Keeps
  <2>4. /\ Total(a, W, once) \in Nat /\ Total(b, W, once) \in Nat
        /\ Total(c, W, once) \in Nat /\ Total(d, W, once) \in Nat
        /\ Weight(x, cx, W, once) \in Nat /\ Weight(y, cy, W, once) \in Nat
        /\ Weight(z, cz, W, once) \in Nat
    BY GoodIn, TotalNat, WeightNat
  <2> QED  BY <2>1, <2>2, <2>3, <2>4
<1> QED  BY <1>6, <1>7, <1>9, <1>10, <1>11 DEF n, p, q

\* rotate_left_right(), where the left subtree is too high on its right side.
LEMMA RotateLeftRight ==
    ASSUME NEW u, NEW e, NEW l, NEW r, NEW x, NEW c, Shape(l, r, x, c),
           u = [depth |-> e, count |-> c, item |-> x, left |-> l, right |-> r],
           delta(l) = delta(r) + 2, balance(l) = -1
    PROVE  /\ Keeps(rotate_left_right(u), l, r, x, c)
           /\ delta(rotate_left_right(u)) = delta(l)
<1> DEFINE m == l.right
           k == delta(r)
           p == Made(l.left, m.left, l.item, l.count)
           q == Made(m.right, r, x, c)
           n == Made(p, q, m.item, m.count)
<1>1. /\ delta(l) \in Int /\ k \in Int /\ k >= -1 /\ MaxLevels \in Nat
      /\ l # Nil /\ k + 4 <= MaxLevels
  BY Numbers, DeltaNil DEF Shape
<1>2. /\ l.item \in Words /\ l.count \in Nat \ {0}
      /\ Good(l.left) /\ Good(m)
      /\ \A w \in In(l.left) : w < l.item
      /\ \A w \in In(m) : w > l.item
      /\ In(l) = In(l.left) \cup In(m) \cup {l.item}
      /\ delta(l) = depth(l.left, m)
      /\ balance(l) = delta(l.left) - delta(m)
  BY <1>1, PartsShape DEF Shape
<1>3. \A W, once : Total(l, W, once) = Total(l.left, W, once) + Total(m, W, once)
                                         + Weight(l.item, l.count, W, once)
  BY <1>1, PartsShape DEF Shape
<1>4. delta(l.left) \in Int /\ delta(m) \in Int
  BY <1>2, Numbers
<1>5. delta(l.left) = k /\ delta(m) = k + 1
  BY <1>1, <1>2, <1>4 DEF depth
<1>6. m # Nil
  BY <1>1, <1>5, DeltaNil
<1>7. /\ m.item \in Words /\ m.count \in Nat \ {0}
      /\ Good(m.left) /\ Good(m.right)
      /\ \A w \in In(m.left) : w < m.item
      /\ \A w \in In(m.right) : w > m.item
      /\ In(m) = In(m.left) \cup In(m.right) \cup {m.item}
      /\ delta(m) = depth(m.left, m.right)
      /\ balance(m) = delta(m.left) - delta(m.right) /\ balance(m) \in -1 .. 1
  BY <1>2, <1>6, PartsShape
<1>8. \A W, once : Total(m, W, once) = Total(m.left, W, once) + Total(m.right, W, once)
                                         + Weight(m.item, m.count, W, once)
  BY <1>2, <1>6, PartsShape
<1>9. delta(m.left) \in k - 1 .. k /\ delta(m.right) \in k - 1 .. k
  <2>1. delta(m.left) \in Int /\ delta(m.right) \in Int
    BY <1>7, Numbers
  <2> QED  BY <1>1, <1>5, <1>7, <2>1 DEF depth
<1>10. rotate_left_right(u) = n
  <2>1. rotate_left(l) = Made(p, m.right, m.item, m.count)
    BY NodeIs DEF rotate_left, Made
  <2>2. [u EXCEPT !.left = rotate_left(l)] =
          [depth |-> e, count |-> c, item |-> x, left |-> rotate_left(l), right |-> r]
    OBVIOUS
  <2>3. u.left = l
    OBVIOUS
  <2> HIDE DEF p
  <2>4. /\ rotate_left(l).left = p /\ rotate_left(l).right = m.right
        /\ rotate_left(l).item = m.item /\ rotate_left(l).count = m.count
    BY <2>1 DEF Made
  <2> DEFINE v == [u EXCEPT !.left = rotate_left(l)]
  <2>5. v.left = rotate_left(l) /\ v.right = r /\ v.item = x /\ v.count = c
    BY <2>2
  <2>6. rotate_right(v) = n
    <3> HIDE DEF v
    <3> QED  BY <2>4, <2>5, NodeIs DEF rotate_right
  <2> QED  BY <2>3, <2>6 DEF rotate_left_right
<1>11. l.item < m.item /\ m.item < x
  BY <1>2, <1>7 DEF Shape
<1>12. \A w \in In(m.left) : w > l.item /\ w < m.item
  BY <1>2, <1>7
<1>13. \A w \in In(m.right) : w > m.item /\ w < x
  BY <1>2, <1>7 DEF Shape
<1>14. /\ Good(n) /\ n # Nil /\ delta(n) = k + 2
       /\ In(n) = In(l.left) \cup In(m.left) \cup In(m.right) \cup In(r) \cup {l.item, m.item, x}
       /\ \A W, once :
            Total(n, W, once) =
              Total(l.left, W, once) + Total(m.left, W, once) + Total(m.right, W, once)
                + Total(r, W, once) + Weight(l.item, l.count, W, once)
                + Weight(m.item, m.count, W, once) + Weight(x, c, W, once)
  <2>1. /\ Good(r) /\ x \in Words /\ c \in Nat \ {0} /\ \A w \in In(r) : w > x
    BY DEF Shape
  <2>2. /\ Good(l.left) /\ Good(m.left) /\ Good(m.right)
        /\ l.item \in Words /\ m.item \in Words
        /\ l.count \in Nat \ {0} /\ m.count \in Nat \ {0}
        /\ \A w \in In(l.left) : w < l.item
    BY <1>2, <1>7
  <2> HIDE DEF m, k
  <2> QED  BY <1>1, <1>5, <1>9, <1>11, <1>12, <1>13, <2>1, <2>2, Middle DEF k
<1> HIDE DEF n, m
<1>15. In(n) = In(l) \cup In(r) \cup {x}
  BY <1>2, <1>7, <1>14
<1>16. ASSUME NEW W, NEW once
       PROVE  Total(n, W, once) = Total(l, W, once) + Total(r, W, once) + Weight(x, c, W, once)
  <2>1. Total(n, W, once) =
              Total(l.left, W, once) + Total(m.left, W, once) + Total(m.right, W, once)
                + Total(r, W, once) + Weight(l.item, l.count, W, once)
                + Weight(m.item, m.count, W, once) + Weight(x, c, W, once)
    BY <1>14
  <2>2. Total(l, W, once) = Total(l.left, W, once) + Total(m, W, once)
                              + Weight(l.item, l.count, W, once)
    BY <1>3
  <2>3. Total(m, W, once) = Total(m.left, W, once) + Total(m.right, W, once)
                              + Weight(m.item, m.count, W, once)
    BY <1>8
  <2>4. /\ Total(l.left, W, once) \in Nat /\ Total(m.left, W, once) \in Nat
        /\ Total(m.right, W, once) \in Nat /\ Total(r, W, once) \in Nat
        /\ Weight(x, c, W, once) \in Nat /\ Weight(l.item, l.count, W, once) \in Nat
        /\ Weight(m.item, m.count, W, once) \in Nat
    BY <1>2, <1>7, GoodIn, TotalNat, WeightNat DEF Shape
  <2> QED  BY <2>1, <2>2, <2>3, <2>4
<1>17. delta(n) = delta(l)
  BY <1>14
<1>18. Good(n) /\ n # Nil
  BY <1>14
<1> QED  BY <1>10, <1>15, <1>16, <1>17, <1>18 DEF Keeps

\* rotate_left_left() is its mirror image.
LEMMA RotateRightLeft ==
    ASSUME NEW u, NEW e, NEW l, NEW r, NEW x, NEW c, Shape(l, r, x, c),
           u = [depth |-> e, count |-> c, item |-> x, left |-> l, right |-> r],
           delta(r) = delta(l) + 2, balance(r) = 1
    PROVE  /\ Keeps(rotate_right_left(u), l, r, x, c)
           /\ delta(rotate_right_left(u)) = delta(r)
<1> DEFINE m == r.left
           k == delta(l)
           p == Made(l, m.left, x, c)
           q == Made(m.right, r.right, r.item, r.count)
           n == Made(p, q, m.item, m.count)
<1>1. /\ delta(r) \in Int /\ k \in Int /\ k >= -1 /\ MaxLevels \in Nat
      /\ r # Nil /\ k + 4 <= MaxLevels
  BY Numbers, DeltaNil DEF Shape
<1>2. /\ r.item \in Words /\ r.count \in Nat \ {0}
      /\ Good(r.right) /\ Good(m)
      /\ \A w \in In(r.right) : w > r.item
      /\ \A w \in In(m) : w < r.item
      /\ In(r) = In(m) \cup In(r.right) \cup {r.item}
      /\ delta(r) = depth(m, r.right)
      /\ balance(r) = delta(m) - delta(r.right)
  BY <1>1, PartsShape DEF Shape
<1>3. \A W, once : Total(r, W, once) = Total(m, W, once) + Total(r.right, W, once)
                                         + Weight(r.item, r.count, W, once)
  BY <1>1, PartsShape DEF Shape
<1>4. delta(r.right) \in Int /\ delta(m) \in Int
  BY <1>2, Numbers
<1>5. delta(r.right) = k /\ delta(m) = k + 1
  BY <1>1, <1>2, <1>4 DEF depth
<1>6. m # Nil
  BY <1>1, <1>5, DeltaNil
<1>7. /\ m.item \in Words /\ m.count \in Nat \ {0}
      /\ Good(m.left) /\ Good(m.right)
      /\ \A w \in In(m.left) : w < m.item
      /\ \A w \in In(m.right) : w > m.item
      /\ In(m) = In(m.left) \cup In(m.right) \cup {m.item}
      /\ delta(m) = depth(m.left, m.right)
      /\ balance(m) = delta(m.left) - delta(m.right) /\ balance(m) \in -1 .. 1
  BY <1>2, <1>6, PartsShape
<1>8. \A W, once : Total(m, W, once) = Total(m.left, W, once) + Total(m.right, W, once)
                                         + Weight(m.item, m.count, W, once)
  BY <1>2, <1>6, PartsShape
<1>9. delta(m.left) \in k - 1 .. k /\ delta(m.right) \in k - 1 .. k
  <2>1. delta(m.left) \in Int /\ delta(m.right) \in Int
    BY <1>7, Numbers
  <2> QED  BY <1>1, <1>5, <1>7, <2>1 DEF depth
<1>10. rotate_right_left(u) = n
  <2>1. rotate_right(r) = Made(m.left, q, m.item, m.count)
    BY NodeIs DEF rotate_right, Made
  <2>2. [u EXCEPT !.right = rotate_right(r)] =
          [depth |-> e, count |-> c, item |-> x, left |-> l, right |-> rotate_right(r)]
    OBVIOUS
  <2>3. u.right = r
    OBVIOUS
  <2> HIDE DEF q
  <2>4. /\ rotate_right(r).left = m.left /\ rotate_right(r).right = q
        /\ rotate_right(r).item = m.item /\ rotate_right(r).count = m.count
    BY <2>1 DEF Made
  <2> DEFINE v == [u EXCEPT !.right = rotate_right(r)]
  <2>5. v.left = l /\ v.right = rotate_right(r) /\ v.item = x /\ v.count = c
    BY <2>2
  <2>6. rotate_left(v) = n
    <3> HIDE DEF v
    <3> QED  BY <2>4, <2>5, NodeIs DEF rotate_left
  <2> QED  BY <2>3, <2>6 DEF rotate_right_left
<1>11. x < m.item /\ m.item < r.item
  BY <1>2, <1>7 DEF Shape
<1>12. \A w \in In(m.left) : w > x /\ w < m.item
  BY <1>2, <1>7 DEF Shape
<1>13. \A w \in In(m.right) : w > m.item /\ w < r.item
  BY <1>2, <1>7
<1>14. /\ Good(n) /\ n # Nil /\ delta(n) = k + 2
       /\ In(n) = In(l) \cup In(m.left) \cup In(m.right) \cup In(r.right) \cup {x, m.item, r.item}
       /\ \A W, once :
            Total(n, W, once) =
              Total(l, W, once) + Total(m.left, W, once) + Total(m.right, W, once)
                + Total(r.right, W, once) + Weight(x, c, W, once)
                + Weight(m.item, m.count, W, once) + Weight(r.item, r.count, W, once)
  <2>1. /\ Good(l) /\ x \in Words /\ c \in Nat \ {0} /\ \A w \in In(l) : w < x
    BY DEF Shape
  <2>2. /\ Good(r.right) /\ Good(m.left) /\ Good(m.right)
        /\ r.item \in Words /\ m.item \in Words
        /\ r.count \in Nat \ {0} /\ m.count \in Nat \ {0}
        /\ \A w \in In(r.right) : w > r.item
    BY <1>2, <1>7
  <2> HIDE DEF m, k
  <2> QED  BY <1>1, <1>5, <1>9, <1>11, <1>12, <1>13, <2>1, <2>2, Middle DEF k
<1> HIDE DEF n, m
<1>15. In(n) = In(l) \cup In(r) \cup {x}
  BY <1>2, <1>7, <1>14
<1>16. ASSUME NEW W, NEW once
       PROVE  Total(n, W, once) = Total(l, W, once) + Total(r, W, once) + Weight(x, c, W, once)
  <2>1. Total(n, W, once) =
              Total(l, W, once) + Total(m.left, W, once) + Total(m.right, W, once)
                + Total(r.right, W, once) + Weight(x, c, W, once)
                + Weight(m.item, m.count, W, once) + Weight(r.item, r.count, W, once)
    BY <1>14
  <2>2. Total(r, W, once) = Total(m, W, once) + Total(r.right, W, once)
                              + Weight(r.item, r.count, W, once)
    BY <1>3
  <2>3. Total(m, W, once) = Total(m.left, W, once) + Total(m.right, W, once)
                              + Weight(m.item, m.count, W, once)
    BY <1>8
  <2>4. /\ Total(r.right, W, once) \in Nat /\ Total(m.left, W, once) \in Nat
        /\ Total(m.right, W, once) \in Nat /\ Total(l, W, once) \in Nat
        /\ Weight(x, c, W, once) \in Nat /\ Weight(r.item, r.count, W, once) \in Nat
        /\ Weight(m.item, m.count, W, once) \in Nat
    BY <1>2, <1>7, GoodIn, TotalNat, WeightNat DEF Shape
  <2> QED  BY <2>1, <2>2, <2>3, <2>4
<1>17. delta(n) = delta(r)
  BY <1>14
<1>18. Good(n) /\ n # Nil
  BY <1>14
<1> QED  BY <1>10, <1>15, <1>16, <1>17, <1>18 DEF Keeps

\* The end of delete() makes a sound tree of subtrees that differ by two at most.
LEMMA RebalancedIs ==
    ASSUME NEW l, NEW r, NEW x, NEW c, Shape(l, r, x, c), delta(l) - delta(r) \in -2 .. 2
    PROVE  LET n == Rebalanced(Made(l, r, x, c))
           IN  /\ Keeps(n, l, r, x, c)
               /\ delta(n) \in depth(l, r) - 1 .. depth(l, r)
               /\ delta(l) - delta(r) \in -1 .. 1 => delta(n) = depth(l, r)
<1> DEFINE u == Made(l, r, x, c)
           e == depth(l, r)
<1>1. u = [depth |-> e, count |-> c, item |-> x, left |-> l, right |-> r]
  BY DEF Made
<1>2. u.left = l /\ u.right = r /\ u.item = x /\ u.count = c
  BY <1>1
<1>3. /\ delta(l) \in Int /\ delta(r) \in Int /\ delta(l) >= -1 /\ delta(r) >= -1
      /\ (l # Nil => balance(l) \in -1 .. 1) /\ (r # Nil => balance(r) \in -1 .. 1)
  BY Numbers, PartsShape DEF Shape
<1>4. balance(u) = delta(l) - delta(r)
  BY <1>2 DEF balance
<1> HIDE DEF u
<1>5. CASE balance(u) > 1
  <2>1. delta(l) = delta(r) + 2 /\ e = delta(l) + 1
    BY <1>3, <1>4, <1>5 DEF depth
  <2>2. balance(l) \in -1 .. 1
    BY <1>3, <2>1, DeltaNil
  <2>3. CASE balance(l) >= 0
    <3>1. Rebalanced(u) = rotate_right(u)
      BY <1>2, <1>5, <2>3 DEF Rebalanced
    <3>2. /\ Keeps(rotate_right(u), l, r, x, c)
          /\ delta(rotate_right(u)) = delta(l) + 1 - balance(l)
      BY <1>2, <2>1, <2>3, RotateRight
    <3>3. delta(rotate_right(u)) \in e - 1 .. e
      BY <1>3, <2>1, <2>2, <2>3, <3>2
    <3> QED  BY <1>3, <2>1, <3>1, <3>2, <3>3 DEF u
  <2>4. CASE balance(l) < 0
    <3>1. Rebalanced(u) = rotate_left_right(u)
      BY <1>2, <1>5, <2>2, <2>4 DEF Rebalanced
    <3>2. balance(l) = -1
      BY <2>2, <2>4
    <3>3. /\ Keeps(rotate_left_right(u), l, r, x, c)
          /\ delta(rotate_left_right(u)) = delta(l)
      BY <1>1, <2>1, <3>2, RotateLeftRight
    <3>4. delta(rotate_left_right(u)) \in e - 1 .. e
      BY <1>3, <2>1, <3>3
    <3> QED  BY <1>3, <2>1, <3>1, <3>3, <3>4 DEF u
  <2> QED  BY <2>2, <2>3, <2>4
<1>6. CASE balance(u) < -1
  <2>1. delta(r) = delta(l) + 2 /\ e = delta(r) + 1
    BY <1>3, <1>4, <1>6 DEF depth
  <2>2. balance(r) \in -1 .. 1
    BY <1>3, <2>1, DeltaNil
  <2>3. CASE balance(r) <= 0
    <3>1. Rebalanced(u) = rotate_left(u)
      BY <1>2, <1>3, <1>4, <1>6, <2>3 DEF Rebalanced
    <3>2. /\ Keeps(rotate_left(u), l, r, x, c)
          /\ delta(rotate_left(u)) = delta(r) + 1 + balance(r)
      BY <1>2, <2>1, <2>3, RotateLeft
    <3>3. delta(rotate_left(u)) \in e - 1 .. e
      BY <1>3, <2>1, <2>2, <2>3, <3>2
    <3> QED  BY <1>3, <2>1, <3>1, <3>2, <3>3 DEF u
  <2>4. CASE balance(r) > 0
    <3>1. Rebalanced(u) = rotate_right_left(u)
      BY <1>2, <1>3, <1>4, <1>6, <2>2, <2>4 DEF Rebalanced
    <3>2. balance(r) = 1
      BY <2>2, <2>4
    <3>3. /\ Keeps(rotate_right_left(u), l, r, x, c)
          /\ delta(rotate_right_left(u)) = delta(r)
      BY <1>1, <2>1, <3>2, RotateRightLeft
    <3>4. delta(rotate_right_left(u)) \in e - 1 .. e
      BY <1>3, <2>1, <3>3
    <3> QED  BY <1>3, <2>1, <3>1, <3>3, <3>4 DEF u
  <2> QED  BY <2>2, <2>3, <2>4
<1>7. CASE balance(u) \in -1 .. 1
  <2>1. Rebalanced(u) = u
    BY <1>7 DEF Rebalanced
  <2>2. delta(l) - delta(r) \in -1 .. 1
    BY <1>4, <1>7
  <2>3. Keeps(u, l, r, x, c) /\ delta(u) = e
    BY <2>2, Build DEF u
  <2>4. e \in Int
    BY <1>3 DEF depth
  <2> HIDE DEF e
  <2> QED  BY <2>1, <2>3, <2>4 DEF u, e
<1> QED  BY <1>3, <1>4, <1>5, <1>6, <1>7
-----------------------------------------------------------------------------
(***************************************************************************)
(* Insertion.                                                              *)
(***************************************************************************)
\* What Total grows by if w is added to t.
Gain(t, w, W, once) ==
    IF w \notin W THEN 0 ELSE IF once THEN (IF w \in In(t) THEN 0 ELSE 1) ELSE 1

\* n is t with the word w; if it has become higher, then on the side of w.
Updated(n, t, w) ==
    /\ Good(n) /\ n # Nil
    /\ delta(n) \in delta(t) .. delta(t) + 1
    /\ In(n) = In(t) \cup {w}
    /\ \A W, once : Total(n, W, once) = Total(t, W, once) + Gain(t, w, W, once)
    /\ (t # Nil /\ delta(n) = delta(t) + 1) =>
         /\ n.item # w
         /\ w < n.item => balance(n) = 1
         /\ w > n.item => balance(n) = -1

\* A gain is a natural number.
LEMMA GainNat == ASSUME NEW t, NEW w, NEW W, NEW once PROVE Gain(t, w, W, once) \in Nat
  BY DEF Gain

\* A word is added to the empty tree.
LEMMA UpdateNil ==
    ASSUME NEW w \in Words, MaxLevels >= 1
    PROVE  Updated(Leaf(w), Nil, w)
<1> DEFINE n == Made(Nil, Nil, w, 1)
<1>1. Leaf(w) = n
  BY DeltaNil DEF Leaf, Made, depth
<1>2. Shape(Nil, Nil, w, 1) /\ delta(Nil) - delta(Nil) \in -1 .. 1 /\ depth(Nil, Nil) = 0
  BY DeltaNil, InNil, GoodNil, AvlAssumption DEF Shape, depth
<1>3. Keeps(n, Nil, Nil, w, 1) /\ delta(n) = 0
  BY <1>2, Build
<1> HIDE DEF n
<1>4. ASSUME NEW W, NEW once
      PROVE  Total(n, W, once) = Total(Nil, W, once) + Gain(Nil, w, W, once)
  <2>1. Total(Nil, W, once) = 0
    BY TotalIs
  <2>2. Weight(w, 1, W, once) = Gain(Nil, w, W, once)
    BY InNil DEF Weight, Gain
  <2>3. Total(n, W, once) = 0 + 0 + Weight(w, 1, W, once)
    BY <1>3, <2>1 DEF Keeps
  <2> QED  BY <2>1, <2>2, <2>3, GainNat
<1>5. Good(n) /\ n # Nil /\ In(n) = In(Nil) \cup {w}
  BY <1>3, InNil DEF Keeps
<1> QED  BY <1>1, <1>3, <1>4, <1>5, DeltaNil DEF Updated

\* A word is added to the node that has it: its count grows.
LEMMA UpdateHit ==
    ASSUME NEW t, Good(t), t # Nil, delta(t) + 2 <= MaxLevels
    PROVE  Updated(Node([t EXCEPT !.count = @ + 1], t.left, t.right), t, t.item)
<1> DEFINE n == Made(t.left, t.right, t.item, t.count + 1)
<1>1. /\ t.item \in Words /\ t.count \in Nat \ {0}
      /\ Good(t.left) /\ Good(t.right)
      /\ \A w \in In(t.left) : w < t.item
      /\ \A w \in In(t.right) : w > t.item
      /\ In(t) = In(t.left) \cup In(t.right) \cup {t.item}
      /\ delta(t) = depth(t.left, t.right)
      /\ balance(t) = delta(t.left) - delta(t.right) /\ balance(t) \in -1 .. 1
  BY PartsShape
<1>2. \A W, once : Total(t, W, once) = Total(t.left, W, once) + Total(t.right, W, once)
                                         + Weight(t.item, t.count, W, once)
  BY PartsShape
<1>3. Node([t EXCEPT !.count = @ + 1], t.left, t.right) = n
  <2>1. t = [depth |-> t.depth, count |-> t.count, item |-> t.item,
             left |-> t.left, right |-> t.right]
    BY GoodIn, Subtrees
  <2>2. [t EXCEPT !.count = @ + 1].item = t.item /\ [t EXCEPT !.count = @ + 1].count = t.count + 1
    BY <2>1
  <2> QED  BY <2>2, NodeIs
<1>4. /\ delta(t) \in Int /\ delta(t.left) \in Int /\ delta(t.right) \in Int /\ MaxLevels \in Nat
  BY <1>1, Numbers
<1>5. Shape(t.left, t.right, t.item, t.count + 1)
  <2>1. delta(t.left) + 2 <= MaxLevels /\ delta(t.right) + 2 <= MaxLevels
    BY <1>1, <1>4 DEF depth
  <2>2. t.count + 1 \in Nat \ {0}
    BY <1>1
  <2> QED  BY <1>1, <2>1, <2>2 DEF Shape
<1>6. Keeps(n, t.left, t.right, t.item, t.count + 1) /\ delta(n) = delta(t)
  BY <1>1, <1>5, Build
<1> HIDE DEF n
<1>7. ASSUME NEW W, NEW once
      PROVE  Total(n, W, once) = Total(t, W, once) + Gain(t, t.item, W, once)
  <2>1. Total(n, W, once) = Total(t.left, W, once) + Total(t.right, W, once)
                              + Weight(t.item, t.count + 1, W, once)
    BY <1>6 DEF Keeps
  <2>2. Weight(t.item, t.count + 1, W, once)
          = Weight(t.item, t.count, W, once) + Gain(t, t.item, W, once)
    BY <1>1 DEF Weight, Gain
  <2>3. /\ Total(t.left, W, once) \in Nat /\ Total(t.right, W, once) \in Nat
        /\ Weight(t.item, t.count, W, once) \in Nat /\ Gain(t, t.item, W, once) \in Nat
    BY <1>1, GoodIn, TotalNat, WeightNat, GainNat
  <2> QED  BY <1>2, <2>1, <2>2, <2>3
<1>8. Good(n) /\ n # Nil /\ In(n) = In(t) \cup {t.item}
  BY <1>1, <1>6 DEF Keeps
<1> QED  BY <1>3, <1>4, <1>6, <1>7, <1>8 DEF Updated

\* A word is added on the left; a rotation comes if that side is too high.
LEMMA UpdateLeft ==
    ASSUME NEW t, Good(t), t # Nil, delta(t) + 2 <= MaxLevels,
           NEW w \in Words, w < t.item, NEW a, NEW b, Updated(a, t.left, w)
    PROVE  Updated(UpdateOf(t, w, a, b), t, w)
<1> DEFINE x == t.item
           c == t.count
           l == t.left
           r == t.right
           u == [t EXCEPT !.left = a]
           n == UpdateOf(t, w, a, b)
<1>1. /\ x \in Words /\ c \in Nat \ {0}
      /\ Good(l) /\ Good(r)
      /\ \A v \in In(l) : v < x
      /\ \A v \in In(r) : v > x
      /\ In(t) = In(l) \cup In(r) \cup {x}
      /\ delta(t) = depth(l, r)
      /\ balance(t) = delta(l) - delta(r) /\ balance(t) \in -1 .. 1
  BY PartsShape
<1>2. \A W, once : Total(t, W, once) = Total(l, W, once) + Total(r, W, once)
                                         + Weight(x, c, W, once)
  BY PartsShape
<1>3. u = [depth |-> t.depth, count |-> c, item |-> x, left |-> a, right |-> r]
  <2>1. t = [depth |-> t.depth, count |-> t.count, item |-> t.item,
             left |-> t.left, right |-> t.right]
    BY GoodIn, Subtrees
  <2> QED  BY <2>1
<1>4. u.left = a /\ u.right = r /\ u.item = x /\ u.count = c
  BY <1>3
<1>5. /\ delta(t) \in Int /\ delta(l) \in Int /\ delta(l) >= -1 /\ (l # Nil => delta(l) >= 0)
      /\ delta(r) \in Int /\ delta(r) >= -1 /\ MaxLevels \in Nat
  BY <1>1, Numbers
<1>6. /\ Good(a) /\ a # Nil /\ In(a) = In(l) \cup {w}
      /\ delta(a) \in delta(l) .. delta(l) + 1
  BY DEF Updated
<1>7. \A W, once : Total(a, W, once) = Total(l, W, once) + Gain(l, w, W, once)
  BY DEF Updated
<1>8. (l # Nil /\ delta(a) = delta(l) + 1) =>
         /\ a.item # w
         /\ w < a.item => balance(a) = 1
         /\ w > a.item => balance(a) = -1
  BY DEF Updated
<1>9. x \in Int /\ w \in Int /\ x # w
  <2>1. x \in Words
    BY <1>1
  <2>2. x \in Int /\ w \in Int
    BY <2>1, AvlAssumption
  <2> HIDE DEF x
  <2>3. w < x
    BY DEF x
  <2> QED  BY <2>2, <2>3
<1>10. delta(t) = depth(l, r) /\ delta(l) - delta(r) \in -1 .. 1
  BY <1>1
<1>11. Shape(a, r, x, c)
  <2>1. delta(a) + 2 <= MaxLevels /\ delta(r) + 2 <= MaxLevels
    BY <1>1, <1>5, <1>6 DEF depth
  <2>2. \A v \in In(a) : v < x
    BY <1>1, <1>6
  <2> QED  BY <1>1, <1>6, <2>1, <2>2 DEF Shape
<1>12. balance(u) = delta(a) - delta(r) /\ balance(u) \in -1 .. 2
  BY <1>1, <1>4, <1>5, <1>6 DEF balance
<1> HIDE DEF n, u, x, c, l, r
<1>13. ASSUME Keeps(n, a, r, x, c), delta(n) \in delta(t) .. delta(t) + 1,
              delta(n) = delta(t) + 1 => n.item = x /\ balance(n) = 1
       PROVE  Updated(n, t, w)
  <2>1. In(n) = In(t) \cup {w} /\ Good(n) /\ n # Nil
    BY <1>1, <1>6, <1>13 DEF Keeps
  <2>2. ASSUME NEW W, NEW once
        PROVE  Total(n, W, once) = Total(t, W, once) + Gain(t, w, W, once)
    <3>1. Total(n, W, once) = Total(a, W, once) + Total(r, W, once) + Weight(x, c, W, once)
      BY <1>13 DEF Keeps
    <3>2. Gain(l, w, W, once) = Gain(t, w, W, once)
      <4>1. w \in In(l) <=> w \in In(t)
        <5>1. ~(w > x)
          BY <1>9 DEF x
        <5> QED  BY <1>1, <1>9, <5>1
      <4> QED  BY <4>1 DEF Gain
    <3>3. /\ Total(l, W, once) \in Nat /\ Total(r, W, once) \in Nat
          /\ Weight(x, c, W, once) \in Nat /\ Gain(t, w, W, once) \in Nat
      BY <1>1, GoodIn, TotalNat, WeightNat, GainNat
    <3>4. /\ Total(a, W, once) = Total(l, W, once) + Gain(l, w, W, once)
          /\ Total(t, W, once) = Total(l, W, once) + Total(r, W, once) + Weight(x, c, W, once)
      BY <1>2, <1>7
    <3> QED  BY <3>1, <3>2, <3>3, <3>4
  <2>3. delta(n) = delta(t) + 1 =>
          n.item # w /\ (w < n.item => balance(n) = 1) /\ (w > n.item => balance(n) = -1)
    BY <1>9, <1>13 DEF x
  <2> QED  BY <1>13, <2>1, <2>2, <2>3 DEF Updated
<1>14. CASE balance(u) \in -1 .. 1
  <2>1. n = Made(a, r, x, c)
    BY <1>9, <1>14, NodeIs DEF n, UpdateOf, u, x, r, c
  <2>2. Keeps(n, a, r, x, c) /\ delta(n) = depth(a, r)
    BY <1>11, <1>12, <1>14, <2>1, Build
  <2>3. delta(n) \in delta(t) .. delta(t) + 1
    BY <1>1, <1>5, <1>6, <2>2 DEF depth
  <2>4. n.item = x /\ n.left = a /\ n.right = r
    BY <2>1 DEF Made
  <2>5. delta(n) = delta(t) + 1 => balance(n) = 1
    <3>1. balance(n) = delta(a) - delta(r)
      BY <2>4 DEF balance
    <3>2. delta(a) - delta(r) \in -1 .. 1 /\ delta(a) \in Int
      BY <1>5, <1>6, <1>12, <1>14
    <3> QED  BY <1>5, <1>6, <1>10, <2>2, <3>1, <3>2 DEF depth
  <2> QED  BY <1>13, <2>2, <2>3, <2>4, <2>5, Zenon DEF n
<1>15. CASE balance(u) = 2
  <2>1. delta(a) = delta(r) + 2 /\ delta(a) = delta(l) + 1 /\ delta(t) = delta(a)
    BY <1>1, <1>5, <1>6, <1>12, <1>15 DEF depth
  <2>2. l # Nil
    BY <1>5, <2>1, DeltaNil
  <2>3. a.item # w /\ a.item \in Int
    BY <1>6, <1>8, <2>1, <2>2, PartsShape, AvlAssumption
  <2>4. CASE w < a.item
    <3>1. n = rotate_right(u)
      BY <1>9, <1>15, <2>4 DEF n, UpdateOf, u, x
    <3>2. balance(a) = 1
      BY <1>8, <2>1, <2>2, <2>4
    <3>3. Keeps(n, a, r, x, c) /\ delta(n) = delta(a) + 1 - balance(a)
      BY <1>4, <1>11, <2>1, <3>1, <3>2, RotateRight
    <3>4. delta(n) \in delta(t) .. delta(t) + 1 /\ delta(n) # delta(t) + 1
      BY <1>5, <2>1, <3>2, <3>3
    <3> QED  BY <1>13, <3>3, <3>4, Zenon DEF n
  <2>5. CASE w > a.item
    <3>1. n = rotate_left_right(u)
      BY <1>9, <1>15, <2>3, <2>5 DEF n, UpdateOf, u, x
    <3>2. balance(a) = -1
      BY <1>8, <2>1, <2>2, <2>5
    <3>3. Keeps(n, a, r, x, c) /\ delta(n) = delta(a)
      BY <1>3, <1>11, <2>1, <3>1, <3>2, RotateLeftRight
    <3>4. delta(n) \in delta(t) .. delta(t) + 1 /\ delta(n) # delta(t) + 1
      BY <1>5, <2>1, <3>3
    <3> QED  BY <1>13, <3>3, <3>4, Zenon DEF n
  <2> QED  BY <1>9, <2>3, <2>4, <2>5
<1>16. balance(u) \in -1 .. 1 \/ balance(u) = 2
  BY <1>12
<1> QED  BY <1>14, <1>15, <1>16 DEF n

\* A word is added on the right.
LEMMA UpdateRight ==
    ASSUME NEW t, Good(t), t # Nil, delta(t) + 2 <= MaxLevels,
           NEW w \in Words, w > t.item, NEW a, NEW b, Updated(b, t.right, w)
    PROVE  Updated(UpdateOf(t, w, a, b), t, w)
<1> DEFINE x == t.item
           c == t.count
           l == t.left
           r == t.right
           u == [t EXCEPT !.right = b]
           n == UpdateOf(t, w, a, b)
<1>1. /\ x \in Words /\ c \in Nat \ {0}
      /\ Good(l) /\ Good(r)
      /\ \A v \in In(l) : v < x
      /\ \A v \in In(r) : v > x
      /\ In(t) = In(l) \cup In(r) \cup {x}
      /\ delta(t) = depth(l, r)
      /\ balance(t) = delta(l) - delta(r) /\ balance(t) \in -1 .. 1
  BY PartsShape
<1>2. \A W, once : Total(t, W, once) = Total(l, W, once) + Total(r, W, once)
                                         + Weight(x, c, W, once)
  BY PartsShape
<1>3. u = [depth |-> t.depth, count |-> c, item |-> x, left |-> l, right |-> b]
  <2>1. t = [depth |-> t.depth, count |-> t.count, item |-> t.item,
             left |-> t.left, right |-> t.right]
    BY GoodIn, Subtrees
  <2> QED  BY <2>1
<1>4. u.left = l /\ u.right = b /\ u.item = x /\ u.count = c
  BY <1>3
<1>5. /\ delta(t) \in Int /\ delta(l) \in Int /\ delta(l) >= -1 /\ (r # Nil => delta(r) >= 0)
      /\ delta(r) \in Int /\ delta(r) >= -1 /\ MaxLevels \in Nat
  BY <1>1, Numbers
<1>6. /\ Good(b) /\ b # Nil /\ In(b) = In(r) \cup {w}
      /\ delta(b) \in delta(r) .. delta(r) + 1
  BY DEF Updated
<1>7. \A W, once : Total(b, W, once) = Total(r, W, once) + Gain(r, w, W, once)
  BY DEF Updated
<1>8. (r # Nil /\ delta(b) = delta(r) + 1) =>
         /\ b.item # w
         /\ w < b.item => balance(b) = 1
         /\ w > b.item => balance(b) = -1
  BY DEF Updated
<1>9. x \in Int /\ w \in Int /\ x # w
  <2>1. x \in Words
    BY <1>1
  <2>2. x \in Int /\ w \in Int
    BY <2>1, AvlAssumption
  <2> HIDE DEF x
  <2>3. w > x
    BY DEF x
  <2> QED  BY <2>2, <2>3
<1>10. delta(t) = depth(l, r) /\ delta(l) - delta(r) \in -1 .. 1
  BY <1>1
<1>11. Shape(l, b, x, c)
  <2>1. delta(l) + 2 <= MaxLevels /\ delta(b) + 2 <= MaxLevels
    BY <1>1, <1>5, <1>6 DEF depth
  <2>2. \A v \in In(b) : v > x
    BY <1>1, <1>6
  <2> QED  BY <1>1, <1>6, <2>1, <2>2 DEF Shape
<1>12. balance(u) = delta(l) - delta(b) /\ balance(u) \in -2 .. 1
  BY <1>1, <1>4, <1>5, <1>6 DEF balance
<1> HIDE DEF n, u, x, c, l, r
<1>13. ASSUME Keeps(n, l, b, x, c), delta(n) \in delta(t) .. delta(t) + 1,
              delta(n) = delta(t) + 1 => n.item = x /\ balance(n) = -1
       PROVE  Updated(n, t, w)
  <2>1. In(n) = In(t) \cup {w} /\ Good(n) /\ n # Nil
    BY <1>1, <1>6, <1>13 DEF Keeps
  <2>2. ASSUME NEW W, NEW once
        PROVE  Total(n, W, once) = Total(t, W, once) + Gain(t, w, W, once)
    <3>1. Total(n, W, once) = Total(l, W, once) + Total(b, W, once) + Weight(x, c, W, once)
      BY <1>13 DEF Keeps
    <3>2. Gain(r, w, W, once) = Gain(t, w, W, once)
      <4>1. w \in In(r) <=> w \in In(t)
        <5>1. ~(w < x)
          BY <1>9 DEF x
        <5> QED  BY <1>1, <1>9, <5>1
      <4> QED  BY <4>1 DEF Gain
    <3>3. /\ Total(l, W, once) \in Nat /\ Total(r, W, once) \in Nat
          /\ Weight(x, c, W, once) \in Nat /\ Gain(t, w, W, once) \in Nat
      BY <1>1, GoodIn, TotalNat, WeightNat, GainNat
    <3>4. /\ Total(b, W, once) = Total(r, W, once) + Gain(r, w, W, once)
          /\ Total(t, W, once) = Total(l, W, once) + Total(r, W, once) + Weight(x, c, W, once)
      BY <1>2, <1>7
    <3> QED  BY <3>1, <3>2, <3>3, <3>4
  <2>3. delta(n) = delta(t) + 1 =>
          n.item # w /\ (w < n.item => balance(n) = 1) /\ (w > n.item => balance(n) = -1)
    BY <1>9, <1>13 DEF x
  <2> QED  BY <1>13, <2>1, <2>2, <2>3 DEF Updated
<1>14. CASE balance(u) \in -1 .. 1
  <2>1. n = Made(l, b, x, c)
    BY <1>9, <1>14, NodeIs DEF n, UpdateOf, u, x, l, c
  <2>2. Keeps(n, l, b, x, c) /\ delta(n) = depth(l, b)
    BY <1>11, <1>12, <1>14, <2>1, Build
  <2>3. delta(n) \in delta(t) .. delta(t) + 1
    BY <1>1, <1>5, <1>6, <2>2 DEF depth
  <2>4. n.item = x /\ n.left = l /\ n.right = b
    BY <2>1 DEF Made
  <2>5. delta(n) = delta(t) + 1 => balance(n) = -1
    <3>1. balance(n) = delta(l) - delta(b)
      BY <2>4 DEF balance
    <3>2. delta(l) - delta(b) \in -1 .. 1 /\ delta(b) \in Int
      BY <1>5, <1>6, <1>12, <1>14
    <3> QED  BY <1>5, <1>6, <1>10, <2>2, <3>1, <3>2 DEF depth
  <2> QED  BY <1>13, <2>2, <2>3, <2>4, <2>5, Zenon DEF n
<1>15. CASE balance(u) = -2
  <2>1. delta(b) = delta(l) + 2 /\ delta(b) = delta(r) + 1 /\ delta(t) = delta(b)
    BY <1>1, <1>5, <1>6, <1>12, <1>15 DEF depth
  <2>2. r # Nil
    BY <1>5, <2>1, DeltaNil
  <2>3. b.item # w /\ b.item \in Int
    BY <1>6, <1>8, <2>1, <2>2, PartsShape, AvlAssumption
  <2>4. CASE w > b.item
    <3>1. n = rotate_left(u)
      BY <1>9, <1>15, <2>4 DEF n, UpdateOf, u, x
    <3>2. balance(b) = -1
      BY <1>8, <2>1, <2>2, <2>4
    <3>3. Keeps(n, l, b, x, c) /\ delta(n) = delta(b) + 1 + balance(b)
      BY <1>4, <1>11, <2>1, <3>1, <3>2, RotateLeft
    <3>4. delta(n) \in delta(t) .. delta(t) + 1 /\ delta(n) # delta(t) + 1
      BY <1>5, <2>1, <3>2, <3>3
    <3> QED  BY <1>13, <3>3, <3>4, Zenon DEF n
  <2>5. CASE w < b.item
    <3>1. n = rotate_right_left(u)
      BY <1>9, <1>15, <2>3, <2>5 DEF n, UpdateOf, u, x
    <3>2. balance(b) = 1
      BY <1>8, <2>1, <2>2, <2>5
    <3>3. Keeps(n, l, b, x, c) /\ delta(n) = delta(b)
      BY <1>3, <1>11, <2>1, <3>1, <3>2, RotateRightLeft
    <3>4. delta(n) \in delta(t) .. delta(t) + 1 /\ delta(n) # delta(t) + 1
      BY <1>5, <2>1, <3>3
    <3> QED  BY <1>13, <3>3, <3>4, Zenon DEF n
  <2> QED  BY <1>9, <2>3, <2>4, <2>5
<1>16. balance(u) \in -1 .. 1 \/ balance(u) = -2
  BY <1>12
<1> QED  BY <1>14, <1>15, <1>16 DEF n

\* update() adds its word to a sound tree.
LEMMA UpdateCorrect ==
    ASSUME NEW t, Good(t), delta(t) + 2 <= MaxLevels, NEW w \in Words
    PROVE  Updated(update(t, w), t, w)
<1> DEFINE S == {s \in Trees : Good(s) /\ delta(s) + 2 <= MaxLevels => Updated(update(s, w), s, w)}
<1>1. S \in SUBSET Trees /\ Nil \in S
  <2>1. delta(Nil) + 2 <= MaxLevels => MaxLevels >= 1
    BY DeltaNil, AvlAssumption
  <2> QED  BY <2>1, NilIn, UpdateIs, UpdateNil
<1>2. ASSUME NEW s \in Trees \ {Nil}, s.left \in S /\ s.right \in S PROVE s \in S
  <2> SUFFICES ASSUME Good(s), delta(s) + 2 <= MaxLevels
               PROVE  Updated(update(s, w), s, w)
    OBVIOUS
  <2> DEFINE a == update(s.left, w)
             b == update(s.right, w)
  <2>1. update(s, w) = UpdateOf(s, w, a, b)
    BY UpdateIs
  <2>2. Good(s.left) /\ Good(s.right) /\ delta(s) = depth(s.left, s.right) /\ s.item \in Words
    BY PartsShape
  <2>3. delta(s.left) + 2 <= MaxLevels /\ delta(s.right) + 2 <= MaxLevels
    <3>1. /\ delta(s) \in Int /\ delta(s.left) \in Int /\ delta(s.right) \in Int
          /\ MaxLevels \in Nat
      BY <2>2, Numbers
    <3> QED  BY <2>2, <3>1 DEF depth
  <2>4. Updated(a, s.left, w) /\ Updated(b, s.right, w)
    BY <1>2, <2>2, <2>3
  <2> HIDE DEF a, b
  <2>5. s.item \in Int /\ w \in Int
    BY <2>2, AvlAssumption
  <2>6. CASE w < s.item
    BY <2>1, <2>4, <2>6, UpdateLeft
  <2>7. CASE w > s.item
    BY <2>1, <2>4, <2>7, UpdateRight
  <2>8. CASE w = s.item
    <3>1. update(s, w) = Node([s EXCEPT !.count = @ + 1], s.left, s.right)
      BY <2>1, <2>8 DEF UpdateOf
    <3> QED  BY <2>8, <3>1, UpdateHit
  <2> QED  BY <2>5, <2>6, <2>7, <2>8
<1>3. S = Trees
  <2> HIDE DEF S
  <2> QED  BY <1>1, <1>2, TreeInduction
<1> QED  BY <1>3, GoodIn
-----------------------------------------------------------------------------
(***************************************************************************)
(* Search.                                                                 *)
(***************************************************************************)
\* How often w is in t.
Occ(t, w) == Total(t, {w}, FALSE)

\* No word is in the empty tree.
LEMMA OccNil == \A w : Occ(Nil, w) = 0
<1>1. \A W, once : Total(Nil, W, once) = 0
  BY TotalIs
<1> QED  BY <1>1, Zenon DEF Occ

\* A word occurs a natural number of times.
LEMMA OccNat == ASSUME NEW t \in Trees, NEW w PROVE Occ(t, w) \in Nat
<1>1. \A W, once : Total(t, W, once) \in Nat
  BY TotalNat
<1> QED  BY <1>1, Zenon DEF Occ

\* The order of the words says where a word is.
LEMMA OccNode ==
    ASSUME NEW t, Good(t), t # Nil, NEW w \in Words
    PROVE  Occ(t, w) = IF w = t.item THEN t.count
                       ELSE IF w < t.item THEN Occ(t.left, w)
                       ELSE Occ(t.right, w)
<1> DEFINE l == Occ(t.left, w)
           r == Occ(t.right, w)
           k == Weight(t.item, t.count, {w}, FALSE)
<1>1. \A W, once : Total(t, W, once) = Total(t.left, W, once) + Total(t.right, W, once)
                                         + Weight(t.item, t.count, W, once)
  BY PartsShape
<1>2. Occ(t, w) = l + r + k
  BY <1>1, Zenon DEF Occ
<1>3. /\ t.item \in Int /\ w \in Int /\ t.count \in Nat
      /\ t.left \in Trees /\ t.right \in Trees
      /\ \A v \in In(t.left) : v < t.item
      /\ \A v \in In(t.right) : v > t.item
  BY PartsShape, GoodIn, AvlAssumption
<1>4. l \in Nat /\ r \in Nat
  BY <1>3, OccNat
<1>5. k = IF w = t.item THEN t.count ELSE 0
  BY DEF Weight
<1>6. w >= t.item => l = 0
  <2>1. w >= t.item => w \notin In(t.left)
    BY <1>3
  <2> QED  BY <1>3, <2>1, Absent, Zenon DEF Occ
<1>7. w <= t.item => r = 0
  <2>1. w <= t.item => w \notin In(t.right)
    BY <1>3
  <2> QED  BY <1>3, <2>1, Absent, Zenon DEF Occ
<1> HIDE DEF l, r, k
<1>8. Occ(t, w) = IF w = t.item THEN t.count ELSE IF w < t.item THEN l ELSE r
  BY <1>2, <1>3, <1>4, <1>5, <1>6, <1>7
<1> QED  BY <1>8 DEF l, r

\* avl_exists() finds every word with its occurrences.
LEMMA SearchCorrect ==
    ASSUME NEW t, Good(t), NEW w \in Words
    PROVE  Search(t, w) = Occ(t, w)
<1> DEFINE S == {s \in Trees : Good(s) => Search(s, w) = Occ(s, w)}
<1>1. S \in SUBSET Trees /\ Nil \in S
  BY NilIn, SearchIs, OccNil
<1>2. ASSUME NEW s \in Trees \ {Nil}, s.left \in S /\ s.right \in S PROVE s \in S
  BY <1>2, SearchIs, OccNode, GoodParts
<1>3. S = Trees
  <2> HIDE DEF S
  <2> QED  BY <1>1, <1>2, TreeInduction
<1> QED  BY <1>3, GoodIn

\* The words that occur are those of the nodes.
LEMMA OccPositive ==
    ASSUME NEW t, Good(t), NEW w \in Words
    PROVE  Occ(t, w) > 0 <=> w \in In(t)
<1> DEFINE S == {s \in Trees : Good(s) => (Occ(s, w) > 0 <=> w \in In(s))}
<1>1. S \in SUBSET Trees /\ Nil \in S
  BY NilIn, InNil, OccNil
<1>2. ASSUME NEW s \in Trees \ {Nil}, s.left \in S /\ s.right \in S PROVE s \in S
  <2> SUFFICES ASSUME Good(s) PROVE Occ(s, w) > 0 <=> w \in In(s)
    OBVIOUS
  <2>1. /\ s.item \in Words /\ s.count \in Nat \ {0}
        /\ \A v \in In(s.left) : v < s.item
        /\ \A v \in In(s.right) : v > s.item
        /\ In(s) = In(s.left) \cup In(s.right) \cup {s.item}
    BY PartsShape
  <2>2. s.item \in Int /\ w \in Int
    BY <2>1, AvlAssumption
  <2>3. CASE w = s.item
    BY <2>1, <2>3, OccNode
  <2>4. CASE w < s.item
    <3>1. Occ(s, w) = Occ(s.left, w) /\ w \notin In(s.right)
      BY <2>1, <2>2, <2>4, OccNode
    <3> QED  BY <1>2, <2>1, <2>2, <2>4, <3>1, GoodParts
  <2>5. CASE w > s.item
    <3>1. Occ(s, w) = Occ(s.right, w) /\ w \notin In(s.left)
      BY <2>1, <2>2, <2>5, OccNode
    <3> QED  BY <1>2, <2>1, <2>2, <2>5, <3>1, GoodParts
  <2> QED  BY <2>2, <2>3, <2>4, <2>5
<1>3. S = Trees
  <2> HIDE DEF S
  <2> QED  BY <1>1, <1>2, TreeInduction
<1> QED  BY <1>3, GoodIn
-----------------------------------------------------------------------------
(***************************************************************************)
(* Deletion.                                                               *)
(***************************************************************************)
\* find_min() returns the node of the least word.
LEMMA FindMinCorrect ==
    ASSUME NEW t, Good(t), t # Nil
    PROVE  LET m == find_min(t)
           IN  /\ m.item \in In(t) /\ m.item \in Words /\ \A v \in In(t) : v >= m.item
               /\ m.count \in Nat \ {0} /\ m.count = Occ(t, m.item)
<1> DEFINE P(s) == LET m == find_min(s)
                   IN  /\ m.item \in In(s) /\ m.item \in Words /\ \A v \in In(s) : v >= m.item
                       /\ m.count \in Nat \ {0} /\ m.count = Occ(s, m.item)
           S == {s \in Trees : Good(s) /\ s # Nil => P(s)}
<1>1. S \in SUBSET Trees /\ Nil \in S
  BY NilIn
<1>2. ASSUME NEW s \in Trees \ {Nil}, s.left \in S /\ s.right \in S PROVE s \in S
  <2> SUFFICES ASSUME Good(s) PROVE P(s)
    OBVIOUS
  <2>1. /\ s.item \in Words /\ s.count \in Nat \ {0} /\ Good(s.left)
        /\ \A v \in In(s.left) : v < s.item
        /\ \A v \in In(s.right) : v > s.item
        /\ In(s) = In(s.left) \cup In(s.right) \cup {s.item}
    BY PartsShape
  <2>2. s.item \in Int /\ \A v \in In(s) : v \in Int
    BY <2>1, AvlAssumption DEF In
  <2>3. CASE s.left = Nil
    <3>1. find_min(s) = s
      BY <2>3, FindMinIs DEF NonNil
    <3>2. \A v \in In(s) : v >= s.item
      BY <2>1, <2>2, <2>3, InNil
    <3>3. s.count = Occ(s, s.item)
      BY <2>1, OccNode
    <3> QED  BY <2>1, <3>1, <3>2, <3>3
  <2>4. CASE s.left # Nil
    <3> DEFINE m == find_min(s.left)
    <3>1. find_min(s) = m
      BY <2>4, FindMinIs DEF NonNil
    <3>2. P(s.left)
      BY <1>2, <2>1, <2>4
    <3>3. m.item \in In(s.left) /\ m.item \in Words /\ m.item < s.item
      BY <2>1, <3>2
    <3>4. \A v \in In(s) : v >= m.item
      BY <2>1, <2>2, <3>2, <3>3
    <3>5. Occ(s, m.item) = Occ(s.left, m.item)
      <4>1. m.item # s.item
        BY <2>2, <3>3
      <4> QED  BY <3>3, <4>1, OccNode
    <3> HIDE DEF m
    <3> QED  BY <2>1, <3>1, <3>2, <3>3, <3>4, <3>5 DEF m
  <2> QED  BY <2>3, <2>4
<1>3. S = Trees
  <2> HIDE DEF S, P
  <2> QED  BY <1>1, <1>2, TreeInduction
<1> QED  BY <1>3, GoodIn

\* What Total falls by if a word that occurs c times is left once.
Cut(x, c, W, once) == IF x \notin W THEN 0 ELSE IF once THEN 0 ELSE c - 1

\* Such a fall is a natural number.
LEMMA CutNat ==
    ASSUME NEW x, NEW c \in Nat \ {0}, NEW W, NEW once PROVE Cut(x, c, W, once) \in Nat
  BY DEF Cut

\* LeastOnce leaves the tree sound, with the same words.
LEMMA LeastOnceCorrect ==
    ASSUME NEW t, Good(t), t # Nil
    PROVE  LET m == find_min(t)
               n == LeastOnce(t)
           IN  /\ Good(n) /\ n # Nil /\ delta(n) = delta(t) /\ In(n) = In(t)
               /\ \A W, once : Total(t, W, once) = Total(n, W, once) + Cut(m.item, m.count, W, once)
<1> DEFINE P(s) == LET m == find_min(s)
                       n == LeastOnce(s)
                   IN  /\ Good(n) /\ n # Nil /\ delta(n) = delta(s) /\ In(n) = In(s)
                       /\ \A W, once : Total(s, W, once)
                                         = Total(n, W, once) + Cut(m.item, m.count, W, once)
           S == {s \in Trees : Good(s) /\ s # Nil => P(s)}
<1>1. S \in SUBSET Trees /\ Nil \in S
  BY NilIn
<1>2. ASSUME NEW s \in Trees \ {Nil}, s.left \in S /\ s.right \in S PROVE s \in S
  <2> SUFFICES ASSUME Good(s) PROVE P(s)
    OBVIOUS
  <2> DEFINE m == find_min(s)
             n == LeastOnce(s)
  <2>1. /\ s.item \in Words /\ s.count \in Nat \ {0} /\ Good(s.left) /\ Good(s.right)
        /\ Local(s) /\ s.left \in Trees /\ s.right \in Trees
    BY PartsShape, GoodParts, GoodIn
  <2>2. s = [depth |-> s.depth, count |-> s.count, item |-> s.item,
             left |-> s.left, right |-> s.right]
    BY Subtrees
  <2>3. n \in Trees /\ n # Nil
    BY LeastOnceFits DEF NonNil
  <2>4. /\ In(s) = In(s.left) \cup In(s.right) \cup {s.item}
        /\ In(n) = In(n.left) \cup In(n.right) \cup {n.item}
    BY <2>3, InNode DEF NonNil
  <2>5. \A W, once :
          /\ Total(s, W, once) = Total(s.left, W, once) + Total(s.right, W, once)
                                   + Weight(s.item, s.count, W, once)
          /\ Total(n, W, once) = Total(n.left, W, once) + Total(n.right, W, once)
                                   + Weight(n.item, n.count, W, once)
    BY <2>3, TotalNode DEF NonNil
  <2>6. CASE s.left = Nil
    <3>1. m = s
      BY <2>6, FindMinIs DEF NonNil
    <3>2. n = [depth |-> s.depth, count |-> 1, item |-> s.item,
               left |-> s.left, right |-> s.right]
      BY <2>2, <2>6, LeastOnceIs DEF NonNil
    <3>3. /\ n.depth = s.depth /\ n.count = 1 /\ n.item = s.item
          /\ n.left = s.left /\ n.right = s.right
      BY <3>2
    <3> HIDE DEF m, n
    <3>4. Local(n)
      BY <2>1, <3>3 DEF Local, balance
    <3>5. Good(n)
      BY <2>1, <2>3, <3>3, <3>4, GoodFrom
    <3>6. ASSUME NEW W, NEW once
          PROVE  Total(s, W, once) = Total(n, W, once) + Cut(m.item, m.count, W, once)
      <4>1. Weight(s.item, s.count, W, once)
              = Weight(s.item, 1, W, once) + Cut(s.item, s.count, W, once)
        BY <2>1 DEF Weight, Cut
      <4>2. /\ Total(s.left, W, once) \in Nat /\ Total(s.right, W, once) \in Nat
            /\ Weight(s.item, 1, W, once) \in Nat /\ Cut(s.item, s.count, W, once) \in Nat
        BY <2>1, TotalNat, WeightNat, CutNat
      <4> QED  BY <2>5, <3>1, <3>3, <4>1, <4>2
    <3>7. delta(n) = delta(s)
      BY <3>3 DEF delta
    <3> QED  BY <2>3, <2>4, <3>3, <3>5, <3>6, <3>7 DEF m, n
  <2>7. CASE s.left # Nil
    <3> DEFINE k == LeastOnce(s.left)
    <3>1. m = find_min(s.left)
      BY <2>7, FindMinIs DEF NonNil
    <3>2. n = [depth |-> s.depth, count |-> s.count, item |-> s.item,
               left |-> k, right |-> s.right]
      BY <2>2, <2>7, LeastOnceIs DEF NonNil
    <3>3. /\ n.depth = s.depth /\ n.count = s.count /\ n.item = s.item
          /\ n.left = k /\ n.right = s.right
      BY <3>2
    <3>4. P(s.left)
      BY <1>2, <2>1, <2>7
    <3>5. /\ Good(k) /\ k # Nil /\ delta(k) = delta(s.left) /\ In(k) = In(s.left)
      BY <3>4
    <3>6. \A W, once : Total(s.left, W, once)
                         = Total(k, W, once) + Cut(m.item, m.count, W, once)
      BY <3>1, <3>4
    <3>7. m.count \in Nat \ {0}
      BY <2>1, <2>7, <3>1, FindMinCorrect
    <3> HIDE DEF m, n, k
    <3>8. Local(n)
      BY <2>1, <3>3, <3>5 DEF Local, balance, depth
    <3>9. Good(n)
      BY <2>1, <2>3, <3>3, <3>5, <3>8, GoodFrom
    <3>10. ASSUME NEW W, NEW once
           PROVE  Total(s, W, once) = Total(n, W, once) + Cut(m.item, m.count, W, once)
      <4>1. /\ Total(k, W, once) \in Nat /\ Total(s.right, W, once) \in Nat
            /\ Weight(s.item, s.count, W, once) \in Nat
            /\ Cut(m.item, m.count, W, once) \in Nat
        BY <2>1, <3>5, <3>7, GoodIn, TotalNat, WeightNat, CutNat
      <4>2. Total(s.left, W, once) = Total(k, W, once) + Cut(m.item, m.count, W, once)
        BY <3>6
      <4> QED  BY <2>5, <3>3, <4>1, <4>2
    <3>11. delta(n) = delta(s)
      BY <3>3 DEF delta
    <3> QED  BY <2>3, <2>4, <3>3, <3>5, <3>9, <3>10, <3>11 DEF m, n
  <2> QED  BY <2>6, <2>7
<1>3. S = Trees
  <2> HIDE DEF S, P
  <2> QED  BY <1>1, <1>2, TreeInduction
<1> QED  BY <1>3, GoodIn

\* What Total falls by if w is taken from t once.
Loss(t, w, W, once) ==
    IF w \notin W THEN 0 ELSE IF once THEN (IF Occ(t, w) = 1 THEN 1 ELSE 0) ELSE 1

\* n is t without one of its words w.
Deleted(n, t, w) ==
    /\ Good(n)
    /\ delta(n) \in delta(t) - 1 .. delta(t)
    /\ In(n) = IF Occ(t, w) = 1 THEN In(t) \ {w} ELSE In(t)
    /\ \A W, once : Total(t, W, once) = Total(n, W, once) + Loss(t, w, W, once)

\* A loss is a natural number.
LEMMA LossNat == ASSUME NEW t, NEW w, NEW W, NEW once PROVE Loss(t, w, W, once) \in Nat
  BY DEF Loss

\* The shape of a sound tree's parts, as far as the bound on its levels goes.
LEMMA PartsLevels ==
    ASSUME NEW t, Good(t), t # Nil, delta(t) + 1 <= MaxLevels
    PROVE  /\ delta(t) \in Int /\ delta(t.left) \in Int /\ delta(t.right) \in Int
           /\ delta(t.left) >= -1 /\ delta(t.right) >= -1 /\ MaxLevels \in Nat
           /\ delta(t.left) + 2 <= MaxLevels /\ delta(t.right) + 2 <= MaxLevels
           /\ delta(t) = depth(t.left, t.right)
           /\ delta(t.left) - delta(t.right) \in -1 .. 1
<1>1. /\ delta(t) = depth(t.left, t.right) /\ Good(t.left) /\ Good(t.right)
      /\ delta(t.left) - delta(t.right) \in -1 .. 1
  BY PartsShape
<1>2. /\ delta(t) \in Int /\ delta(t.left) \in Int /\ delta(t.right) \in Int
      /\ delta(t.left) >= -1 /\ delta(t.right) >= -1 /\ MaxLevels \in Nat
  BY <1>1, Numbers
<1> QED  BY <1>1, <1>2 DEF depth

\* A word is deleted on the left; a rotation comes if the right is too high.
LEMMA DeleteLeft ==
    ASSUME NEW t, Good(t), t # Nil, delta(t) + 1 <= MaxLevels,
           NEW w \in Words, w < t.item, NEW a, Deleted(a, t.left, w)
    PROVE  Deleted(Rebalanced(Node(t, a, t.right)), t, w)
<1> DEFINE x == t.item
           c == t.count
           l == t.left
           r == t.right
           n == Rebalanced(Made(a, r, x, c))
<1>1. /\ x \in Words /\ c \in Nat \ {0} /\ Good(l) /\ Good(r)
      /\ \A v \in In(l) : v < x
      /\ \A v \in In(r) : v > x
      /\ In(t) = In(l) \cup In(r) \cup {x}
  BY PartsShape
<1>2. \A W, once : Total(t, W, once) = Total(l, W, once) + Total(r, W, once)
                                         + Weight(x, c, W, once)
  BY PartsShape
<1>3. /\ delta(t) \in Int /\ delta(l) \in Int /\ delta(r) \in Int
      /\ delta(l) >= -1 /\ delta(r) >= -1 /\ MaxLevels \in Nat
      /\ delta(l) + 2 <= MaxLevels /\ delta(r) + 2 <= MaxLevels
      /\ delta(t) = depth(l, r)
      /\ delta(l) - delta(r) \in -1 .. 1
  BY PartsLevels
<1>4. Good(a) /\ delta(a) \in delta(l) - 1 .. delta(l)
  BY DEF Deleted
<1>5. In(a) = IF Occ(l, w) = 1 THEN In(l) \ {w} ELSE In(l)
  BY DEF Deleted
<1>6. \A W, once : Total(l, W, once) = Total(a, W, once) + Loss(l, w, W, once)
  BY DEF Deleted
<1>7. Node(t, a, t.right) = Made(a, r, x, c)
  BY NodeIs
<1>8. w < x /\ w # x /\ w \in Int /\ x \in Int
  <2>1. x \in Int /\ w \in Int
    BY <1>1, AvlAssumption
  <2> QED  BY <2>1
<1>9. Occ(t, w) = Occ(l, w)
  BY <1>8, OccNode
<1> HIDE DEF n, x, c, l, r
<1>10. Shape(a, r, x, c) /\ delta(a) - delta(r) \in -2 .. 2
  <2>1. delta(a) + 2 <= MaxLevels /\ delta(a) - delta(r) \in -2 .. 2
    BY <1>3, <1>4
  <2>2. \A v \in In(a) : v < x
    BY <1>1, <1>5
  <2> QED  BY <1>1, <1>3, <1>4, <2>1, <2>2 DEF Shape
<1>11. /\ Keeps(n, a, r, x, c)
       /\ delta(n) \in depth(a, r) - 1 .. depth(a, r)
       /\ delta(a) - delta(r) \in -1 .. 1 => delta(n) = depth(a, r)
  BY <1>10, RebalancedIs DEF n
<1>12. delta(n) \in delta(t) - 1 .. delta(t)
  <2> DEFINE e == depth(a, r)
  <2>1. /\ delta(n) \in e - 1 .. e
        /\ delta(a) - delta(r) \in -1 .. 1 => delta(n) = e
    BY <1>11
  <2>2. e \in delta(t) - 1 .. delta(t) /\ (delta(a) - delta(r) \in -1 .. 1 \/ e = delta(t))
    <3>1. delta(a) = delta(l) \/ delta(a) = delta(l) - 1
      BY <1>3, <1>4
    <3>2. CASE delta(a) = delta(l)
      BY <1>3, <3>2 DEF depth
    <3>3. CASE delta(a) = delta(l) - 1
      BY <1>3, <3>3 DEF depth
    <3> QED  BY <3>1, <3>2, <3>3
  <2> HIDE DEF e
  <2> QED  BY <1>3, <2>1, <2>2
<1>13. In(n) = IF Occ(t, w) = 1 THEN In(t) \ {w} ELSE In(t)
  <2>1. In(n) = In(a) \cup In(r) \cup {x}
    BY <1>11 DEF Keeps
  <2>2. w \notin In(r) /\ w # x
    BY <1>1, <1>8
  <2> QED  BY <1>1, <1>5, <1>9, <2>1, <2>2
<1>14. ASSUME NEW W, NEW once
       PROVE  Total(t, W, once) = Total(n, W, once) + Loss(t, w, W, once)
  <2>1. Total(n, W, once) = Total(a, W, once) + Total(r, W, once) + Weight(x, c, W, once)
    BY <1>11 DEF Keeps
  <2>2. Loss(l, w, W, once) = Loss(t, w, W, once)
    BY <1>9 DEF Loss
  <2>3. /\ Total(a, W, once) \in Nat /\ Total(r, W, once) \in Nat
        /\ Weight(x, c, W, once) \in Nat /\ Loss(t, w, W, once) \in Nat
    BY <1>1, <1>4, GoodIn, TotalNat, WeightNat, LossNat
  <2>4. /\ Total(l, W, once) = Total(a, W, once) + Loss(l, w, W, once)
        /\ Total(t, W, once) = Total(l, W, once) + Total(r, W, once) + Weight(x, c, W, once)
    BY <1>2, <1>6
  <2> QED  BY <2>1, <2>2, <2>3, <2>4
<1>15. Good(n)
  BY <1>11 DEF Keeps
<1> QED  BY <1>7, <1>12, <1>13, <1>14, <1>15 DEF Deleted, n

\* A word is deleted on the right.
LEMMA DeleteRight ==
    ASSUME NEW t, Good(t), t # Nil, delta(t) + 1 <= MaxLevels,
           NEW w \in Words, w > t.item, NEW b, Deleted(b, t.right, w)
    PROVE  Deleted(Rebalanced(Node(t, t.left, b)), t, w)
<1> DEFINE x == t.item
           c == t.count
           l == t.left
           r == t.right
           n == Rebalanced(Made(l, b, x, c))
<1>1. /\ x \in Words /\ c \in Nat \ {0} /\ Good(l) /\ Good(r)
      /\ \A v \in In(l) : v < x
      /\ \A v \in In(r) : v > x
      /\ In(t) = In(l) \cup In(r) \cup {x}
  BY PartsShape
<1>2. \A W, once : Total(t, W, once) = Total(l, W, once) + Total(r, W, once)
                                         + Weight(x, c, W, once)
  BY PartsShape
<1>3. /\ delta(t) \in Int /\ delta(l) \in Int /\ delta(r) \in Int
      /\ delta(l) >= -1 /\ delta(r) >= -1 /\ MaxLevels \in Nat
      /\ delta(l) + 2 <= MaxLevels /\ delta(r) + 2 <= MaxLevels
      /\ delta(t) = depth(l, r)
      /\ delta(l) - delta(r) \in -1 .. 1
  BY PartsLevels
<1>4. Good(b) /\ delta(b) \in delta(r) - 1 .. delta(r)
  BY DEF Deleted
<1>5. In(b) = IF Occ(r, w) = 1 THEN In(r) \ {w} ELSE In(r)
  BY DEF Deleted
<1>6. \A W, once : Total(r, W, once) = Total(b, W, once) + Loss(r, w, W, once)
  BY DEF Deleted
<1>7. Node(t, t.left, b) = Made(l, b, x, c)
  BY NodeIs
<1>8. w > x /\ w # x /\ w \in Int /\ x \in Int
  <2>1. x \in Int /\ w \in Int
    BY <1>1, AvlAssumption
  <2> QED  BY <2>1
<1>9. Occ(t, w) = Occ(r, w)
  BY <1>8, OccNode
<1> HIDE DEF n, x, c, l, r
<1>10. Shape(l, b, x, c) /\ delta(l) - delta(b) \in -2 .. 2
  <2>1. delta(b) + 2 <= MaxLevels /\ delta(l) - delta(b) \in -2 .. 2
    BY <1>3, <1>4
  <2>2. \A v \in In(b) : v > x
    BY <1>1, <1>5
  <2> QED  BY <1>1, <1>3, <1>4, <2>1, <2>2 DEF Shape
<1>11. /\ Keeps(n, l, b, x, c)
       /\ delta(n) \in depth(l, b) - 1 .. depth(l, b)
       /\ delta(l) - delta(b) \in -1 .. 1 => delta(n) = depth(l, b)
  BY <1>10, RebalancedIs DEF n
<1>12. delta(n) \in delta(t) - 1 .. delta(t)
  <2> DEFINE e == depth(l, b)
  <2>1. /\ delta(n) \in e - 1 .. e
        /\ delta(l) - delta(b) \in -1 .. 1 => delta(n) = e
    BY <1>11
  <2>2. e \in delta(t) - 1 .. delta(t) /\ (delta(l) - delta(b) \in -1 .. 1 \/ e = delta(t))
    <3>1. delta(b) = delta(r) \/ delta(b) = delta(r) - 1
      BY <1>3, <1>4
    <3>2. CASE delta(b) = delta(r)
      BY <1>3, <3>2 DEF depth
    <3>3. CASE delta(b) = delta(r) - 1
      BY <1>3, <3>3 DEF depth
    <3> QED  BY <3>1, <3>2, <3>3
  <2> HIDE DEF e
  <2> QED  BY <1>3, <2>1, <2>2
<1>13. In(n) = IF Occ(t, w) = 1 THEN In(t) \ {w} ELSE In(t)
  <2>1. In(n) = In(l) \cup In(b) \cup {x}
    BY <1>11 DEF Keeps
  <2>2. w \notin In(l) /\ w # x
    BY <1>1, <1>8
  <2> QED  BY <1>1, <1>5, <1>9, <2>1, <2>2
<1>14. ASSUME NEW W, NEW once
       PROVE  Total(t, W, once) = Total(n, W, once) + Loss(t, w, W, once)
  <2>1. Total(n, W, once) = Total(l, W, once) + Total(b, W, once) + Weight(x, c, W, once)
    BY <1>11 DEF Keeps
  <2>2. Loss(r, w, W, once) = Loss(t, w, W, once)
    BY <1>9 DEF Loss
  <2>3. /\ Total(l, W, once) \in Nat /\ Total(b, W, once) \in Nat
        /\ Weight(x, c, W, once) \in Nat /\ Loss(t, w, W, once) \in Nat
    BY <1>1, <1>4, GoodIn, TotalNat, WeightNat, LossNat
  <2>4. /\ Total(r, W, once) = Total(b, W, once) + Loss(r, w, W, once)
        /\ Total(t, W, once) = Total(l, W, once) + Total(r, W, once) + Weight(x, c, W, once)
    BY <1>2, <1>6
  <2> QED  BY <2>1, <2>2, <2>3, <2>4
<1>15. Good(n)
  BY <1>11 DEF Keeps
<1> QED  BY <1>7, <1>12, <1>13, <1>14, <1>15 DEF Deleted, n

\* The count of the node falls, and the node stays.
LEMMA DeleteCount ==
    ASSUME NEW t, Good(t), t # Nil, delta(t) + 1 <= MaxLevels, t.count > 1
    PROVE  Deleted(Rebalanced(Node([t EXCEPT !.count = @ - 1], t.left, t.right)), t, t.item)
<1> DEFINE x == t.item
           c == t.count - 1
           l == t.left
           r == t.right
           n == Rebalanced(Made(l, r, x, c))
<1>1. /\ x \in Words /\ c \in Nat \ {0} /\ Good(l) /\ Good(r) /\ t.count = c + 1
      /\ \A v \in In(l) : v < x
      /\ \A v \in In(r) : v > x
      /\ In(t) = In(l) \cup In(r) \cup {x}
  BY PartsShape
<1>2. \A W, once : Total(t, W, once) = Total(l, W, once) + Total(r, W, once)
                                         + Weight(x, t.count, W, once)
  BY PartsShape
<1>3. /\ delta(t) \in Int /\ delta(l) \in Int /\ delta(r) \in Int /\ MaxLevels \in Nat
      /\ delta(l) + 2 <= MaxLevels /\ delta(r) + 2 <= MaxLevels
      /\ delta(t) = depth(l, r)
      /\ delta(l) - delta(r) \in -1 .. 1
  BY PartsLevels
<1>4. Node([t EXCEPT !.count = @ - 1], t.left, t.right) = Made(l, r, x, c)
  <2>1. t = [depth |-> t.depth, count |-> t.count, item |-> t.item,
             left |-> t.left, right |-> t.right]
    BY GoodIn, Subtrees
  <2>2. [t EXCEPT !.count = @ - 1].item = t.item /\ [t EXCEPT !.count = @ - 1].count = t.count - 1
    BY <2>1
  <2> QED  BY <2>2, NodeIs
<1>5. Occ(t, x) = t.count /\ Occ(t, x) # 1
  BY <1>1, OccNode
<1> HIDE DEF n, x, c, l, r
<1>6. Shape(l, r, x, c) /\ delta(l) - delta(r) \in -2 .. 2
  BY <1>1, <1>3 DEF Shape
<1>7. Keeps(n, l, r, x, c) /\ delta(n) = delta(t)
  BY <1>3, <1>6, RebalancedIs DEF n
<1>8. In(n) = In(t) /\ Good(n)
  BY <1>1, <1>7 DEF Keeps
<1>9. ASSUME NEW W, NEW once
      PROVE  Total(t, W, once) = Total(n, W, once) + Loss(t, x, W, once)
  <2>1. Total(n, W, once) = Total(l, W, once) + Total(r, W, once) + Weight(x, c, W, once)
    BY <1>7 DEF Keeps
  <2>2. Weight(x, t.count, W, once) = Weight(x, c, W, once) + Loss(t, x, W, once)
    BY <1>1, <1>5 DEF Weight, Loss
  <2>3. /\ Total(l, W, once) \in Nat /\ Total(r, W, once) \in Nat
        /\ Weight(x, c, W, once) \in Nat /\ Loss(t, x, W, once) \in Nat
    BY <1>1, GoodIn, TotalNat, WeightNat, LossNat
  <2> QED  BY <1>2, <2>1, <2>2, <2>3
<1>10. delta(n) \in delta(t) - 1 .. delta(t)
  BY <1>3, <1>7
<1> QED  BY <1>4, <1>5, <1>8, <1>9, <1>10 DEF Deleted, n, x

\* A node with one subtree, or none, is replaced by it.
LEMMA DeleteSingle ==
    ASSUME NEW t, Good(t), t # Nil, delta(t) + 1 <= MaxLevels, ~(t.count > 1), NEW n,
           \/ t.left = Nil /\ n = t.right
           \/ t.right = Nil /\ n = t.left
    PROVE  Deleted(n, t, t.item)
<1> DEFINE x == t.item
           l == t.left
           r == t.right
<1>1. /\ x \in Words /\ t.count = 1 /\ Good(l) /\ Good(r)
      /\ \A v \in In(l) : v < x
      /\ \A v \in In(r) : v > x
      /\ In(t) = In(l) \cup In(r) \cup {x}
  BY PartsShape
<1>2. \A W, once : Total(t, W, once) = Total(l, W, once) + Total(r, W, once)
                                         + Weight(x, 1, W, once)
  BY <1>1, PartsShape
<1>3. /\ delta(t) \in Int /\ delta(l) \in Int /\ delta(r) \in Int
      /\ delta(l) >= -1 /\ delta(r) >= -1
      /\ delta(t) = depth(l, r)
  BY PartsLevels
<1>4. Occ(t, x) = 1
  BY <1>1, OccNode
<1>5. x \notin In(l) /\ x \notin In(r)
  <2>1. x \in Words
    BY <1>1
  <2>2. x \in Int
    BY <2>1, AvlAssumption
  <2>3. ~(x < x) /\ ~(x > x)
    BY <2>2
  <2> QED  BY <1>1, <2>3
<1> HIDE DEF x
<1>6. \A W, once : Loss(t, x, W, once) = Weight(x, 1, W, once)
  BY <1>4 DEF Loss, Weight
<1>7. CASE l = Nil /\ n = r
  <2>1. delta(n) = delta(t) - 1
    BY <1>3, <1>7, DeltaNil DEF depth
  <2>2. In(n) = In(t) \ {x}
    BY <1>1, <1>5, <1>7, InNil
  <2>3. ASSUME NEW W, NEW once
        PROVE  Total(t, W, once) = Total(n, W, once) + Loss(t, x, W, once)
    <3>1. Total(l, W, once) = 0 /\ Total(r, W, once) \in Nat /\ Weight(x, 1, W, once) \in Nat
      BY <1>1, <1>7, TotalIs, GoodIn, TotalNat, WeightNat
    <3> QED  BY <1>2, <1>6, <1>7, <3>1
  <2>4. delta(n) \in delta(t) - 1 .. delta(t)
    BY <1>3, <2>1
  <2> QED  BY <1>1, <1>4, <1>7, <2>2, <2>3, <2>4 DEF Deleted, x
<1>8. CASE r = Nil /\ n = l
  <2>1. delta(n) = delta(t) - 1
    BY <1>3, <1>8, DeltaNil DEF depth
  <2>2. In(n) = In(t) \ {x}
    BY <1>1, <1>5, <1>8, InNil
  <2>3. ASSUME NEW W, NEW once
        PROVE  Total(t, W, once) = Total(n, W, once) + Loss(t, x, W, once)
    <3>1. Total(r, W, once) = 0 /\ Total(l, W, once) \in Nat /\ Weight(x, 1, W, once) \in Nat
      BY <1>1, <1>8, TotalIs, GoodIn, TotalNat, WeightNat
    <3> QED  BY <1>2, <1>6, <1>8, <3>1
  <2>4. delta(n) \in delta(t) - 1 .. delta(t)
    BY <1>3, <2>1
  <2> QED  BY <1>1, <1>4, <1>8, <2>2, <2>3, <2>4 DEF Deleted, x
<1> QED  BY <1>7, <1>8

\* A node with two subtrees takes over the least node of its right subtree.
LEMMA DeleteBoth ==
    ASSUME NEW t, Good(t), t # Nil, delta(t) + 1 <= MaxLevels, ~(t.count > 1), t.right # Nil,
           NEW b, Deleted(b, LeastOnce(t.right), find_min(t.right).item)
    PROVE  Deleted(Rebalanced(Node(find_min(t.right), t.left, b)), t, t.item)
<1> DEFINE x == t.item
           l == t.left
           r == t.right
           k == LeastOnce(r)
           y == find_min(r).item
           d == find_min(r).count
           n == Rebalanced(Made(l, b, y, d))
<1>1. /\ x \in Words /\ t.count = 1 /\ Good(l) /\ Good(r)
      /\ \A v \in In(l) : v < x
      /\ \A v \in In(r) : v > x
      /\ In(t) = In(l) \cup In(r) \cup {x}
  BY PartsShape
<1>2. \A W, once : Total(t, W, once) = Total(l, W, once) + Total(r, W, once)
                                         + Weight(x, 1, W, once)
  BY <1>1, PartsShape
<1>3. /\ delta(t) \in Int /\ delta(l) \in Int /\ delta(r) \in Int
      /\ delta(l) >= -1 /\ delta(r) >= -1 /\ MaxLevels \in Nat
      /\ delta(l) + 2 <= MaxLevels /\ delta(r) + 2 <= MaxLevels
      /\ delta(t) = depth(l, r)
      /\ delta(l) - delta(r) \in -1 .. 1
  BY PartsLevels
<1>4. /\ y \in In(r) /\ y \in Words /\ \A v \in In(r) : v >= y
      /\ d \in Nat \ {0} /\ d = Occ(r, y)
  BY <1>1, FindMinCorrect
<1>5. Good(k) /\ delta(k) = delta(r) /\ In(k) = In(r)
  BY <1>1, LeastOnceCorrect
<1>6. \A W, once : Total(r, W, once) = Total(k, W, once) + Cut(y, d, W, once)
  BY <1>1, LeastOnceCorrect
<1>7. Good(b) /\ delta(b) \in delta(k) - 1 .. delta(k)
  BY DEF Deleted
<1>8. In(b) = IF Occ(k, y) = 1 THEN In(k) \ {y} ELSE In(k)
  BY DEF Deleted
<1>9. \A W, once : Total(k, W, once) = Total(b, W, once) + Loss(k, y, W, once)
  BY DEF Deleted
<1>10. Node(find_min(t.right), t.left, b) = Made(l, b, y, d)
  BY NodeIs
<1>11. Occ(t, x) = 1
  BY <1>1, OccNode
<1>12. x \in Int /\ y \in Int /\ \A v \in Words : v \in Int
  BY <1>1, <1>4, AvlAssumption
<1>13. In(l) \subseteq Words /\ In(r) \subseteq Words
  BY DEF In
<1> HIDE DEF x, l, r, k, y, d, n
<1>14. Occ(k, y) = 1
  <2>1. Occ(r, y) = Occ(k, y) + Cut(y, d, {y}, FALSE)
    BY <1>6, Zenon DEF Occ
  <2>2. Cut(y, d, {y}, FALSE) = d - 1
    BY DEF Cut
  <2>3. Occ(k, y) \in Nat
    BY <1>5, GoodIn, OccNat
  <2>4. d \in Nat /\ Occ(r, y) = d
    BY <1>4
  <2>5. d = Occ(k, y) + (d - 1)
    BY <2>1, <2>2, <2>4, Zenon
  <2> QED  BY <2>3, <2>4, <2>5
<1>15. In(b) = In(r) \ {y}
  BY <1>5, <1>8, <1>14
<1>16. y > x
  BY <1>1, <1>4
<1>17. Shape(l, b, y, d) /\ delta(l) - delta(b) \in -2 .. 2
  <2>1. delta(b) + 2 <= MaxLevels /\ delta(l) - delta(b) \in -2 .. 2
    BY <1>3, <1>5, <1>7
  <2>2. ASSUME NEW v \in In(l) PROVE v < y
    <3>1. v < x /\ v \in Int
      BY <1>1, <1>12, <1>13
    <3> QED  BY <1>12, <1>16, <3>1
  <2>3. ASSUME NEW v \in In(b) PROVE v > y
    <3>1. v >= y /\ v # y /\ v \in Int
      BY <1>4, <1>12, <1>13, <1>15
    <3> QED  BY <1>12, <3>1
  <2> QED  BY <1>1, <1>3, <1>4, <1>7, <2>1, <2>2, <2>3 DEF Shape
<1>18. /\ Keeps(n, l, b, y, d)
       /\ delta(n) \in depth(l, b) - 1 .. depth(l, b)
       /\ delta(l) - delta(b) \in -1 .. 1 => delta(n) = depth(l, b)
  BY <1>17, RebalancedIs DEF n
<1>19. delta(n) \in delta(t) - 1 .. delta(t)
  <2> DEFINE e == depth(l, b)
  <2>1. /\ delta(n) \in e - 1 .. e
        /\ delta(l) - delta(b) \in -1 .. 1 => delta(n) = e
    BY <1>18
  <2>2. e \in delta(t) - 1 .. delta(t) /\ (delta(l) - delta(b) \in -1 .. 1 \/ e = delta(t))
    <3>1. delta(b) = delta(r) \/ delta(b) = delta(r) - 1
      BY <1>3, <1>5, <1>7
    <3>2. CASE delta(b) = delta(r)
      BY <1>3, <3>2 DEF depth
    <3>3. CASE delta(b) = delta(r) - 1
      BY <1>3, <3>3 DEF depth
    <3> QED  BY <3>1, <3>2, <3>3
  <2> HIDE DEF e
  <2> QED  BY <1>3, <2>1, <2>2
<1>20. In(n) = In(t) \ {x}
  <2>1. In(n) = In(l) \cup In(b) \cup {y}
    BY <1>18 DEF Keeps
  <2>2. ~(x < x) /\ ~(x > x)
    BY <1>12
  <2>3. x \notin In(l) /\ x \notin In(r)
    BY <1>1, <2>2
  <2> QED  BY <1>1, <1>4, <1>15, <2>1, <2>3
<1>21. ASSUME NEW W, NEW once
       PROVE  Total(t, W, once) = Total(n, W, once) + Loss(t, x, W, once)
  <2>1. Total(n, W, once) = Total(l, W, once) + Total(b, W, once) + Weight(y, d, W, once)
    BY <1>18 DEF Keeps
  <2>2. Loss(t, x, W, once) = Weight(x, 1, W, once)
    BY <1>11 DEF Loss, Weight
  <2>3. Weight(y, d, W, once) = Cut(y, d, W, once) + Loss(k, y, W, once)
    BY <1>4, <1>14 DEF Loss, Weight, Cut
  <2>4. /\ Total(l, W, once) \in Nat /\ Total(b, W, once) \in Nat
        /\ Weight(x, 1, W, once) \in Nat /\ Loss(k, y, W, once) \in Nat
        /\ Cut(y, d, W, once) \in Nat
    BY <1>1, <1>4, <1>7, GoodIn, TotalNat, WeightNat, LossNat, CutNat
  <2>5. /\ Total(r, W, once) = Total(k, W, once) + Cut(y, d, W, once)
        /\ Total(k, W, once) = Total(b, W, once) + Loss(k, y, W, once)
        /\ Total(t, W, once) = Total(l, W, once) + Total(r, W, once) + Weight(x, 1, W, once)
    BY <1>2, <1>6, <1>9
  <2> QED  BY <2>1, <2>2, <2>3, <2>4, <2>5
<1>22. Good(n)
  BY <1>18 DEF Keeps
<1> QED  BY <1>10, <1>11, <1>19, <1>20, <1>21, <1>22 DEF Deleted, n, x

\* delete() takes a word of the tree out once.
LEMMA DeleteCorrect ==
    ASSUME NEW t, Good(t), delta(t) + 1 <= MaxLevels, NEW w \in In(t)
    PROVE  Deleted(delete(t, w), t, w)
<1> DEFINE P(s) == /\ Good(s)
                   /\ delta(s) + 1 <= MaxLevels
                   /\ ~(\A v \in In(s) : Deleted(delete(s, v), s, v))
           S == {s \in Trees : P(s)}
<1> SUFFICES S = {}
  BY GoodIn
<1> SUFFICES ASSUME S # {} PROVE FALSE
  OBVIOUS
<1>1. PICK s \in S : \A u \in Trees : Level(u) < Level(s) => u \notin S
  <2>1. S \in SUBSET Trees
    OBVIOUS
  <2> HIDE DEF S
  <2> QED  BY <2>1, Smallest
<1>2. s \in Trees /\ P(s)
  OBVIOUS
<1>3. PICK v \in In(s) : ~Deleted(delete(s, v), s, v)
  BY <1>2
<1>4. s # Nil /\ s \in NonNil
  BY <1>2, <1>3, InNil DEF NonNil
<1>5. v \in Words
  BY <1>3 DEF In
<1>6. /\ s.item \in Words /\ Good(s.left) /\ Good(s.right)
      /\ \A u \in In(s.left) : u < s.item
      /\ \A u \in In(s.right) : u > s.item
      /\ In(s) = In(s.left) \cup In(s.right) \cup {s.item}
  BY <1>2, <1>4, PartsShape
<1>7. s.item \in Int /\ v \in Int
  BY <1>5, <1>6, AvlAssumption
<1>8. ASSUME NEW u \in Trees, Level(u) < Level(s), Good(u), delta(u) + 1 <= MaxLevels,
             NEW z \in In(u)
      PROVE  Deleted(delete(u, z), u, z)
  <2>1. ~P(u)
    BY <1>1, <1>8
  <2> QED  BY <1>8, <2>1
<1>9. /\ s.left \in Trees /\ Level(s.left) < Level(s)
      /\ s.right \in Trees /\ Level(s.right) < Level(s)
  BY <1>2, <1>4, Subtrees
<1>10. delta(s.left) + 1 <= MaxLevels /\ delta(s.right) + 1 <= MaxLevels
  BY <1>2, <1>4, PartsLevels
<1> DEFINE a == delete(s.left, v)
           b == delete(s.right, v)
           k == LeastOnce(s.right)
           y == find_min(s.right).item
           c == delete(k, y)
<1>11. delete(s, v) = DeleteOf(s, v, a, b, c)
  BY <1>4, <1>5, DeleteIs
<1>12. CASE v < s.item
  <2>1. v \in In(s.left)
    BY <1>3, <1>6, <1>7, <1>12
  <2>2. Deleted(a, s.left, v)
    BY <1>6, <1>8, <1>9, <1>10, <2>1
  <2>3. delete(s, v) = Rebalanced(Node(s, a, s.right))
    BY <1>11, <1>12 DEF DeleteOf
  <2> HIDE DEF a
  <2> QED  BY <1>2, <1>3, <1>4, <1>5, <1>12, <2>2, <2>3, DeleteLeft
<1>13. CASE v > s.item
  <2>1. v \in In(s.right)
    BY <1>3, <1>6, <1>7, <1>13
  <2>2. Deleted(b, s.right, v)
    BY <1>6, <1>8, <1>9, <1>10, <2>1
  <2>3. delete(s, v) = Rebalanced(Node(s, s.left, b))
    BY <1>7, <1>11, <1>13 DEF DeleteOf
  <2> HIDE DEF b
  <2> QED  BY <1>2, <1>3, <1>4, <1>5, <1>13, <2>2, <2>3, DeleteRight
<1>14. CASE v = s.item
  <2>1. ~(v < s.item) /\ ~(v > s.item)
    BY <1>7, <1>14
  <2>2. CASE s.count > 1
    <3>1. delete(s, v) = Rebalanced(Node([s EXCEPT !.count = @ - 1], s.left, s.right))
      BY <1>11, <2>1, <2>2 DEF DeleteOf
    <3> QED  BY <1>2, <1>3, <1>4, <1>14, <2>2, <3>1, DeleteCount
  <2>3. CASE ~(s.count > 1) /\ (s.left = Nil \/ s.right = Nil)
    <3>1. delete(s, v) = IF s.left = Nil THEN s.right ELSE s.left
      BY <1>11, <2>1, <2>3 DEF DeleteOf
    <3> QED  BY <1>2, <1>3, <1>4, <1>14, <2>3, <3>1, DeleteSingle
  <2>4. CASE ~(s.count > 1) /\ s.left # Nil /\ s.right # Nil
    <3>1. delete(s, v) = Rebalanced(Node(find_min(s.right), s.left, c))
      BY <1>11, <2>1, <2>4 DEF DeleteOf
    <3>2. k \in Trees /\ Level(k) < Level(s)
      <4>1. /\ k \in Trees /\ Level(k) \in Nat /\ Level(k) <= Level(s.right)
            /\ Level(s.right) \in Nat /\ Level(s) \in Nat
        BY <1>2, <1>9, <2>4, LeastOnceFits, TreeLevel DEF NonNil
      <4> QED  BY <1>9, <4>1
    <3>3. Good(k) /\ delta(k) = delta(s.right) /\ In(k) = In(s.right) /\ y \in In(s.right)
      BY <1>6, <2>4, LeastOnceCorrect, FindMinCorrect
    <3>4. Deleted(c, k, y)
      BY <1>8, <1>10, <3>2, <3>3
    <3> HIDE DEF c
    <3> QED  BY <1>2, <1>3, <1>4, <1>14, <2>4, <3>1, <3>4, DeleteBoth
  <2> QED  BY <2>2, <2>3, <2>4
<1> QED  BY <1>7, <1>12, <1>13, <1>14
-----------------------------------------------------------------------------
(***************************************************************************)
(* The listing of a sound tree.                                            *)
(***************************************************************************)
\* The depth kept in a sound tree is its height.
LEMMA HeightCorrect == ASSUME NEW t, Good(t) PROVE Height(t) = delta(t)
<1> DEFINE S == {s \in Trees : Good(s) => Height(s) = delta(s)}
<1>1. S \in SUBSET Trees /\ Nil \in S
  BY NilIn, HeightIs, DeltaNil
<1>2. ASSUME NEW s \in Trees \ {Nil}, s.left \in S /\ s.right \in S PROVE s \in S
  <2> SUFFICES ASSUME Good(s) PROVE Height(s) = delta(s)
    OBVIOUS
  <2>1. Good(s.left) /\ Good(s.right) /\ delta(s) = depth(s.left, s.right)
    BY PartsShape
  <2> QED  BY <1>2, <2>1, HeightIs DEF depth
<1>3. S = Trees
  <2> HIDE DEF S
  <2> QED  BY <1>1, <1>2, TreeInduction
<1> QED  BY <1>3, GoodIn

\* A sequence with one element between two others.
LEMMA Between ==
    ASSUME NEW X, NEW a \in Seq(X), NEW x \in X, NEW b \in Seq(X)
    PROVE  LET s == a \o <<x>> \o b
           IN  /\ s \in Seq(X) /\ Len(s) = Len(a) + 1 + Len(b)
               /\ \A i \in 1 .. Len(s) : \/ i <= Len(a) /\ s[i] = a[i]
                                         \/ i = Len(a) + 1 /\ s[i] = x
                                         \/ /\ i > Len(a) + 1 /\ s[i] = b[i - Len(a) - 1]
                                            /\ i - Len(a) - 1 \in 1 .. Len(b)
  OBVIOUS

\* s has sound nodes of t only, in ascending order.
Ascending(s, t) ==
    /\ s \in Seq(NonNil)
    /\ \A i \in 1 .. Len(s) : Good(s[i]) /\ s[i].item \in In(t)
    /\ \A i, j \in 1 .. Len(s) : i < j => s[i].item < s[j].item

\* traverse() lists every node of a sound tree once, in ascending order.
LEMMA TraverseCorrect ==
    ASSUME NEW t, Good(t)
    PROVE  Ascending(traverse(t), t) /\ Len(traverse(t)) = Total(t, Words, TRUE)
<1> DEFINE P(s) == Ascending(traverse(s), s) /\ Len(traverse(s)) = Total(s, Words, TRUE)
           S == {s \in Trees : Good(s) => P(s)}
<1>1. S \in SUBSET Trees /\ Nil \in S
  <2>1. traverse(Nil) = <<>>
    BY TraverseIs
  <2>2. Total(Nil, Words, TRUE) = 0
    BY TotalIs
  <2>3. Ascending(<<>>, Nil) /\ Len(<<>>) = 0
    BY DEF Ascending
  <2> QED  BY <2>1, <2>2, <2>3, NilIn
<1>2. ASSUME NEW s \in Trees \ {Nil}, s.left \in S /\ s.right \in S PROVE s \in S
  <2> SUFFICES ASSUME Good(s) PROVE P(s)
    OBVIOUS
  <2> DEFINE a == traverse(s.left)
             b == traverse(s.right)
             list == traverse(s)
  <2>1. /\ s.item \in Words /\ Good(s.left) /\ Good(s.right)
        /\ \A v \in In(s.left) : v < s.item
        /\ \A v \in In(s.right) : v > s.item
        /\ In(s) = In(s.left) \cup In(s.right) \cup {s.item}
    BY PartsShape
  <2>2. /\ Total(s, Words, TRUE) = Total(s.left, Words, TRUE) + Total(s.right, Words, TRUE)
                                     + Weight(s.item, s.count, Words, TRUE)
        /\ Weight(s.item, s.count, Words, TRUE) = 1
    <3>1. \A W, once : Total(s, W, once) = Total(s.left, W, once) + Total(s.right, W, once)
                                            + Weight(s.item, s.count, W, once)
      BY PartsShape
    <3>2. Weight(s.item, s.count, Words, TRUE) = 1
      BY <2>1 DEF Weight
    <3> QED  BY <3>1, <3>2, Zenon
  <2>3. Ascending(a, s.left) /\ Ascending(b, s.right)
    BY <1>2, <2>1
  <2>4. Len(a) = Total(s.left, Words, TRUE) /\ Len(b) = Total(s.right, Words, TRUE)
    BY <1>2, <2>1
  <2>5. list = a \o <<s>> \o b
    BY TraverseIs
  <2>6. a \in Seq(NonNil) /\ b \in Seq(NonNil) /\ s \in NonNil
    BY <2>3 DEF Ascending, NonNil
  <2> HIDE DEF a, b, list
  <2>7. /\ list \in Seq(NonNil) /\ Len(list) = Len(a) + 1 + Len(b)
        /\ \A i \in 1 .. Len(list) : \/ i <= Len(a) /\ list[i] = a[i]
                                     \/ i = Len(a) + 1 /\ list[i] = s
                                     \/ /\ i > Len(a) + 1 /\ list[i] = b[i - Len(a) - 1]
                                        /\ i - Len(a) - 1 \in 1 .. Len(b)
    BY <2>5, <2>6, Between
  <2>8. Len(a) \in Nat /\ Len(b) \in Nat
    BY <2>6
  <2>9. ASSUME NEW i \in 1 .. Len(a) PROVE Good(a[i]) /\ a[i].item \in In(s.left)
    BY <2>3 DEF Ascending
  <2>10. ASSUME NEW i \in 1 .. Len(b) PROVE Good(b[i]) /\ b[i].item \in In(s.right)
    BY <2>3 DEF Ascending
  <2>11. ASSUME NEW i \in 1 .. Len(list)
         PROVE  Good(list[i]) /\ list[i].item \in In(s)
    <3>1. CASE i <= Len(a) /\ list[i] = a[i]
      BY <2>1, <2>8, <2>9, <3>1
    <3>2. CASE list[i] = s
      BY <2>1, <3>2
    <3>3. CASE list[i] = b[i - Len(a) - 1] /\ i - Len(a) - 1 \in 1 .. Len(b)
      BY <2>1, <2>10, <3>3
    <3> QED  BY <2>7, <3>1, <3>2, <3>3
  <2>12. ASSUME NEW i \in 1 .. Len(list), NEW j \in 1 .. Len(list), i < j
         PROVE  list[i].item < list[j].item
    <3>1. \A v \in Words : v \in Int
      BY AvlAssumption
    <3>2. In(s.left) \subseteq Words /\ In(s.right) \subseteq Words
      BY DEF In
    <3>3. ASSUME NEW v \in In(s.left), NEW w \in In(s.right) PROVE v < w
      <4>1. v < s.item /\ s.item < w /\ v \in Int /\ w \in Int /\ s.item \in Int
        BY <2>1, <3>1, <3>2
      <4> QED  BY <4>1
    <3>4. CASE i <= Len(a) /\ list[i] = a[i]
      <4>1. i \in 1 .. Len(a) /\ list[i].item \in In(s.left)
        BY <2>8, <2>9, <3>4
      <4>2. CASE j <= Len(a) /\ list[j] = a[j]
        <5>1. j \in 1 .. Len(a)
          BY <2>8, <4>2
        <5> QED  BY <2>3, <2>12, <3>4, <4>1, <4>2, <5>1 DEF Ascending
      <4>3. CASE list[j] = s
        BY <2>1, <4>1, <4>3
      <4>4. CASE list[j] = b[j - Len(a) - 1] /\ j - Len(a) - 1 \in 1 .. Len(b)
        <5>1. list[j].item \in In(s.right)
          BY <2>10, <4>4
        <5> QED  BY <3>3, <4>1, <5>1
      <4> QED  BY <2>7, <4>2, <4>3, <4>4
    <3>5. CASE i = Len(a) + 1 /\ list[i] = s
      <4>1. list[j] = b[j - Len(a) - 1] /\ j - Len(a) - 1 \in 1 .. Len(b)
        BY <2>7, <2>8, <2>12, <3>5
      <4>2. list[j].item \in In(s.right)
        BY <2>10, <4>1
      <4>3. s.item < list[j].item
        BY <2>1, <3>1, <3>2, <4>2
      <4> QED  BY <3>5, <4>3
    <3>6. CASE /\ i > Len(a) + 1 /\ list[i] = b[i - Len(a) - 1]
               /\ i - Len(a) - 1 \in 1 .. Len(b)
      <4>1. list[j] = b[j - Len(a) - 1] /\ j - Len(a) - 1 \in 1 .. Len(b)
        BY <2>7, <2>8, <2>12, <3>6
      <4>2. i - Len(a) - 1 < j - Len(a) - 1
        BY <2>8, <2>12
      <4> QED  BY <2>3, <3>6, <4>1, <4>2 DEF Ascending
    <3> QED  BY <2>7, <3>4, <3>5, <3>6
  <2>13. Ascending(list, s)
    BY <2>7, <2>11, <2>12 DEF Ascending
  <2>14. Len(list) = Total(s, Words, TRUE)
    <3>1. Total(s, Words, TRUE) = Len(a) + Len(b) + 1
      BY <2>2, <2>4, Zenon
    <3>2. Len(a) + Len(b) + 1 = Len(a) + 1 + Len(b)
      BY <2>8
    <3>3. Len(list) = Len(a) + 1 + Len(b)
      BY <2>7
    <3> QED  BY <3>1, <3>2, <3>3, Zenon
  <2> QED  BY <2>13, <2>14 DEF list
<1>3. S = Trees
  <2> HIDE DEF S, P
  <2> QED  BY <1>1, <1>2, TreeInduction
<1> QED  BY <1>3, GoodIn
-----------------------------------------------------------------------------
(***************************************************************************)
(* The inductive invariant.                                                *)
(***************************************************************************)
Inv ==
    /\ open \in BOOLEAN
    /\ Good(root) /\ delta(root) + 1 <= MaxLevels
    /\ items = Total(root, Words, FALSE)
    /\ unique = Total(root, Words, TRUE)

\* avl_exists() is the number of times that the word is in the tree.
LEMMA ExistsIs == ASSUME Good(root), NEW w \in Words PROVE avl_exists(w) = Occ(root, w)
  BY SearchCorrect DEF avl_exists

\* The tree of a new or truncated file satisfies the invariant.
LEMMA EmptySound ==
    /\ Good(Nil) /\ delta(Nil) + 1 <= MaxLevels
    /\ Total(Nil, Words, FALSE) = 0 /\ Total(Nil, Words, TRUE) = 0
<1>1. \A W, once : Total(Nil, W, once) = 0
  BY TotalIs
<1>2. delta(Nil) + 1 <= MaxLevels
  BY DeltaNil, AvlAssumption
<1> QED  BY <1>1, <1>2, GoodNil, Zenon

\* Insertion, with what the bag of words becomes.
LEMMA InsertStep ==
    ASSUME Inv, NEW w \in Words, avl_insert(w)
    PROVE  /\ Inv'
           /\ unique' = unique + (IF Occ(root, w) = 0 THEN 1 ELSE 0)
           /\ \A v \in Words : Occ(root', v) = Occ(root, v) + (IF v = w THEN 1 ELSE 0)
<1> DEFINE u == update(root, w)
<1>1. /\ Good(root) /\ open \in BOOLEAN /\ delta(root) + 1 < MaxLevels /\ root' = u
      /\ open' = open /\ root \in Trees
      /\ items' = items + 1 /\ unique' = IF avl_exists(w) = 0 THEN unique + 1 ELSE unique
  BY GoodIn DEF Inv, avl_insert
<1>2. items = Total(root, Words, FALSE) /\ unique = Total(root, Words, TRUE)
  BY DEF Inv
<1>3. delta(root) \in Int /\ MaxLevels \in Nat
  BY <1>1, Numbers
<1>4. Updated(u, root, w)
  <2>1. delta(root) + 2 <= MaxLevels
    BY <1>1, <1>3
  <2> QED  BY <1>1, <2>1, UpdateCorrect
<1> HIDE DEF u
<1>5. Good(u) /\ delta(u) \in delta(root) .. delta(root) + 1
  BY <1>4 DEF Updated
<1>6. \A W, once : Total(u, W, once) = Total(root, W, once) + Gain(root, w, W, once)
  BY <1>4 DEF Updated
<1>7. delta(u) + 1 <= MaxLevels
  BY <1>1, <1>3, <1>5
<1>8. avl_exists(w) = Occ(root, w) /\ Occ(root, w) \in Nat /\ (w \in In(root) <=> Occ(root, w) > 0)
  BY <1>1, ExistsIs, OccNat, OccPositive
<1>9. items' = Total(u, Words, FALSE)
  <2>1. Total(u, Words, FALSE) = Total(root, Words, FALSE) + Gain(root, w, Words, FALSE)
    BY <1>6, Zenon
  <2>2. Gain(root, w, Words, FALSE) = 1
    BY DEF Gain
  <2> QED  BY <1>1, <1>2, <2>1, <2>2, Zenon
<1>10. unique \in Nat /\ unique' = unique + (IF Occ(root, w) = 0 THEN 1 ELSE 0)
  <2>1. unique \in Nat
    BY <1>1, <1>2, TotalNat
  <2> QED  BY <1>1, <1>8, <2>1
<1>11. unique' = Total(u, Words, TRUE)
  <2>1. Total(u, Words, TRUE) = Total(root, Words, TRUE) + Gain(root, w, Words, TRUE)
    BY <1>6, Zenon
  <2>2. Gain(root, w, Words, TRUE) = IF Occ(root, w) = 0 THEN 1 ELSE 0
    BY <1>8 DEF Gain
  <2> QED  BY <1>2, <1>10, <2>1, <2>2, Zenon
<1>12. ASSUME NEW v \in Words
       PROVE  Occ(u, v) = Occ(root, v) + (IF v = w THEN 1 ELSE 0)
  <2>1. Occ(u, v) = Occ(root, v) + Gain(root, w, {v}, FALSE)
    BY <1>6, Zenon DEF Occ
  <2>2. Gain(root, w, {v}, FALSE) = IF v = w THEN 1 ELSE 0
    BY DEF Gain
  <2> QED  BY <2>1, <2>2, Zenon
<1>13. Inv'
  BY <1>1, <1>5, <1>7, <1>9, <1>11 DEF Inv
<1> QED  BY <1>1, <1>10, <1>12, <1>13

\* Deletion, likewise.
LEMMA DeleteStep ==
    ASSUME Inv, NEW w \in Words, avl_delete(w)
    PROVE  /\ Inv'
           /\ unique' = unique - (IF Occ(root, w) = 1 THEN 1 ELSE 0)
           /\ \A v \in Words : Occ(root', v) = Occ(root, v) + (IF v = w THEN -1 ELSE 0)
<1> DEFINE u == delete(root, w)
<1>1. /\ Good(root) /\ open \in BOOLEAN /\ delta(root) + 1 <= MaxLevels /\ root' = u
      /\ open' = open /\ root \in Trees /\ avl_exists(w) # 0
      /\ items' = items - 1 /\ unique' = IF avl_exists(w) = 1 THEN unique - 1 ELSE unique
  BY GoodIn DEF Inv, avl_delete
<1>2. items = Total(root, Words, FALSE) /\ unique = Total(root, Words, TRUE)
  BY DEF Inv
<1>3. delta(root) \in Int /\ MaxLevels \in Nat
  BY <1>1, Numbers
<1>4. avl_exists(w) = Occ(root, w) /\ Occ(root, w) \in Nat /\ (w \in In(root) <=> Occ(root, w) > 0)
  BY <1>1, ExistsIs, OccNat, OccPositive
<1>5. w \in In(root)
  BY <1>1, <1>4
<1>6. Deleted(u, root, w)
  BY <1>1, <1>5, DeleteCorrect
<1> HIDE DEF u
<1>7. Good(u) /\ delta(u) \in delta(root) - 1 .. delta(root)
  BY <1>6 DEF Deleted
<1>8. \A W, once : Total(root, W, once) = Total(u, W, once) + Loss(root, w, W, once)
  BY <1>6 DEF Deleted
<1>9. delta(u) + 1 <= MaxLevels
  BY <1>1, <1>3, <1>7
<1>10. /\ u \in Trees /\ Total(u, Words, FALSE) \in Nat /\ Total(u, Words, TRUE) \in Nat
  BY <1>7, GoodIn, TotalNat
<1>11. items' = Total(u, Words, FALSE)
  <2> DEFINE n == Total(u, Words, FALSE)
  <2>1. Loss(root, w, Words, FALSE) = 1
    BY DEF Loss
  <2>2. items = n + 1 /\ n \in Nat
    BY <1>2, <1>8, <1>10, <2>1, Zenon
  <2> HIDE DEF n
  <2>3. items' = n
    BY <1>1, <2>2
  <2> QED  BY <2>3 DEF n
<1>12. /\ unique' = Total(u, Words, TRUE)
       /\ unique' = unique - (IF Occ(root, w) = 1 THEN 1 ELSE 0)
  <2> DEFINE n == Total(u, Words, TRUE)
             k == IF Occ(root, w) = 1 THEN 1 ELSE 0
  <2>1. Loss(root, w, Words, TRUE) = k
    BY DEF Loss
  <2>2. unique = n + k /\ n \in Nat
    BY <1>2, <1>8, <1>10, <2>1, Zenon
  <2> HIDE DEF n
  <2>3. unique' = n /\ unique' = unique - k
    BY <1>1, <1>4, <2>2
  <2> QED  BY <2>3 DEF n
<1>13. ASSUME NEW v \in Words
       PROVE  Occ(u, v) = Occ(root, v) + (IF v = w THEN -1 ELSE 0)
  <2>1. Occ(root, v) = Occ(u, v) + Loss(root, w, {v}, FALSE)
    BY <1>8, Zenon DEF Occ
  <2>2. Loss(root, w, {v}, FALSE) = IF v = w THEN 1 ELSE 0
    BY DEF Loss
  <2>3. Occ(u, v) \in Nat
    BY <1>10, OccNat
  <2> DEFINE k == IF v = w THEN 1 ELSE 0
  <2>4. Occ(root, v) = Occ(u, v) + k
    BY <2>1, <2>2, Zenon
  <2> QED  BY <2>3, <2>4
<1>14. Inv'
  BY <1>1, <1>7, <1>9, <1>11, <1>12 DEF Inv
<1> QED  BY <1>1, <1>12, <1>13, <1>14

\* avl_open() takes the file as it is, or empties it.
LEMMA OpenStep ==
    ASSUME Inv, NEW truncate \in BOOLEAN, avl_open(truncate)
    PROVE  /\ Inv'
           /\ \/ UNCHANGED <<root, items, unique>>
              \/ root' = Nil /\ items' = 0 /\ unique' = 0
<1>1. CASE truncate
  BY <1>1, EmptySound, Zenon DEF Inv, avl_open
<1>2. CASE ~truncate
  BY <1>2, Zenon DEF Inv, avl_open
<1> QED  BY <1>1, <1>2

\* The invariant holds before the first call.
LEMMA InvInit == Init => Inv
  BY EmptySound DEF Init, Inv

\* Every call keeps the invariant.
LEMMA InvNext == Inv /\ [Next]_vars => Inv'
<1> SUFFICES ASSUME Inv, [Next]_vars PROVE Inv'
  OBVIOUS
<1>1. ASSUME NEW truncate \in BOOLEAN, avl_open(truncate) PROVE Inv'
  BY <1>1, OpenStep
<1>2. CASE avl_close
  BY <1>2 DEF Inv, avl_close
<1>3. ASSUME NEW w \in Words, avl_insert(w) PROVE Inv'
  BY <1>3, InsertStep
<1>4. ASSUME NEW w \in Words, avl_delete(w) PROVE Inv'
  BY <1>4, DeleteStep
<1>5. CASE UNCHANGED vars
  BY <1>5 DEF Inv, vars
<1> QED  BY <1>1, <1>2, <1>3, <1>4, <1>5 DEF Next
-----------------------------------------------------------------------------
(***************************************************************************)
(* The theorems.                                                           *)
(***************************************************************************)
\* The tree is sound and its counters are exact in every state, whatever words were
\* inserted and deleted, and however often the file was closed and opened.
THEOREM InvHolds == Spec => []Inv
  BY InvInit, InvNext, PTL DEF Spec

\* What is known of a node that `list' shows.
LEMMA NodesGood ==
    ASSUME Inv, NEW n \in Nodes
    PROVE  Good(n) /\ n # Nil
<1>1. PICK i \in DOMAIN Listing : n = Listing[i]
  BY DEF Nodes
<1>2. Ascending(Listing, root)
  BY TraverseCorrect DEF Inv, Listing
<1>3. i \in 1 .. Len(Listing)
  BY <1>1, <1>2 DEF Ascending
<1> QED  BY <1>1, <1>2, <1>3 DEF Ascending, NonNil

\* avl.c: no counter of struct state falls below 0, no node stays with a count of 0.
THEOREM TypeCorrect == Spec => []TypeOK
<1>1. Inv => TypeOK
  <2> SUFFICES ASSUME Inv PROVE TypeOK
    OBVIOUS
  <2>1. ASSUME NEW n \in Nodes
        PROVE  n.depth \in Nat /\ n.count \in Nat \ {0} /\ n.item \in Words
    BY NodesGood, GoodIn, Subtrees, PartsShape
  <2>2. items \in Nat /\ unique \in Nat
    BY GoodIn, TotalNat DEF Inv
  <2> QED  BY <2>1, <2>2 DEF TypeOK, Inv
<1> QED  BY <1>1, InvHolds, PTL

\* avl_exists(), avl_items(), avl_unique() and the listing of traverse() agree, for
\* every set of words and through every rotation of update() and delete().
THEOREM ListCorrect == Spec => []ListIsExact
<1>1. Inv => ListIsExact
  <2> SUFFICES ASSUME Inv PROVE ListIsExact
    OBVIOUS
  <2>1. Ascending(Listing, root) /\ Len(Listing) = unique
    BY TraverseCorrect DEF Inv, Listing
  <2>2. ASSUME NEW i \in 1 .. Len(Listing) - 1
        PROVE  Listing[i].item < Listing[i + 1].item
    <3>1. Len(Listing) \in Nat
      BY <2>1 DEF Ascending
    <3>2. i \in 1 .. Len(Listing) /\ i + 1 \in 1 .. Len(Listing) /\ i < i + 1
      BY <3>1
    <3> QED  BY <2>1, <3>2 DEF Ascending
  <2>3. \A w \in Words : avl_exists(w) = Total(root, {w}, FALSE)
    BY ExistsIs DEF Inv, Occ
  <2>4. items = Total(root, Words, FALSE)
    BY DEF Inv
  <2> QED  BY <2>1, <2>2, <2>3, <2>4 DEF ListIsExact
<1> QED  BY <1>1, InvHolds, PTL

\* The rotations of update() and delete() keep every node in balance, and the depth
\* that is kept in it right.
THEOREM BalanceCorrect == Spec => []IsBalanced
<1>1. Inv => IsBalanced
  <2> SUFFICES ASSUME Inv, NEW n \in Nodes
               PROVE  n.depth = Height(n) /\ balance(n) \in -1 .. 1
    BY DEF IsBalanced
  <2> QED  BY NodesGood, HeightCorrect, PartsShape DEF delta
<1> QED  BY <1>1, InvHolds, PTL

\* avl.c implements a bag of words: rotations are not seen, and no word is lost or
\* counted wrong when a node is replaced by the least one on its right.
THEOREM BagImplemented == Spec => ImplementsBag
<1>1. Init => Bag!Init
  <2> SUFFICES ASSUME Init PROVE Bag!Init
    OBVIOUS
  <2>1. \A w \in Words : avl_exists(w) = 0
    BY SearchIs DEF Init, avl_exists
  <2> QED  BY <2>1 DEF Init, Bag!Init, Bag!Empty, Contents
<1>2. Inv /\ [Next]_vars => [Bag!Next]_<<Contents, items, unique>>
  <2> SUFFICES ASSUME Inv, [Next]_vars
               PROVE  [Bag!Next]_<<Contents, items, unique>>
    OBVIOUS
  <2>1. Good(root) /\ Contents = [w \in Words |-> Search(root, w)]
    BY DEF Inv, Contents, avl_exists
  <2>2. Contents' = [w \in Words |-> Search(root', w)]
    BY DEF Contents, avl_exists
  <2>3. \A v \in Words : Contents[v] = Occ(root, v)
    BY <2>1, SearchCorrect
  <2>4. ASSUME Inv'
        PROVE  /\ \A v \in Words : Contents'[v] = Occ(root', v)
               /\ Contents' \in [Words -> Nat]
    <3>1. Good(root')
      BY <2>4 DEF Inv
    <3>2. ASSUME NEW v \in Words PROVE Search(root', v) = Occ(root', v) /\ Occ(root', v) \in Nat
      BY <3>1, SearchCorrect, GoodIn, OccNat
    <3> QED  BY <2>2, <3>2
  <2>5. ASSUME UNCHANGED <<root, items, unique>>
        PROVE  UNCHANGED <<Contents, items, unique>>
    BY <2>1, <2>2, <2>5
  <2>6. ASSUME NEW truncate \in BOOLEAN, avl_open(truncate)
        PROVE  [Bag!Next]_<<Contents, items, unique>>
    <3>1. CASE UNCHANGED <<root, items, unique>>
      BY <2>5, <3>1
    <3>2. CASE root' = Nil /\ items' = 0 /\ unique' = 0
      <4>1. \A w \in Words : Search(Nil, w) = 0
        BY SearchIs
      <4>2. Contents' = [w \in Words |-> 0]
        BY <2>2, <3>2, <4>1
      <4>3. Bag!Truncate
        BY <3>2, <4>2 DEF Bag!Truncate, Bag!Empty
      <4> QED  BY <4>3 DEF Bag!Next
    <3> QED  BY <2>6, <3>1, <3>2, OpenStep
  <2>7. CASE avl_close
    BY <2>5, <2>7 DEF avl_close
  <2>8. ASSUME NEW w \in Words, avl_insert(w)
        PROVE  [Bag!Next]_<<Contents, items, unique>>
    <3>1. /\ Inv' /\ items' = items + 1
          /\ unique' = unique + (IF Occ(root, w) = 0 THEN 1 ELSE 0)
          /\ \A v \in Words : Occ(root', v) = Occ(root, v) + (IF v = w THEN 1 ELSE 0)
      BY <2>8, InsertStep DEF avl_insert
    <3>2. Bag!Add(w, 1)
      BY <2>3, <2>4, <3>1 DEF Bag!Add
    <3>3. Bag!Insert(w)
      BY <2>3, <3>1, <3>2 DEF Bag!Insert
    <3> QED  BY <3>3 DEF Bag!Next
  <2>9. ASSUME NEW w \in Words, avl_delete(w)
        PROVE  [Bag!Next]_<<Contents, items, unique>>
    <3>1. /\ Inv' /\ items' = items - 1
          /\ unique' = unique - (IF Occ(root, w) = 1 THEN 1 ELSE 0)
          /\ \A v \in Words : Occ(root', v) = Occ(root, v) + (IF v = w THEN -1 ELSE 0)
      BY <2>9, DeleteStep DEF avl_delete
    <3>2. Bag!Add(w, -1)
      BY <2>3, <2>4, <3>1 DEF Bag!Add
    <3>3. Bag!Delete(w)
      BY <2>3, <3>1, <3>2 DEF Bag!Delete
    <3> QED  BY <3>3 DEF Bag!Next
  <2>10. CASE UNCHANGED vars
    BY <2>5, <2>10 DEF vars
  <2> QED  BY <2>6, <2>7, <2>8, <2>9, <2>10 DEF Next
<1> QED  BY <1>1, <1>2, InvHolds, PTL DEF Spec, ImplementsBag, Bag!Spec
=============================================================================
