--------------------------- MODULE CompilerProofs ---------------------------
(***************************************************************************)
(* Proofs about the expression compiler of project-1.                      *)
(*                                                                         *)
(* The parser is compared with Meaning, which divides the lexemes at the   *)
(* last operator that binds least.  Accepts: if that finds an expression,  *)
(* the parser finds the same (Finds, by induction over the parts of the    *)
(* argument).  ParsesSoundly: if the parser finds a tree, Meaning is that  *)
(* tree (Sound, as no call of the parser can be the first to be wrong);    *)
(* what a function of the parser has read is closed, so that an operator   *)
(* behind it is outside of its parentheses (Closed, Reads).                *)
(*                                                                         *)
(* The code for a tree uses what is declared and computes the tree,        *)
(* wherever it stands (Generated, by induction over the tree), thus        *)
(* running the program that was written yields the tree (ProgramIsRight).  *)
(*                                                                         *)
(* The inductive invariant IInv of the driver says which code the two      *)
(* files and the loaded module hold at each place of main().               *)
(*                                                                         *)
(* That the recursive functions of the model satisfy the equations that    *)
(* define them (ParseIs, PartIs, ProgramGenerated, VariablesIs) follows    *)
(* from an order of their arguments in which there is always a first.      *)
(***************************************************************************)
EXTENDS Compiler, FiniteSetTheorems, SequenceTheorems, NaturalsInduction, WellFoundedInduction, TLAPS

\* A set of naturals that is not empty has a least one.
LEMMA Least ==
    ASSUME NEW S \in SUBSET Nat, S # {}
    PROVE  \E x \in S : \A y \in S : x <= y
<1> DEFINE R == OpToRel(<, Nat)
<1>1. R = {p \in Nat \X Nat : p[1] < p[2]}
  BY Zenon DEF OpToRel
<1>2. IsWellFoundedOn(R, Nat)
  BY Zenon, NatLessThanWellFounded
<1>3. PICK x \in S : \A y \in S : <<y, x>> \notin R
  <2> HIDE DEF R
  <2> QED  BY <1>2, WFMin
<1>4. ASSUME NEW y \in S PROVE x <= y
  <2>1. <<y, x>> \notin R
    BY <1>3
  <2> HIDE DEF R
  <2> QED  BY <1>1, <2>1
<1> QED  BY <1>4

\* Induction over the naturals, with a set for the predicate.
LEMMA Induction ==
    ASSUME NEW S \in SUBSET Nat, 0 \in S, \A n \in S : n + 1 \in S
    PROVE  S = Nat
<1> SUFFICES ASSUME Nat \ S # {} PROVE FALSE
  OBVIOUS
<1>1. PICK x \in Nat \ S : \A y \in Nat \ S : x <= y
  BY Least
<1>2. x - 1 \in Nat /\ ~(x <= x - 1) /\ (x - 1) + 1 = x
  BY <1>1
<1> QED  BY <1>1, <1>2

\* The last element of a set of places.
LEMMA MaxIs ==
    ASSUME NEW b \in Nat, NEW S \in SUBSET (0 .. b), S # {}
    PROVE  Max(S) \in S /\ \A y \in S : y <= Max(S)
<1> DEFINE D == {b - x : x \in S}
<1>1. D \in SUBSET Nat /\ D # {}
  <2>1. \A x \in S : x \in 0 .. b
    OBVIOUS
  <2>2. \A x \in S : b - x \in Nat
    BY <2>1
  <2> QED  BY <2>2
<1>2. PICK d \in D : \A y \in D : d <= y
  <2> HIDE DEF D
  <2> QED  BY <1>1, Least
<1>3. PICK x \in S : d = b - x
  BY <1>2
<1>4. \A y \in S : x >= y
  BY <1>2, <1>3
<1>5. Max(S) \in S /\ \A y \in S : Max(S) >= y
  BY <1>4, Zenon DEF Max
<1> QED  BY <1>5

-----------------------------------------------------------------------------
\* The trees of h + 1 levels are made of those of h levels.
LEMMA Levels ==
    ASSUME NEW V
    PROVE  /\ Dags(V, 0) = {Val(v) : v \in V}
           /\ \A h \in Nat : Dags(V, h + 1) =
                Dags(V, h) \cup [op : {"neg"}, right : Dags(V, h)]
                  \cup [op : {"+", "-", "*", "/"}, left : Dags(V, h), right : Dags(V, h)]
<1> DEFINE F == {Val(v) : v \in V}
           Def(t, h) == t \cup [op : {"neg"}, right : t]
                          \cup [op : {"+", "-", "*", "/"}, left : t, right : t]
           D == CHOOSE d : d = [n \in Nat |-> IF n = 0 THEN F ELSE Def(d[n - 1], n)]
<1>1. \A h : Dags(V, h) = D[h]
  BY DEF Dags
<1>2. NatInductiveDefHypothesis(D, F, Def)
  BY DEF NatInductiveDefHypothesis
<1>3. D = [n \in Nat |-> IF n = 0 THEN F ELSE Def(D[n - 1], n)]
  <2> HIDE DEF F, Def, D
  <2>1. NatInductiveDefConclusion(D, F, Def)
    BY <1>2, NatInductiveDef
  <2> QED  BY <2>1 DEF NatInductiveDefConclusion
<1>4. D[0] = F /\ \A h \in Nat : D[h + 1] = Def(D[h], h + 1)
  <2> HIDE DEF F, Def, D
  <2> QED  BY <1>3
<1> HIDE DEF D
<1> QED  BY <1>1, <1>4

\* A tree of few levels is one of more levels.
LEMMA Monotone ==
    ASSUME NEW V
    PROVE  \A h, k \in Nat : h <= k => Dags(V, h) \subseteq Dags(V, k)
<1> DEFINE U == {n \in Nat : \A h \in Nat : Dags(V, h) \subseteq Dags(V, h + n)}
<1>1. 0 \in U
  OBVIOUS
<1>2. ASSUME NEW n \in U PROVE n + 1 \in U
  <2>1. ASSUME NEW h \in Nat PROVE Dags(V, h) \subseteq Dags(V, h + (n + 1))
    <3>1. Dags(V, h) \subseteq Dags(V, h + n) /\ h + n \in Nat /\ (h + n) + 1 = h + (n + 1)
      BY <1>2
    <3>2. Dags(V, h + n) \subseteq Dags(V, (h + n) + 1)
      BY <3>1, Levels
    <3> QED  BY <3>1, <3>2
  <2> QED  BY <2>1
<1>3. U = Nat
  <2>1. U \subseteq Nat
    OBVIOUS
  <2> HIDE DEF U
  <2> QED  BY <1>1, <1>2, <2>1, Induction
<1> QED
  <2> TAKE h, k \in Nat
  <2>1. HAVE h <= k
  <2>2. k - h \in Nat /\ h + (k - h) = k
    BY <2>1
  <2> QED  BY <1>3, <2>2

\* A tree with a node more has a level more.
LEMMA NodeFits ==
    ASSUME NEW V, NEW h \in Nat
    PROVE  /\ \A v \in V : Val(v) \in Dags(V, h)
           /\ \A t \in Dags(V, h) : Neg(t) \in Dags(V, h + 1)
           /\ \A o \in {"+", "-", "*", "/"}, l, r \in Dags(V, h) : Bin(o, l, r) \in Dags(V, h + 1)
<1>1. \A v \in V : Val(v) \in Dags(V, h)
  <2>1. Dags(V, 0) \subseteq Dags(V, h)
    BY Monotone
  <2> QED  BY <2>1, Levels
<1>2. /\ [op : {"neg"}, right : Dags(V, h)] \subseteq Dags(V, h + 1)
      /\ [op : {"+", "-", "*", "/"}, left : Dags(V, h), right : Dags(V, h)] \subseteq Dags(V, h + 1)
  BY Levels
<1>3. \A t \in Dags(V, h) : Neg(t) \in Dags(V, h + 1)
  BY <1>2 DEF Neg
<1>4. \A o \in {"+", "-", "*", "/"}, l, r \in Dags(V, h) : Bin(o, l, r) \in Dags(V, h + 1)
  BY <1>2 DEF Bin
<1> QED  BY <1>1, <1>3, <1>4

\* The three forms of a tree with h levels.
Shape(V, h, t) ==
    \/ \E v \in V : t = Val(v)
    \/ /\ h > 0
       /\ \E r \in Dags(V, h - 1) : t = Neg(r)
    \/ /\ h > 0
       /\ \E o \in {"+", "-", "*", "/"}, l, r \in Dags(V, h - 1) : t = Bin(o, l, r)

\* A tree has one of the forms.
LEMMA ShapeIs ==
    ASSUME NEW V
    PROVE  \A h \in Nat : \A t \in Dags(V, h) : Shape(V, h, t)
<1> DEFINE U == {h \in Nat : \A t \in Dags(V, h) : Shape(V, h, t)}
<1>1. 0 \in U
  BY Levels DEF Shape
<1>2. ASSUME NEW h \in U PROVE h + 1 \in U
  <2>1. h \in Nat /\ (h + 1) - 1 = h /\ h + 1 > 0
    OBVIOUS
  <2>2. ASSUME NEW t \in Dags(V, h + 1) PROVE Shape(V, h + 1, t)
    <3>1. CASE t \in Dags(V, h)
      <4>1. Shape(V, h, t)
        BY <3>1
      <4>2. h > 0 => Dags(V, h - 1) \subseteq Dags(V, h)
        BY <2>1, Monotone
      <4> QED  BY <2>1, <4>1, <4>2 DEF Shape
    <3>2. CASE t \in [op : {"neg"}, right : Dags(V, h)]
      <4>1. t.right \in Dags(V, h) /\ t = Neg(t.right)
        BY <3>2 DEF Neg
      <4> QED  BY <2>1, <4>1 DEF Shape
    <3>3. CASE t \in [op : {"+", "-", "*", "/"}, left : Dags(V, h), right : Dags(V, h)]
      <4>1. t.left \in Dags(V, h) /\ t.right \in Dags(V, h) /\ t.op \in {"+", "-", "*", "/"}
        BY <3>3
      <4>2. t = Bin(t.op, t.left, t.right)
        BY <3>3 DEF Bin
      <4> QED  BY <2>1, <4>1, <4>2 DEF Shape
    <3> QED  BY <2>1, <3>1, <3>2, <3>3, Levels
  <2> QED  BY <2>1, <2>2
<1>3. U = Nat
  <2>1. U \subseteq Nat
    OBVIOUS
  <2> HIDE DEF U
  <2> QED  BY <1>1, <1>2, <2>1, Induction
<1> QED  BY <1>3
-----------------------------------------------------------------------------
\* A token stands for each lexeme.
LEMMA Tokens ==
    ASSUME NEW s \in Seq(Lexemes)
    PROVE  /\ Len(s) \in Nat /\ Len(tokenize(s)) = Len(s)
           /\ \A i \in 1 .. Len(s) :
                /\ s[i] \in Lexemes
                /\ s[i] \in Numbers => tokenize(s)[i] = [op |-> "val", val |-> <<s[i], i>>]
                /\ s[i] \notin Numbers => tokenize(s)[i] = [op |-> s[i]]
<1>1. DOMAIN s = 1 .. Len(s) /\ Len(s) \in Nat /\ \A i \in 1 .. Len(s) : s[i] \in Lexemes
  OBVIOUS
<1> DEFINE t(i) == IF s[i] \in Numbers THEN [op |-> "val", val |-> <<s[i], i>>]
                                       ELSE [op |-> s[i]]
<1>2. tokenize(s) = [i \in 1 .. Len(s) |-> t(i)]
  BY <1>1 DEF tokenize
<1>3. Len(tokenize(s)) = Len(s)
  <2> HIDE DEF t
  <2>1. tokenize(s) \in Seq({t(i) : i \in 1 .. Len(s)})
    BY <1>1, <1>2
  <2> QED  BY <2>1, <1>1, <1>2
<1>4. ASSUME NEW i \in 1 .. Len(s) PROVE tokenize(s)[i] = t(i)
  <2> HIDE DEF t
  <2> QED  BY <1>2
<1> QED  BY <1>1, <1>3, <1>4

\* The token at a place is an operator or a number if the lexeme is one.
LEMMA MatchIs ==
    ASSUME NEW s \in Seq(Lexemes), NEW i \in 1 .. Len(s) + 1
    PROVE  /\ \A ops \in SUBSET Operators : match(tokenize(s), i, ops) <=> i <= Len(s) /\ s[i] \in ops
           /\ match(tokenize(s), i, {"val"}) <=> i <= Len(s) /\ s[i] \in Numbers
           /\ i <= Len(s) /\ s[i] \in Numbers => tokenize(s)[i].val = <<s[i], i>>
           /\ \A ops \in SUBSET Operators : i <= Len(s) /\ s[i] \in ops => tokenize(s)[i].op = s[i]
<1>1. Len(s) \in Nat /\ Len(tokenize(s)) = Len(s) /\ i \in Nat
  BY Tokens
<1>2. CASE i = Len(s) + 1
  BY <1>1, <1>2 DEF match
<1>3. CASE i \in 1 .. Len(s)
  <2>1. s[i] \in Lexemes
    BY <1>3, Tokens
  <2>2. CASE s[i] \in Numbers
    <3>1. tokenize(s)[i] = [op |-> "val", val |-> <<s[i], i>>]
      BY <1>3, <2>2, Tokens
    <3>2. tokenize(s)[i].op = "val" /\ tokenize(s)[i].val = <<s[i], i>>
      BY <3>1
    <3>3. \A ops \in SUBSET Operators : s[i] \notin ops /\ "val" \notin ops
      BY <2>2 DEF Numbers, Operators
    <3> QED  BY <1>1, <1>3, <2>2, <3>2, <3>3 DEF match
  <2>3. CASE s[i] \notin Numbers
    <3>1. tokenize(s)[i] = [op |-> s[i]]
      BY <1>3, <2>3, Tokens
    <3>2. tokenize(s)[i].op = s[i]
      BY <3>1
    <3>3. s[i] # "val"
      BY <2>1 DEF Lexemes, Numbers, Operators
    <3>5. i <= Len(s)
      BY <1>1, <1>3, SMT
    <3>6. i <= Len(tokenize(s))
      BY <1>1, <3>5
    <3>4. ASSUME NEW ops PROVE match(tokenize(s), i, ops) <=> s[i] \in ops
      <4>1. match(tokenize(s), i, ops) <=> tokenize(s)[i].op \in ops
        BY <3>6 DEF match
      <4> QED  BY <4>1, <3>2
    <3>7. ~match(tokenize(s), i, {"val"})
      <4>1. match(tokenize(s), i, {"val"}) <=> tokenize(s)[i].op = "val"
        BY <3>6 DEF match
      <4> QED  BY <4>1, <3>2, <3>3
    <3> QED  BY <2>3, <3>2, <3>5, <3>4, <3>7, Zenon
  <2> QED  BY <2>2, <2>3
<1>4. i = Len(s) + 1 \/ i \in 1 .. Len(s)
  BY <1>1
<1> QED  BY <1>2, <1>3, <1>4, Zenon

-----------------------------------------------------------------------------
\* The trees that the loops of the parser have built after each turn.
MultTurns(run, ts, i) ==
    LET turn[n \in Nat] == IF n = 0 THEN run[<<"expr_unary", i>>]
                           ELSE expr_multiplicative_(run, ts, turn[n - 1])
    IN  turn
AddTurns(run, ts, i) ==
    LET turn[n \in Nat] == IF n = 0 THEN run[<<"expr_multiplicative", i>>]
                           ELSE expr_additive_(run, ts, turn[n - 1])
    IN  turn

NextTurnMult(run, ts, i) ==
    \A n \in Nat : MultTurns(run, ts, i)[n + 1] =
                     expr_multiplicative_(run, ts, MultTurns(run, ts, i)[n])
NextTurnAdd(run, ts, i) ==
    \A n \in Nat : AddTurns(run, ts, i)[n + 1] =
                     expr_additive_(run, ts, AddTurns(run, ts, i)[n])

\* Each turn of expr_multiplicative_() begins where the one before has ended.
LEMMA MultTurnsIs ==
    ASSUME NEW run, NEW ts, NEW i
    PROVE  /\ expr_multiplicative(run, ts, i) = MultTurns(run, ts, i)[Len(ts)]
           /\ MultTurns(run, ts, i)[0] = run[<<"expr_unary", i>>]
           /\ NextTurnMult(run, ts, i)
<1> DEFINE F == run[<<"expr_unary", i>>]
           Def(e, n) == expr_multiplicative_(run, ts, e)
           T == CHOOSE turn : turn = [n \in Nat |-> IF n = 0 THEN F ELSE Def(turn[n - 1], n)]
<1>1. MultTurns(run, ts, i) = T /\ expr_multiplicative(run, ts, i) = T[Len(ts)]
  BY DEF MultTurns, expr_multiplicative
<1>2. NatInductiveDefHypothesis(T, F, Def)
  BY DEF NatInductiveDefHypothesis
<1>3. T = [n \in Nat |-> IF n = 0 THEN F ELSE Def(T[n - 1], n)]
  <2> HIDE DEF F, Def, T
  <2>1. NatInductiveDefConclusion(T, F, Def)
    BY <1>2, NatInductiveDef
  <2> QED  BY <2>1 DEF NatInductiveDefConclusion
<1>4. T[0] = F /\ \A n \in Nat : T[n + 1] = Def(T[n], n + 1)
  <2> HIDE DEF F, Def, T
  <2> QED  BY <1>3
<1> HIDE DEF T
<1> QED  BY <1>1, <1>4 DEF NextTurnMult

\* Each turn of expr_additive_() begins where the one before has ended.
LEMMA AddTurnsIs ==
    ASSUME NEW run, NEW ts, NEW i
    PROVE  /\ expr(run, ts, i) = AddTurns(run, ts, i)[Len(ts)]
           /\ AddTurns(run, ts, i)[0] = run[<<"expr_multiplicative", i>>]
           /\ NextTurnAdd(run, ts, i)
<1> DEFINE F == run[<<"expr_multiplicative", i>>]
           Def(e, n) == expr_additive_(run, ts, e)
           T == CHOOSE turn : turn = [n \in Nat |-> IF n = 0 THEN F ELSE Def(turn[n - 1], n)]
<1>1. AddTurns(run, ts, i) = T /\ expr(run, ts, i) = T[Len(ts)]
  BY DEF AddTurns, expr
<1>2. NatInductiveDefHypothesis(T, F, Def)
  BY DEF NatInductiveDefHypothesis
<1>3. T = [n \in Nat |-> IF n = 0 THEN F ELSE Def(T[n - 1], n)]
  <2> HIDE DEF F, Def, T
  <2>1. NatInductiveDefConclusion(T, F, Def)
    BY <1>2, NatInductiveDef
  <2> QED  BY <2>1 DEF NatInductiveDefConclusion
<1>4. T[0] = F /\ \A n \in Nat : T[n + 1] = Def(T[n], n + 1)
  <2> HIDE DEF F, Def, T
  <2> QED  BY <1>3
<1> HIDE DEF T
<1> QED  BY <1>1, <1>4 DEF NextTurnAdd
-----------------------------------------------------------------------------
\* A function of the parser, called at i, ends behind i if it has built a tree, and
\* the tree is one over the numbers of the argument.
Advances(s, i, e) ==
    /\ e = [dag |-> e.dag, i |-> e.i, wild |-> e.wild]
    /\ e.i \in i .. Len(s) + 1
    /\ e.dag # Null => e.i > i /\ e.dag \in Dags(Values(s), e.i - i - 1)

\* A tree that was found from i on is made of few levels.
LEMMA FewLevels ==
    ASSUME NEW s \in Seq(Lexemes), NEW i \in 1 .. Len(s) + 1, NEW e, Advances(s, i, e),
           e.dag # Null, NEW h \in Nat, e.i - i - 1 <= h
    PROVE  e.dag \in Dags(Values(s), h)
<1>1. Len(s) \in Nat /\ i \in Nat /\ e.i \in Nat
  BY Tokens DEF Advances
<1>2. e.i > i /\ e.dag \in Dags(Values(s), e.i - i - 1)
  BY DEF Advances
<1>3. e.i - i - 1 \in Nat
  BY <1>1, <1>2
<1> QED  BY <1>2, <1>3, Monotone

\* A tree is not Null.
LEMMA NotNull ==
    /\ \A v : Val(v) # Null
    /\ \A t : Neg(t) # Null
    /\ \A o \in {"+", "-", "*", "/"} : \A l, r : Bin(o, l, r) # Null
<1>1. Null.op = "null"
  BY DEF Null
<1>2. ASSUME NEW v PROVE Val(v).op = "val"
  BY DEF Val
<1>3. ASSUME NEW t PROVE Neg(t).op = "neg"
  BY DEF Neg
<1>4. ASSUME NEW o \in {"+", "-", "*", "/"}, NEW l, NEW r PROVE Bin(o, l, r).op = o
  BY DEF Bin
<1>5. /\ \A v : Val(v).op # Null.op
      /\ \A t : Neg(t).op # Null.op
      /\ \A o \in {"+", "-", "*", "/"} : \A l, r : Bin(o, l, r).op # Null.op
  BY <1>1, <1>2, <1>3, <1>4
<1> QED  BY <1>5

\* What joining the tree of e and that of the operand r behind the operator gives.
LEMMA JoinAdvances ==
    ASSUME NEW s \in Seq(Lexemes), NEW i \in 1 .. Len(s) + 1, NEW e, Advances(s, i, e),
           e.dag # Null, e.i <= Len(s), NEW r, Advances(s, e.i + 1, r), NEW o \in {"+", "-", "*", "/"}
    PROVE  /\ r.dag # Null => Advances(s, i, [r EXCEPT !.dag = Bin(o, e.dag, @)])
           /\ r.dag = Null => /\ Advances(s, i, r)
                              /\ Advances(s, i, [dag |-> Null, i |-> r.i, wild |-> TRUE])
<1>1. Len(s) \in Nat /\ i \in Nat /\ e.i \in Nat /\ e.i > i /\ r.i \in Nat /\ r.i >= e.i + 1
      /\ r.i <= Len(s) + 1
  BY Tokens DEF Advances
<1>2. r = [dag |-> r.dag, i |-> r.i, wild |-> r.wild]
  BY DEF Advances
<1>3. CASE r.dag = Null
  <2>1. r.i \in i .. Len(s) + 1
    BY <1>1
  <2> DEFINE w == [dag |-> Null, i |-> r.i, wild |-> TRUE]
  <2>3. w.dag = Null /\ w.i = r.i /\ w = [dag |-> w.dag, i |-> w.i, wild |-> w.wild]
    OBVIOUS
  <2> HIDE DEF w
  <2>4. Advances(s, i, r)
    BY <1>2, <1>3, <2>1 DEF Advances
  <2>5. Advances(s, i, w)
    BY <2>1, <2>3 DEF Advances
  <2> QED  BY <1>3, <2>4, <2>5 DEF w
<1>4. CASE r.dag # Null
  <2> DEFINE b == [r EXCEPT !.dag = Bin(o, e.dag, @)]
             h == r.i - i - 2
  <2>1. b = [dag |-> Bin(o, e.dag, r.dag), i |-> r.i, wild |-> r.wild]
    BY <1>2
  <2>2. b.dag = Bin(o, e.dag, r.dag) /\ b.i = r.i /\ b = [dag |-> b.dag, i |-> b.i, wild |-> b.wild]
    BY <2>1
  <2>3. r.i > e.i + 1
    BY <1>4 DEF Advances
  <2>4. h \in Nat /\ e.i - i - 1 <= h /\ r.i - (e.i + 1) - 1 <= h /\ h + 1 = r.i - i - 1
    <3>1. ASSUME NEW a \in Nat, NEW j \in Nat, NEW k \in Nat, j > a, k > j + 1
          PROVE  /\ k - a - 2 \in Nat /\ j - a - 1 <= k - a - 2
                 /\ k - (j + 1) - 1 <= k - a - 2 /\ (k - a - 2) + 1 = k - a - 1
      BY <3>1
    <3> QED  BY <3>1, <1>1, <2>3
  <2>5. e.i + 1 \in 1 .. Len(s) + 1
    BY <1>1
  <2> HIDE DEF h
  <2>6. e.dag \in Dags(Values(s), h) /\ r.dag \in Dags(Values(s), h)
    BY <1>4, <2>4, <2>5, FewLevels
  <2>7. Bin(o, e.dag, r.dag) \in Dags(Values(s), r.i - i - 1)
    BY <2>4, <2>6, NodeFits
  <2>8. r.i \in i .. Len(s) + 1 /\ r.i > i
    BY <1>1
  <2> HIDE DEF b
  <2>9. Advances(s, i, b)
    BY <2>2, <2>7, <2>8 DEF Advances
  <2> QED  BY <1>4, <2>9 DEF b
<1> QED  BY <1>3, <1>4

\* A turn of expr_multiplicative_() goes on from e.i.
LEMMA MultTurn ==
    ASSUME NEW s \in Seq(Lexemes), NEW i \in 1 .. Len(s) + 1, NEW e, Advances(s, i, e), NEW f, NEW g,
           e.dag # Null /\ e.i <= Len(s) =>
             /\ Advances(s, e.i + 1, f[<<"expr_unary", e.i + 1>>])
             /\ f[<<"expr_unary", e.i + 1>>] = g[<<"expr_unary", e.i + 1>>]
    PROVE  /\ Advances(s, i, expr_multiplicative_(f, tokenize(s), e))
           /\ expr_multiplicative_(f, tokenize(s), e) = expr_multiplicative_(g, tokenize(s), e)
<1>1. e.i \in 1 .. Len(s) + 1
  <2>1. Len(s) \in Nat
    BY Tokens
  <2> QED  BY <2>1 DEF Advances
<1>2. {"*", "/"} \in SUBSET Operators
  BY DEF Operators
<1>3. match(tokenize(s), e.i, {"*", "/"}) => /\ e.i <= Len(s)
                                             /\ tokenize(s)[e.i].op \in {"+", "-", "*", "/"}
  <2>1. match(tokenize(s), e.i, {"*", "/"}) <=> e.i <= Len(s) /\ s[e.i] \in {"*", "/"}
    BY <1>1, <1>2, MatchIs
  <2>2. e.i <= Len(s) /\ s[e.i] \in {"*", "/"} => tokenize(s)[e.i].op = s[e.i]
    BY <1>1, <1>2, MatchIs
  <2> QED  BY <2>1, <2>2
<1>4. CASE e.dag # Null /\ match(tokenize(s), e.i, {"*", "/"})
  <2> DEFINE r == f[<<"expr_unary", e.i + 1>>]
             o == tokenize(s)[e.i].op
  <2>1. Advances(s, e.i + 1, r) /\ o \in {"+", "-", "*", "/"} /\ e.i <= Len(s)
    BY <1>3, <1>4
  <2>2. expr_multiplicative_(f, tokenize(s), e) =
          IF r.dag = Null THEN r ELSE [r EXCEPT !.dag = Bin(o, e.dag, @)]
    BY <1>4 DEF expr_multiplicative_
  <2> HIDE DEF r, o
  <2>3. /\ r.dag # Null => Advances(s, i, [r EXCEPT !.dag = Bin(o, e.dag, @)])
        /\ r.dag = Null => Advances(s, i, r)
    BY <1>4, <2>1, JoinAdvances
  <2>4. expr_multiplicative_(f, tokenize(s), e) = expr_multiplicative_(g, tokenize(s), e)
    <3>1. f[<<"expr_unary", e.i + 1>>] = g[<<"expr_unary", e.i + 1>>]
      BY <1>3, <1>4
    <3> QED  BY <3>1, Zenon DEF expr_multiplicative_
  <2> QED  BY <2>2, <2>3, <2>4
<1>5. CASE ~(e.dag # Null /\ match(tokenize(s), e.i, {"*", "/"}))
  <2>1. expr_multiplicative_(f, tokenize(s), e) = e /\ expr_multiplicative_(g, tokenize(s), e) = e
    BY <1>5, Zenon DEF expr_multiplicative_
  <2> QED  BY <2>1
<1> QED  BY <1>4, <1>5

\* A turn of expr_additive_() goes on from e.i.
LEMMA AddTurn ==
    ASSUME NEW s \in Seq(Lexemes), NEW i \in 1 .. Len(s) + 1, NEW e, Advances(s, i, e), NEW f, NEW g,
           e.dag # Null /\ e.i <= Len(s) =>
             /\ Advances(s, e.i + 1, f[<<"expr_multiplicative", e.i + 1>>])
             /\ f[<<"expr_multiplicative", e.i + 1>>] = g[<<"expr_multiplicative", e.i + 1>>]
    PROVE  /\ Advances(s, i, expr_additive_(f, tokenize(s), e))
           /\ expr_additive_(f, tokenize(s), e) = expr_additive_(g, tokenize(s), e)
<1>1. e.i \in 1 .. Len(s) + 1
  <2>1. Len(s) \in Nat
    BY Tokens
  <2> QED  BY <2>1 DEF Advances
<1>2. {"+", "-"} \in SUBSET Operators
  BY DEF Operators
<1>3. match(tokenize(s), e.i, {"+", "-"}) => /\ e.i <= Len(s)
                                             /\ tokenize(s)[e.i].op \in {"+", "-", "*", "/"}
  <2>1. match(tokenize(s), e.i, {"+", "-"}) <=> e.i <= Len(s) /\ s[e.i] \in {"+", "-"}
    BY <1>1, <1>2, MatchIs
  <2>2. e.i <= Len(s) /\ s[e.i] \in {"+", "-"} => tokenize(s)[e.i].op = s[e.i]
    BY <1>1, <1>2, MatchIs
  <2> QED  BY <2>1, <2>2
<1>4. CASE e.dag # Null /\ match(tokenize(s), e.i, {"+", "-"})
  <2> DEFINE r == f[<<"expr_multiplicative", e.i + 1>>]
             o == tokenize(s)[e.i].op
  <2>1. Advances(s, e.i + 1, r) /\ o \in {"+", "-", "*", "/"} /\ e.i <= Len(s)
    BY <1>3, <1>4
  <2>2. expr_additive_(f, tokenize(s), e) =
          IF r.dag = Null THEN [dag |-> Null, i |-> r.i, wild |-> TRUE]
          ELSE [r EXCEPT !.dag = Bin(o, e.dag, @)]
    BY <1>4 DEF expr_additive_
  <2> HIDE DEF r, o
  <2>3. /\ r.dag # Null => Advances(s, i, [r EXCEPT !.dag = Bin(o, e.dag, @)])
        /\ r.dag = Null => Advances(s, i, [dag |-> Null, i |-> r.i, wild |-> TRUE])
    BY <1>4, <2>1, JoinAdvances
  <2>4. expr_additive_(f, tokenize(s), e) = expr_additive_(g, tokenize(s), e)
    <3>1. f[<<"expr_multiplicative", e.i + 1>>] = g[<<"expr_multiplicative", e.i + 1>>]
      BY <1>3, <1>4
    <3> QED  BY <3>1, Zenon DEF expr_additive_
  <2> QED  BY <2>2, <2>3, <2>4
<1>5. CASE ~(e.dag # Null /\ match(tokenize(s), e.i, {"+", "-"}))
  <2>1. expr_additive_(f, tokenize(s), e) = e /\ expr_additive_(g, tokenize(s), e) = e
    BY <1>5, Zenon DEF expr_additive_
  <2> QED  BY <2>1
<1> QED  BY <1>4, <1>5
\* What a sign or a parenthesis before the operand e gives.
LEMMA SignAdvances ==
    ASSUME NEW s \in Seq(Lexemes), NEW i \in 1 .. Len(s) + 1, i <= Len(s),
           NEW e, Advances(s, i + 1, e)
    PROVE  /\ Advances(s, i, e)
           /\ Advances(s, i, [e EXCEPT !.dag = Null])
           /\ e.dag # Null => Advances(s, i, [e EXCEPT !.dag = Neg(@)])
           /\ e.dag # Null /\ e.i <= Len(s) => Advances(s, i, [e EXCEPT !.i = @ + 1])
<1>1. Len(s) \in Nat /\ i \in Nat /\ e.i \in Nat /\ i + 1 <= e.i /\ e.i <= Len(s) + 1
  BY Tokens DEF Advances
<1>2. e = [dag |-> e.dag, i |-> e.i, wild |-> e.wild]
  BY DEF Advances
<1>3. e.i \in i .. Len(s) + 1
  BY <1>1
<1>4. e.dag # Null => /\ e.i > i /\ e.i + 1 > i
                      /\ \A h \in Nat : e.i - (i + 1) - 1 <= h => e.dag \in Dags(Values(s), h)
  <2>1. i + 1 \in 1 .. Len(s) + 1
    BY <1>1
  <2>2. e.dag # Null => e.i > i + 1
    BY DEF Advances
  <2>3. e.dag # Null => e.i > i /\ e.i + 1 > i
    BY <1>1, <2>2
  <2> QED  BY <2>1, <2>3, FewLevels
<1>5. e.dag # Null => /\ e.i - i - 1 \in Nat /\ e.i - (i + 1) - 1 \in Nat
                      /\ (e.i + 1) - i - 1 \in Nat
                      /\ e.i - (i + 1) - 1 <= e.i - i - 1 /\ e.i - (i + 1) - 1 <= e.i - (i + 1) - 1
                      /\ e.i - (i + 1) - 1 <= (e.i + 1) - i - 1
                      /\ (e.i - (i + 1) - 1) + 1 = e.i - i - 1
  <2>1. e.dag # Null => e.i > i + 1
    BY DEF Advances
  <2>2. ASSUME NEW a \in Nat, NEW b \in Nat, b > a + 1
        PROVE  /\ b - a - 1 \in Nat /\ b - (a + 1) - 1 \in Nat /\ (b + 1) - a - 1 \in Nat
               /\ b - (a + 1) - 1 <= b - a - 1 /\ b - (a + 1) - 1 <= b - (a + 1) - 1
               /\ b - (a + 1) - 1 <= (b + 1) - a - 1
               /\ (b - (a + 1) - 1) + 1 = b - a - 1
    BY <2>2
  <2> QED  BY <1>1, <2>1, <2>2
<1>6. Advances(s, i, e)
  BY <1>2, <1>3, <1>4, <1>5 DEF Advances
<1>7. Advances(s, i, [e EXCEPT !.dag = Null])
  <2> DEFINE x == [e EXCEPT !.dag = Null]
  <2>1. x = [dag |-> Null, i |-> e.i, wild |-> e.wild]
    BY <1>2
  <2>2. x.dag = Null /\ x.i = e.i /\ x = [dag |-> x.dag, i |-> x.i, wild |-> x.wild]
    BY <2>1
  <2> HIDE DEF x
  <2>3. Advances(s, i, x)
    BY <2>2, <1>3 DEF Advances
  <2> QED  BY <2>3 DEF x
<1>8. ASSUME e.dag # Null PROVE Advances(s, i, [e EXCEPT !.dag = Neg(@)])
  <2> DEFINE x == [e EXCEPT !.dag = Neg(@)]
  <2>1. x = [dag |-> Neg(e.dag), i |-> e.i, wild |-> e.wild]
    BY <1>2
  <2>2. x.dag = Neg(e.dag) /\ x.i = e.i /\ x = [dag |-> x.dag, i |-> x.i, wild |-> x.wild]
    BY <2>1
  <2> HIDE DEF x
  <2>3. e.dag \in Dags(Values(s), e.i - (i + 1) - 1)
    BY <1>4, <1>5, <1>8
  <2>4. Neg(e.dag) \in Dags(Values(s), (e.i - (i + 1) - 1) + 1)
    BY <1>5, <1>8, <2>3, NodeFits
  <2>5. Advances(s, i, x)
    BY <2>2, <2>4, <1>3, <1>4, <1>5, <1>8 DEF Advances
  <2> QED  BY <2>5 DEF x
<1>9. ASSUME e.dag # Null, e.i <= Len(s) PROVE Advances(s, i, [e EXCEPT !.i = @ + 1])
  <2> DEFINE x == [e EXCEPT !.i = @ + 1]
  <2>1. x = [dag |-> e.dag, i |-> e.i + 1, wild |-> e.wild]
    BY <1>2
  <2>2. x.dag = e.dag /\ x.i = e.i + 1 /\ x = [dag |-> x.dag, i |-> x.i, wild |-> x.wild]
    BY <2>1
  <2> HIDE DEF x
  <2>3. e.i + 1 \in i .. Len(s) + 1
    BY <1>1, <1>9
  <2>4. Advances(s, i, x)
    BY <2>2, <2>3, <1>4, <1>5, <1>9 DEF Advances
  <2> QED  BY <2>4 DEF x
<1> QED  BY <1>6, <1>7, <1>8, <1>9

\* The calls of the parser, in the order in which they depend on each other.
Rank(c) == IF c[1] = "expr_unary" THEN 0 ELSE IF c[1] = "expr_multiplicative" THEN 1 ELSE 2
Before(x, c) == x[2] > c[2] \/ (x[2] = c[2] /\ Rank(x) < Rank(c))

\* What a call makes of the calls before it; that it ends behind its token makes the
\* calls that follow come before it as well.
LEMMA CallCongruence ==
    ASSUME NEW s \in Seq(Lexemes), NEW f, NEW g, NEW c \in Calls(tokenize(s)),
           \A x \in Calls(tokenize(s)) : Before(x, c) => f[x] = g[x] /\ Advances(s, x[2], f[x])
    PROVE  /\ call(f, tokenize(s), c) = call(g, tokenize(s), c)
           /\ Advances(s, c[2], call(f, tokenize(s), c))
<1> DEFINE ts == tokenize(s)
           i == c[2]
<1>1. /\ Len(ts) = Len(s) /\ Len(s) \in Nat /\ i \in 1 .. Len(s) + 1
      /\ c = <<c[1], i>> /\ c[1] \in {"expr_unary", "expr_multiplicative", "expr"}
  BY Tokens DEF Calls
<1> HIDE DEF ts, i
<1>2. ASSUME NEW k \in {"expr_unary", "expr_multiplicative", "expr"}, NEW j \in 1 .. Len(s) + 1,
             j > i \/ (j = i /\ Rank(<<k, j>>) < Rank(c))
      PROVE  f[<<k, j>>] = g[<<k, j>>] /\ Advances(s, j, f[<<k, j>>])
  <2>1. <<k, j>> \in Calls(ts) /\ Before(<<k, j>>, c)
    BY <1>1, <1>2 DEF Calls, Before, i
  <2> QED  BY <2>1 DEF ts
<1>3. CASE c[1] = "expr_unary"
  <2>1. call(f, ts, c) = expr_unary(f, ts, i) /\ call(g, ts, c) = expr_unary(g, ts, i)
    BY <1>3 DEF call, i
  <2>2. /\ {"+"} \in SUBSET Operators /\ {"-"} \in SUBSET Operators
        /\ {"("} \in SUBSET Operators /\ {")"} \in SUBSET Operators
    BY DEF Operators
  <2>3. /\ match(ts, i, {"+"}) => i <= Len(s)
        /\ match(ts, i, {"-"}) => i <= Len(s)
        /\ match(ts, i, {"("}) => i <= Len(s)
        /\ match(ts, i, {"val"}) => i <= Len(s) /\ ts[i].val \in Values(s)
    <3>1. match(ts, i, {"val"}) => i <= Len(s) /\ s[i] \in Numbers /\ ts[i].val = <<s[i], i>>
      BY <1>1, MatchIs DEF ts
    <3>2. match(ts, i, {"val"}) => ts[i].val \in Values(s)
      <4>1. i <= Len(s) => i \in DOMAIN s
        BY <1>1
      <4> QED  BY <3>1, <4>1 DEF Values
    <3> QED  BY <1>1, <2>2, <3>1, <3>2, MatchIs, Zenon DEF ts
  <2>4. ASSUME i <= Len(s)
        PROVE  /\ f[<<"expr_unary", i + 1>>] = g[<<"expr_unary", i + 1>>]
               /\ Advances(s, i + 1, f[<<"expr_unary", i + 1>>])
               /\ f[<<"expr", i + 1>>] = g[<<"expr", i + 1>>]
               /\ Advances(s, i + 1, f[<<"expr", i + 1>>])
    <3>1. i + 1 \in 1 .. Len(s) + 1 /\ i + 1 > i
      BY <1>1, <2>4
    <3> QED  BY <1>2, <3>1
  <2>5. ASSUME NEW e, Advances(s, i + 1, e), i <= Len(s)
        PROVE  /\ Advances(s, i, e)
               /\ Advances(s, i, [e EXCEPT !.dag = Null])
               /\ e.dag # Null => Advances(s, i, [e EXCEPT !.dag = Neg(@)])
               /\ e.dag # Null /\ e.i <= Len(s) => Advances(s, i, [e EXCEPT !.i = @ + 1])
    BY <1>1, <2>5, SignAdvances
  <2>6. expr_primary(f, ts, i) = expr_primary(g, ts, i) /\ Advances(s, i, expr_primary(f, ts, i))
    <3>1. CASE match(ts, i, {"val"})
      <4>1. /\ expr_primary(f, ts, i) = Parsed(Val(ts[i].val), i + 1)
            /\ expr_primary(g, ts, i) = Parsed(Val(ts[i].val), i + 1)
        BY <3>1 DEF expr_primary
      <4>2. Advances(s, i, Parsed(Val(ts[i].val), i + 1))
        <5>1. i <= Len(s) /\ ts[i].val \in Values(s)
          BY <2>3, <3>1
        <5>5. i \in Nat /\ Len(s) \in Nat
          BY <1>1
        <5>2. (i + 1) - i - 1 = 0 /\ i + 1 > i /\ i + 1 \in i .. Len(s) + 1
          BY <5>5, <5>1
        <5>3. Val(ts[i].val) \in Dags(Values(s), 0)
          BY <5>1, NodeFits
        <5> DEFINE v == Val(ts[i].val)
        <5> HIDE DEF v
        <5>4. Advances(s, i, [dag |-> v, i |-> i + 1, wild |-> FALSE])
          BY <5>2, <5>3 DEF Advances, v
        <5> QED  BY <5>4 DEF Parsed, v
      <4> QED  BY <4>1, <4>2
    <3>2. CASE ~match(ts, i, {"val"}) /\ match(ts, i, {"("})
      <4> DEFINE e == f[<<"expr", i + 1>>]
      <4>1. i <= Len(s) /\ e = g[<<"expr", i + 1>>] /\ Advances(s, i + 1, e)
        BY <2>3, <2>4, <3>2
      <4> DEFINE d == g[<<"expr", i + 1>>]
      <4>4. /\ expr_primary(f, ts, i) = IF e.dag # Null /\ match(ts, e.i, {")"})
                                        THEN [e EXCEPT !.i = @ + 1] ELSE [e EXCEPT !.dag = Null]
            /\ expr_primary(g, ts, i) = IF d.dag # Null /\ match(ts, d.i, {")"})
                                        THEN [d EXCEPT !.i = @ + 1] ELSE [d EXCEPT !.dag = Null]
        BY <3>2, Zenon DEF expr_primary
      <4>5. d = e
        BY <4>1
      <4> HIDE DEF e, d
      <4>2. e.i \in 1 .. Len(s) + 1
        BY <1>1, <4>1 DEF Advances
      <4>3. match(ts, e.i, {")"}) => e.i <= Len(s)
        BY <2>2, <4>2, MatchIs DEF ts
      <4>6. /\ Advances(s, i, [e EXCEPT !.dag = Null])
            /\ e.dag # Null /\ e.i <= Len(s) => Advances(s, i, [e EXCEPT !.i = @ + 1])
        BY <2>5, <4>1
      <4>7. CASE e.dag # Null /\ match(ts, e.i, {")"})
        BY <4>3, <4>4, <4>5, <4>6, <4>7
      <4>8. CASE ~(e.dag # Null /\ match(ts, e.i, {")"}))
        BY <4>4, <4>5, <4>6, <4>8, Zenon
      <4> QED  BY <4>7, <4>8
    <3>3. CASE ~match(ts, i, {"val"}) /\ ~match(ts, i, {"("})
      <4>1. expr_primary(f, ts, i) = Parsed(Null, i) /\ expr_primary(g, ts, i) = Parsed(Null, i)
        BY <3>3, Zenon DEF expr_primary
      <4>2. Advances(s, i, Parsed(Null, i))
        BY <1>1 DEF Advances, Parsed
      <4> QED  BY <4>1, <4>2
    <3> QED  BY <3>1, <3>2, <3>3
  <2>7. expr_unary(f, ts, i) = expr_unary(g, ts, i) /\ Advances(s, i, expr_unary(f, ts, i))
    <3> DEFINE e == f[<<"expr_unary", i + 1>>]
    <3>1. CASE match(ts, i, {"+"})
      <4>1. expr_unary(f, ts, i) = e /\ expr_unary(g, ts, i) = g[<<"expr_unary", i + 1>>]
        BY <3>1, Zenon DEF expr_unary
      <4>2. i <= Len(s) /\ e = g[<<"expr_unary", i + 1>>] /\ Advances(s, i + 1, e)
        BY <2>3, <2>4, <3>1
      <4> HIDE DEF e
      <4> QED  BY <2>5, <4>1, <4>2
    <3>2. CASE ~match(ts, i, {"+"}) /\ match(ts, i, {"-"})
      <4>1. i <= Len(s) /\ e = g[<<"expr_unary", i + 1>>] /\ Advances(s, i + 1, e)
        BY <2>3, <2>4, <3>2
      <4> DEFINE d == g[<<"expr_unary", i + 1>>]
      <4>2. /\ expr_unary(f, ts, i) = IF e.dag = Null THEN e ELSE [e EXCEPT !.dag = Neg(@)]
            /\ expr_unary(g, ts, i) = IF d.dag = Null THEN d ELSE [d EXCEPT !.dag = Neg(@)]
        BY <3>2, Zenon DEF expr_unary
      <4>3. d = e
        BY <4>1
      <4> HIDE DEF e, d
      <4>4. e.dag # Null => Advances(s, i, [e EXCEPT !.dag = Neg(@)])
        BY <2>5, <4>1
      <4>5. CASE e.dag = Null
        BY <2>5, <4>1, <4>2, <4>3, <4>5
      <4>6. CASE e.dag # Null
        BY <4>2, <4>3, <4>4, <4>6
      <4> QED  BY <4>5, <4>6
    <3>3. CASE ~match(ts, i, {"+"}) /\ ~match(ts, i, {"-"})
      <4>1. expr_unary(f, ts, i) = expr_primary(f, ts, i) /\ expr_unary(g, ts, i) = expr_primary(g, ts, i)
        BY <3>3, Zenon DEF expr_unary
      <4> QED  BY <2>6, <4>1
    <3> QED  BY <3>1, <3>2, <3>3
  <2> QED  BY <2>1, <2>7 DEF ts, i
<1>4. CASE c[1] = "expr_multiplicative"
  <2>8. /\ expr_multiplicative(f, ts, i) = MultTurns(f, ts, i)[Len(ts)]
        /\ MultTurns(f, ts, i)[0] = f[<<"expr_unary", i>>]
        /\ NextTurnMult(f, ts, i)
    BY MultTurnsIs
  <2>9. /\ expr_multiplicative(g, ts, i) = MultTurns(g, ts, i)[Len(ts)]
        /\ MultTurns(g, ts, i)[0] = g[<<"expr_unary", i>>]
        /\ NextTurnMult(g, ts, i)
    BY MultTurnsIs
  <2> DEFINE F == MultTurns(f, ts, i)
             G == MultTurns(g, ts, i)
             U == {n \in Nat : F[n] = G[n] /\ Advances(s, i, F[n])}
  <2>1. call(f, ts, c) = F[Len(s)] /\ call(g, ts, c) = G[Len(s)]
    <3>1. call(f, ts, c) = expr_multiplicative(f, ts, i) /\ call(g, ts, c) = expr_multiplicative(g, ts, i)
      BY <1>4 DEF call, i
    <3> QED  BY <1>1, <2>8, <2>9, <3>1 DEF F, G
  <2>2. 0 \in U
    <3>1. Rank(<<"expr_unary", i>>) < Rank(c)
      BY <1>4 DEF Rank
    <3>2. f[<<"expr_unary", i>>] = g[<<"expr_unary", i>>] /\ Advances(s, i, f[<<"expr_unary", i>>])
      BY <1>1, <1>2, <3>1
    <3>3. F[0] = f[<<"expr_unary", i>>] /\ G[0] = g[<<"expr_unary", i>>]
      BY <2>8, <2>9 DEF F, G
    <3> QED  BY <3>2, <3>3
  <2>3. ASSUME NEW n \in U PROVE n + 1 \in U
    <3>1. n \in Nat /\ F[n] = G[n] /\ Advances(s, i, F[n])
      OBVIOUS
    <3>2. F[n + 1] = expr_multiplicative_(f, ts, F[n]) /\ G[n + 1] = expr_multiplicative_(g, ts, G[n])
      BY <3>1, <2>8, <2>9 DEF NextTurnMult, F, G
    <3>3. F[n].i \in 1 .. Len(s) + 1 /\ (F[n].dag # Null => F[n].i > i)
      BY <1>1, <3>1 DEF Advances
    <3>4. ASSUME F[n].dag # Null, F[n].i <= Len(s)
          PROVE  /\ f[<<"expr_unary", F[n].i + 1>>] = g[<<"expr_unary", F[n].i + 1>>]
                 /\ Advances(s, F[n].i + 1, f[<<"expr_unary", F[n].i + 1>>])
      <4>1. F[n].i + 1 \in 1 .. Len(s) + 1 /\ F[n].i + 1 > i
        BY <1>1, <3>3, <3>4
      <4> QED  BY <1>2, <4>1
    <3>5. /\ Advances(s, i, expr_multiplicative_(f, ts, F[n]))
          /\ expr_multiplicative_(f, ts, F[n]) = expr_multiplicative_(g, ts, F[n])
      BY <1>1, <3>1, <3>4, MultTurn DEF ts
    <3> QED  BY <3>1, <3>2, <3>5
  <2>4. U = Nat
    <3>1. U \subseteq Nat
      OBVIOUS
    <3> HIDE DEF U
    <3> QED  BY <2>2, <2>3, <3>1, Induction
  <2>5. Len(s) \in U
    BY <1>1, <2>4
  <2> QED  BY <2>1, <2>5 DEF ts, i
<1>5. CASE c[1] = "expr"
  <2>8. /\ expr(f, ts, i) = AddTurns(f, ts, i)[Len(ts)]
        /\ AddTurns(f, ts, i)[0] = f[<<"expr_multiplicative", i>>]
        /\ NextTurnAdd(f, ts, i)
    BY AddTurnsIs
  <2>9. /\ expr(g, ts, i) = AddTurns(g, ts, i)[Len(ts)]
        /\ AddTurns(g, ts, i)[0] = g[<<"expr_multiplicative", i>>]
        /\ NextTurnAdd(g, ts, i)
    BY AddTurnsIs
  <2> DEFINE F == AddTurns(f, ts, i)
             G == AddTurns(g, ts, i)
             U == {n \in Nat : F[n] = G[n] /\ Advances(s, i, F[n])}
  <2>1. call(f, ts, c) = F[Len(s)] /\ call(g, ts, c) = G[Len(s)]
    <3>1. call(f, ts, c) = expr(f, ts, i) /\ call(g, ts, c) = expr(g, ts, i)
      BY <1>5 DEF call, i
    <3> QED  BY <1>1, <2>8, <2>9, <3>1 DEF F, G
  <2>2. 0 \in U
    <3>1. Rank(<<"expr_multiplicative", i>>) < Rank(c)
      BY <1>5 DEF Rank
    <3>2. f[<<"expr_multiplicative", i>>] = g[<<"expr_multiplicative", i>>] /\ Advances(s, i, f[<<"expr_multiplicative", i>>])
      BY <1>1, <1>2, <3>1
    <3>3. F[0] = f[<<"expr_multiplicative", i>>] /\ G[0] = g[<<"expr_multiplicative", i>>]
      BY <2>8, <2>9 DEF F, G
    <3> QED  BY <3>2, <3>3
  <2>3. ASSUME NEW n \in U PROVE n + 1 \in U
    <3>1. n \in Nat /\ F[n] = G[n] /\ Advances(s, i, F[n])
      OBVIOUS
    <3>2. F[n + 1] = expr_additive_(f, ts, F[n]) /\ G[n + 1] = expr_additive_(g, ts, G[n])
      BY <3>1, <2>8, <2>9 DEF NextTurnAdd, F, G
    <3>3. F[n].i \in 1 .. Len(s) + 1 /\ (F[n].dag # Null => F[n].i > i)
      BY <1>1, <3>1 DEF Advances
    <3>4. ASSUME F[n].dag # Null, F[n].i <= Len(s)
          PROVE  /\ f[<<"expr_multiplicative", F[n].i + 1>>] = g[<<"expr_multiplicative", F[n].i + 1>>]
                 /\ Advances(s, F[n].i + 1, f[<<"expr_multiplicative", F[n].i + 1>>])
      <4>1. F[n].i + 1 \in 1 .. Len(s) + 1 /\ F[n].i + 1 > i
        BY <1>1, <3>3, <3>4
      <4> QED  BY <1>2, <4>1
    <3>5. /\ Advances(s, i, expr_additive_(f, ts, F[n]))
          /\ expr_additive_(f, ts, F[n]) = expr_additive_(g, ts, F[n])
      BY <1>1, <3>1, <3>4, AddTurn DEF ts
    <3> QED  BY <3>1, <3>2, <3>5
  <2>4. U = Nat
    <3>1. U \subseteq Nat
      OBVIOUS
    <3> HIDE DEF U
    <3> QED  BY <2>2, <2>3, <3>1, Induction
  <2>5. Len(s) \in U
    BY <1>1, <2>4
  <2> QED  BY <2>1, <2>5 DEF ts, i
<1> QED  BY <1>1, <1>3, <1>4, <1>5

\* The order of the calls is well-founded.
LEMMA CallsWellFounded ==
    ASSUME NEW s \in Seq(Lexemes), NEW S \in SUBSET Calls(tokenize(s)), S # {}
    PROVE  \E x \in S : \A y \in S : ~Before(y, x)
<1> DEFINE M(c) == 3 * (Len(s) + 1 - c[2]) + Rank(c)
<1>1. ASSUME NEW c \in S PROVE c[2] \in 1 .. Len(s) + 1 /\ M(c) \in Nat /\ Rank(c) \in 0 .. 2
  <2>1. c \in Calls(tokenize(s)) /\ Len(tokenize(s)) = Len(s) /\ Len(s) \in Nat
    BY Tokens
  <2>2. c[2] \in 1 .. Len(s) + 1
    BY <2>1 DEF Calls
  <2>3. Rank(c) \in 0 .. 2
    BY DEF Rank
  <2> QED  BY <2>1, <2>2, <2>3
<1>2. PICK m \in {M(c) : c \in S} : \A y \in {M(c) : c \in S} : m <= y
  <2>1. {M(c) : c \in S} \in SUBSET Nat /\ {M(c) : c \in S} # {}
    BY <1>1
  <2> HIDE DEF M
  <2> QED  BY <2>1, Least
<1>3. PICK x \in S : m = M(x)
  BY <1>2
<1>4. ASSUME NEW y \in S, Before(y, x) PROVE FALSE
  <2>1. M(x) <= M(y)
    BY <1>2, <1>3
  <2>2. /\ x[2] \in 1 .. Len(s) + 1 /\ Rank(x) \in 0 .. 2
        /\ y[2] \in 1 .. Len(s) + 1 /\ Rank(y) \in 0 .. 2 /\ Len(s) \in Nat
    BY <1>1, Tokens
  <2>3. \A a, b, n \in Nat, p, q \in 0 .. 2 :
          3 * (n + 1 - a) + p <= 3 * (n + 1 - b) + q => ~(b > a \/ (b = a /\ q < p))
    OBVIOUS
  <2>4. x[2] \in Nat /\ y[2] \in Nat
    BY <2>2
  <2> QED  BY <1>4, <2>1, <2>2, <2>3, <2>4 DEF Before
<1> QED  BY <1>4

\* The parser satisfies its equations, and every call ends behind its token.
LEMMA ParseIs ==
    ASSUME NEW s \in Seq(Lexemes), NEW c \in Calls(tokenize(s))
    PROVE  /\ parse(tokenize(s))[c] = call(parse(tokenize(s)), tokenize(s), c)
           /\ Advances(s, c[2], parse(tokenize(s))[c])
<1> DEFINE ts == tokenize(s)
           C == Calls(ts)
           R == {p \in C \X C : Before(p[1], p[2])}
           Below(g, x) == [y \in C |-> IF Before(y, x) THEN g[y] ELSE 0]
           Def(g, x) == call(Below(g, x), ts, x)
           G == CHOOSE g : g = [x \in C |-> Def(g, x)]
<1>1. IsWellFoundedOn(R, C)
  <2>1. ASSUME NEW S \in SUBSET C, S # {}
        PROVE  \E x \in S : \A y \in S : ~(<<y, x>> \in R)
    <3>1. PICK x \in S : \A y \in S : ~Before(y, x)
      BY <2>1, CallsWellFounded
    <3> QED  BY <3>1
  <2> HIDE DEF R, C
  <2> QED  BY <2>1, MinWF
<1>2. G = [x \in C |-> Def(G, x)]
  <2>1. WFDefOn(R, C, Def)
    <3>1. ASSUME NEW g, NEW h, NEW x \in C, \A y \in SetLessThan(x, R, C) : g[y] = h[y]
          PROVE  Def(g, x) = Def(h, x)
      <4>1. \A y \in C : Before(y, x) => y \in SetLessThan(x, R, C)
        BY DEF SetLessThan
      <4>2. Below(g, x) = Below(h, x)
        BY <3>1, <4>1
      <4> HIDE DEF Below, C
      <4> QED  BY <4>2
    <3> HIDE DEF Def, R, C
    <3> QED  BY <3>1 DEF WFDefOn
  <2>2. OpDefinesFcn(G, C, Def)
    BY Zenon DEF OpDefinesFcn
  <2> HIDE DEF Def, R, C, G
  <2>3. WFInductiveDefines(G, C, Def)
    BY <1>1, <2>1, <2>2, WFInductiveDef
  <2> QED  BY <2>3 DEF WFInductiveDefines
<1>3. ASSUME NEW x \in C, \A y \in C : Before(y, x) => Advances(s, y[2], G[y])
      PROVE  G[x] = call(G, ts, x) /\ Advances(s, x[2], G[x])
  <2> DEFINE B == Below(G, x)
  <2>1. G[x] = call(B, ts, x)
    <3> HIDE DEF Def, C, G
    <3>1. G[x] = Def(G, x)
      BY <1>2
    <3> QED  BY <3>1 DEF Def
  <2>2. \A y \in C : Before(y, x) => B[y] = G[y] /\ Advances(s, y[2], B[y])
    <3> HIDE DEF C, G
    <3> QED  BY <1>3
  <2> HIDE DEF B, G
  <2>3. call(B, ts, x) = call(G, ts, x) /\ Advances(s, x[2], call(B, ts, x))
    BY <2>2, CallCongruence
  <2> QED  BY <2>1, <2>3
<1>4. ASSUME NEW P, \A x \in C : P[x] = call(P, ts, x)
      PROVE  \A x \in C : Advances(s, x[2], P[x])
  <2> SUFFICES ASSUME {x \in C : ~Advances(s, x[2], P[x])} # {} PROVE FALSE
    OBVIOUS
  <2> DEFINE S == {x \in C : ~Advances(s, x[2], P[x])}
  <2>1. PICK x \in S : \A y \in S : ~Before(y, x)
    <3>1. S \in SUBSET C
      OBVIOUS
    <3> HIDE DEF S
    <3> QED  BY <3>1, CallsWellFounded DEF S
  <2>2. x \in C /\ \A y \in C : Before(y, x) => P[y] = P[y] /\ Advances(s, y[2], P[y])
    BY <2>1
  <2>3. Advances(s, x[2], call(P, ts, x))
    BY <2>2, CallCongruence
  <2> QED  BY <1>4, <2>1, <2>2, <2>3
<1>5. \A x \in C : G[x] = call(G, ts, x)
  <2> SUFFICES ASSUME {x \in C : ~Advances(s, x[2], G[x])} # {} PROVE FALSE
    BY <1>3
  <2> DEFINE S == {x \in C : ~Advances(s, x[2], G[x])}
  <2> HIDE DEF G
  <2>1. PICK x \in S : \A y \in S : ~Before(y, x)
    <3>1. S \in SUBSET C
      OBVIOUS
    <3> HIDE DEF S
    <3> QED  BY <3>1, CallsWellFounded DEF S
  <2>2. x \in C /\ \A y \in C : Before(y, x) => Advances(s, y[2], G[y])
    BY <2>1
  <2> QED  BY <1>3, <2>1, <2>2
<1>6. G = [x \in C |-> call(G, ts, x)]
  <2> HIDE DEF Def, C
  <2>1. G = [x \in C |-> G[x]]
    <3> HIDE DEF G
    <3> QED  BY <1>2
  <2> HIDE DEF G
  <2> QED  BY <1>5, <2>1
<1>7. parse(ts) = [x \in C |-> call(parse(ts), ts, x)]
  <2> HIDE DEF G
  <2>1. parse(ts) = CHOOSE g : g = [x \in C |-> call(g, ts, x)]
    BY DEF parse
  <2>2. \E g : g = [x \in C |-> call(g, ts, x)]
    BY <1>6
  <2> QED  BY <2>1, <2>2, Zenon
<1>8. \A x \in C : parse(ts)[x] = call(parse(ts), ts, x)
  <2> HIDE DEF C, ts
  <2> QED  BY <1>7
<1> QED  BY <1>4, <1>8
-----------------------------------------------------------------------------
\* The operator at which lexemes are divided has lexemes on both sides.
LEMMA SplitAt ==
    ASSUME NEW s, NEW a \in Nat, NEW b \in Nat, NEW ops, Splits(s, a, b, ops) # {}
    PROVE  LET at == Splits(s, a, b, ops)
           IN  /\ Max(at) \in at /\ Max(at) \in a + 1 .. b
               /\ \A k \in at : k <= Max(at)
<1> DEFINE at == Splits(s, a, b, ops)
<1>1. at \subseteq a + 1 .. b
  BY DEF Splits
<1>2. at \in SUBSET (0 .. b)
  <2> HIDE DEF at
  <2>1. ASSUME NEW k \in at PROVE k \in 0 .. b
    <3>1. k \in a + 1 .. b
      BY <1>1
    <3> QED  BY <3>1
  <2> QED  BY <2>1
<1> HIDE DEF at
<1>3. at # {}
  BY DEF at
<1>4. Max(at) \in at /\ \A y \in at : y <= Max(at)
  BY <1>2, <1>3, MaxIs
<1> QED  BY <1>1, <1>4 DEF at

\* What the lexemes from a to b are at level l.
Part(s, l, a, b) == Denotes(s)[<<l, a, b>>]

\* How large the part is, for its recursive calls.
Size(s, p) == 3 * (p[3] - p[2] + Len(s) + 2) + p[1]

\* What a part denotes is made of what smaller parts denote.
LEMMA PartCongruence ==
    ASSUME NEW s \in Seq(Lexemes), NEW f, NEW g, NEW l \in 0 .. 2,
           NEW a \in 1 .. Len(s) + 1, NEW b \in 0 .. Len(s),
           \A x \in Parts(s) : Size(s, x) < Size(s, <<l, a, b>>) => f[x] = g[x]
    PROVE  /\ l = 0 => Operand(f, s, a, b) = Operand(g, s, a, b)
           /\ l # 0 => Joined(f, s, l, a, b) = Joined(g, s, l, a, b)
<1>1. Len(s) \in Nat /\ a \in Nat /\ b \in Nat /\ l \in Nat
  BY Tokens
<1>2. ASSUME NEW k \in 0 .. 2, NEW c \in 1 .. Len(s) + 1, NEW d \in 0 .. Len(s),
             d - c < b - a \/ (d - c = b - a /\ k < l)
      PROVE  f[<<k, c, d>>] = g[<<k, c, d>>]
  <2>1. <<k, c, d>> \in Parts(s)
    BY DEF Parts
  <2>2. Size(s, <<k, c, d>>) < Size(s, <<l, a, b>>)
    BY <1>1, <1>2 DEF Size
  <2> QED  BY <2>1, <2>2
<1>3. CASE l = 0
  <2>1. ASSUME a <= b PROVE f[<<0, a + 1, b>>] = g[<<0, a + 1, b>>]
    <3>1. a + 1 \in 1 .. Len(s) + 1 /\ b - (a + 1) < b - a /\ 0 \in 0 .. 2
      BY <1>1, <2>1
    <3> QED  BY <1>2, <3>1
  <2>2. ASSUME a <= b PROVE f[<<2, a + 1, b - 1>>] = g[<<2, a + 1, b - 1>>]
    <3>1. b - 1 \in 0 .. Len(s) /\ a + 1 \in 1 .. Len(s) + 1 /\ (b - 1) - (a + 1) < b - a
      BY <1>1, <2>2
    <3> QED  BY <1>2, <3>1
  <2>3. CASE a > b
    <3>1. Operand(f, s, a, b) = Null /\ Operand(g, s, a, b) = Null
      BY <2>3 DEF Operand
    <3> QED  BY <1>3, <3>1
  <2>4. CASE a <= b
    <3>1. Operand(f, s, a, b) = Operand(g, s, a, b)
      BY <2>1, <2>2, <2>4, Zenon DEF Operand
    <3> QED  BY <1>3, <3>1
  <2> QED  BY <1>1, <2>3, <2>4
<1>4. CASE l # 0
  <2> DEFINE at == Splits(s, a, b, Joining[l])
  <2>1. CASE at = {}
    <3>1. f[<<l - 1, a, b>>] = g[<<l - 1, a, b>>]
      <4>1. l - 1 \in 0 .. 2 /\ l - 1 < l /\ b - a = b - a
        BY <1>1, <1>4
      <4> QED  BY <1>2, <4>1
    <3>2. Joined(f, s, l, a, b) = f[<<l - 1, a, b>>] /\ Joined(g, s, l, a, b) = g[<<l - 1, a, b>>]
      BY <2>1, Zenon DEF Joined
    <3> QED  BY <1>4, <3>1, <3>2
  <2>2. CASE at # {}
    <3> DEFINE m == Max(at)
    <3>1. m \in a + 1 .. b
      BY <1>1, <2>2, SplitAt
    <3>2. /\ Joined(f, s, l, a, b) = Join(s[m], f[<<l, a, m - 1>>], f[<<l - 1, m + 1, b>>])
          /\ Joined(g, s, l, a, b) = Join(s[m], g[<<l, a, m - 1>>], g[<<l - 1, m + 1, b>>])
      BY <2>2, Zenon DEF Joined
    <3> HIDE DEF m, at
    <3>3. /\ m - 1 \in 0 .. Len(s) /\ m + 1 \in 1 .. Len(s) + 1 /\ l - 1 \in 0 .. 2
          /\ (m - 1) - a < b - a /\ b - (m + 1) < b - a
      BY <1>1, <1>4, <3>1
    <3>4. f[<<l, a, m - 1>>] = g[<<l, a, m - 1>>] /\ f[<<l - 1, m + 1, b>>] = g[<<l - 1, m + 1, b>>]
      BY <1>2, <3>3
    <3> QED  BY <1>4, <3>2, <3>4
  <2> QED  BY <2>1, <2>2
<1> QED  BY <1>3, <1>4

\* The meaning of the parts satisfies its equations.
LEMMA PartIs ==
    ASSUME NEW s \in Seq(Lexemes), NEW a \in 1 .. Len(s) + 1, NEW b \in 0 .. Len(s)
    PROVE  /\ Part(s, 0, a, b) = Operand(Denotes(s), s, a, b)
           /\ \A l \in 1 .. 2 : Part(s, l, a, b) = Joined(Denotes(s), s, l, a, b)
<1> DEFINE C == Parts(s)
           R == {p \in C \X C : Size(s, p[1]) < Size(s, p[2])}
           Def(g, p) == IF p[1] = 0 THEN Operand(g, s, p[2], p[3])
                        ELSE Joined(g, s, p[1], p[2], p[3])
           G == CHOOSE g : g = [p \in C |-> Def(g, p)]
<1>1. Denotes(s) = G
  BY DEF Denotes
<1>2. \A p \in C : Size(s, p) \in Nat
  <2> SUFFICES ASSUME NEW p \in C PROVE Size(s, p) \in Nat
    OBVIOUS
  <2>1. PICK k \in 0 .. 2, c \in 1 .. Len(s) + 1, d \in 0 .. Len(s) : p = <<k, c, d>>
    BY DEF Parts
  <2>2. Len(s) \in Nat /\ p[1] = k /\ p[2] = c /\ p[3] = d
    BY <2>1, Tokens
  <2>3. 3 * (d - c + Len(s) + 2) + k \in Nat
    BY <2>2
  <2> QED  BY <2>2, <2>3 DEF Size
<1>3. IsWellFoundedOn(R, C)
  <2>1. ASSUME NEW S \in SUBSET C, S # {}
        PROVE  \E x \in S : \A y \in S : ~(<<y, x>> \in R)
    <3> DEFINE N == {Size(s, x) : x \in S}
    <3>1. N \in SUBSET Nat /\ N # {}
      BY <1>2, <2>1
    <3>2. PICK n \in N : \A k \in N : n <= k
      <4> HIDE DEF N
      <4> QED  BY <3>1, Least
    <3>3. PICK x \in S : n = Size(s, x)
      BY <3>2
    <3>4. ASSUME NEW y \in S PROVE ~(Size(s, y) < Size(s, x))
      <4>1. Size(s, x) <= Size(s, y) /\ Size(s, x) \in Nat /\ Size(s, y) \in Nat
        BY <1>2, <3>2, <3>3
      <4> QED  BY <4>1
    <3> QED  BY <3>4
  <2> HIDE DEF R, C
  <2> QED  BY <2>1, MinWF
<1>4. WFDefOn(R, C, Def)
  <2>1. ASSUME NEW g, NEW h, NEW x \in C, \A y \in SetLessThan(x, R, C) : g[y] = h[y]
        PROVE  Def(g, x) = Def(h, x)
    <3>1. \A y \in C : Size(s, y) < Size(s, x) => g[y] = h[y]
      BY <2>1 DEF SetLessThan
    <3>2. PICK k \in 0 .. 2, c \in 1 .. Len(s) + 1, d \in 0 .. Len(s) : x = <<k, c, d>>
      BY DEF Parts
    <3>3. /\ k = 0 => Operand(g, s, c, d) = Operand(h, s, c, d)
          /\ k # 0 => Joined(g, s, k, c, d) = Joined(h, s, k, c, d)
      <4> HIDE DEF R, C, Def
      <4>1. \A y \in Parts(s) : Size(s, y) < Size(s, <<k, c, d>>) => g[y] = h[y]
        BY <3>1, <3>2 DEF C
      <4> QED  BY <4>1, PartCongruence
    <3>4. x[1] = k /\ x[2] = c /\ x[3] = d
      BY <3>2
    <3> QED  BY <3>3, <3>4
  <2> HIDE DEF Def, R, C
  <2> QED  BY <2>1 DEF WFDefOn
<1>5. G = [p \in C |-> Def(G, p)]
  <2>1. OpDefinesFcn(G, C, Def)
    BY Zenon DEF OpDefinesFcn
  <2> HIDE DEF Def, R, C, G
  <2>2. WFInductiveDefines(G, C, Def)
    BY <1>3, <1>4, <2>1, WFInductiveDef
  <2> QED  BY <2>2 DEF WFInductiveDefines
<1> HIDE DEF G
<1>6. \A p \in C : G[p] = Def(G, p)
  <2> HIDE DEF Def, C
  <2> QED  BY <1>5
<1>7. ASSUME NEW l \in 0 .. 2 PROVE Part(s, l, a, b) = Def(G, <<l, a, b>>)
  <2>1. <<l, a, b>> \in C
    BY DEF Parts
  <2> HIDE DEF Def, C
  <2> QED  BY <1>1, <1>6, <2>1 DEF Part
<1>8. Part(s, 0, a, b) = Operand(G, s, a, b)
  BY <1>7
<1>9. ASSUME NEW l \in 1 .. 2 PROVE Part(s, l, a, b) = Joined(G, s, l, a, b)
  <2>1. l \in 0 .. 2 /\ l # 0
    OBVIOUS
  <2> QED  BY <1>7, <2>1
<1> QED  BY <1>1, <1>8, <1>9

\* Induction over the parts of an argument.
LEMMA PartInduction ==
    ASSUME NEW s \in Seq(Lexemes), NEW S \in SUBSET Parts(s),
           \A p \in Parts(s) : (\A q \in Parts(s) : Size(s, q) < Size(s, p) => q \in S) => p \in S
    PROVE  S = Parts(s)
<1> SUFFICES ASSUME Parts(s) \ S # {} PROVE FALSE
  OBVIOUS
<1>1. \A p \in Parts(s) : Size(s, p) \in Nat
  <2> SUFFICES ASSUME NEW p \in Parts(s) PROVE Size(s, p) \in Nat
    OBVIOUS
  <2>1. PICK k \in 0 .. 2, c \in 1 .. Len(s) + 1, d \in 0 .. Len(s) : p = <<k, c, d>>
    BY DEF Parts
  <2>2. Len(s) \in Nat /\ p[1] = k /\ p[2] = c /\ p[3] = d
    BY <2>1, Tokens
  <2>3. 3 * (d - c + Len(s) + 2) + k \in Nat
    BY <2>2
  <2> QED  BY <2>2, <2>3 DEF Size
<1> DEFINE N == {Size(s, p) : p \in Parts(s) \ S}
<1>2. N \in SUBSET Nat /\ N # {}
  BY <1>1
<1>3. PICK n \in N : \A k \in N : n <= k
  <2> HIDE DEF N
  <2> QED  BY <1>2, Least
<1>4. PICK p \in Parts(s) \ S : n = Size(s, p)
  BY <1>3
<1>5. ASSUME NEW q \in Parts(s), Size(s, q) < Size(s, p) PROVE q \in S
  <2>1. Size(s, p) \in Nat /\ Size(s, q) \in Nat
    BY <1>1
  <2>2. ~(Size(s, p) <= Size(s, q))
    BY <1>5, <2>1
  <2> QED  BY <1>3, <1>4, <2>2
<1> QED  BY <1>4, <1>5

\* The parts that a part is made of are smaller.
LEMMA SmallerParts ==
    ASSUME NEW s \in Seq(Lexemes), NEW l \in 0 .. 2,
           NEW a \in 1 .. Len(s) + 1, NEW b \in 0 .. Len(s)
    PROVE  \A k \in 0 .. 2, c \in 1 .. Len(s) + 1, d \in 0 .. Len(s) :
             d - c < b - a \/ (d - c = b - a /\ k < l) =>
               <<k, c, d>> \in Parts(s) /\ Size(s, <<k, c, d>>) < Size(s, <<l, a, b>>)
<1> TAKE k \in 0 .. 2, c \in 1 .. Len(s) + 1, d \in 0 .. Len(s)
<1>1. HAVE d - c < b - a \/ (d - c = b - a /\ k < l)
<1>2. Len(s) \in Nat
  BY Tokens
<1>3. Size(s, <<k, c, d>>) < Size(s, <<l, a, b>>)
  BY <1>1, <1>2 DEF Size
<1> QED  BY <1>3 DEF Parts

-----------------------------------------------------------------------------
Run(s) == parse(tokenize(s))

\* A loop stays where it has found no operator.
LEMMA MultStays ==
    ASSUME NEW run, NEW ts, Len(ts) \in Nat, NEW i, NEW n \in 0 .. Len(ts),
           NEW e, e = MultTurns(run, ts, i)[n], ~match(ts, e.i, {"*", "/"})
    PROVE  expr_multiplicative(run, ts, i) = e
<1> DEFINE T == MultTurns(run, ts, i)
           U == {m \in Nat : T[n + m] = e}
<1>1. /\ expr_multiplicative(run, ts, i) = MultTurns(run, ts, i)[Len(ts)]
      /\ NextTurnMult(run, ts, i)
  BY MultTurnsIs
<1>2. 0 \in U
  OBVIOUS
<1>3. ASSUME NEW m \in U PROVE m + 1 \in U
  <2>1. m \in Nat /\ n + m \in Nat /\ T[n + m] = e
    OBVIOUS
  <2>2. T[(n + m) + 1] = expr_multiplicative_(run, ts, T[n + m])
    BY <1>1, <2>1 DEF NextTurnMult
  <2>3. expr_multiplicative_(run, ts, e) = e
    BY Zenon DEF expr_multiplicative_
  <2>4. (n + m) + 1 = n + (m + 1)
    BY <2>1
  <2> QED  BY <2>1, <2>2, <2>3, <2>4
<1>4. U = Nat
  <2>1. U \subseteq Nat
    OBVIOUS
  <2> HIDE DEF U
  <2> QED  BY <1>2, <1>3, <2>1, Induction
<1>5. Len(ts) - n \in Nat /\ n + (Len(ts) - n) = Len(ts)
  OBVIOUS
<1>6. PICK d \in Nat : n + d = Len(ts)
  BY <1>5
<1>7. d \in U
  BY <1>4
<1>8. T[Len(ts)] = e
  <2>1. T[n + d] = e
    BY <1>7
  <2> HIDE DEF T
  <2> QED  BY <1>6, <2>1, Zenon
<1> QED  BY <1>1, <1>8

\* The same for expr_additive_().
LEMMA AddStays ==
    ASSUME NEW run, NEW ts, Len(ts) \in Nat, NEW i, NEW n \in 0 .. Len(ts),
           NEW e, e = AddTurns(run, ts, i)[n], ~match(ts, e.i, {"+", "-"})
    PROVE  expr(run, ts, i) = e
<1> DEFINE T == AddTurns(run, ts, i)
           U == {m \in Nat : T[n + m] = e}
<1>1. /\ expr(run, ts, i) = AddTurns(run, ts, i)[Len(ts)]
      /\ NextTurnAdd(run, ts, i)
  BY AddTurnsIs
<1>2. 0 \in U
  OBVIOUS
<1>3. ASSUME NEW m \in U PROVE m + 1 \in U
  <2>1. m \in Nat /\ n + m \in Nat /\ T[n + m] = e
    OBVIOUS
  <2>2. T[(n + m) + 1] = expr_additive_(run, ts, T[n + m])
    BY <1>1, <2>1 DEF NextTurnAdd
  <2>3. expr_additive_(run, ts, e) = e
    BY Zenon DEF expr_additive_
  <2>4. (n + m) + 1 = n + (m + 1)
    BY <2>1
  <2> QED  BY <2>1, <2>2, <2>3, <2>4
<1>4. U = Nat
  <2>1. U \subseteq Nat
    OBVIOUS
  <2> HIDE DEF U
  <2> QED  BY <1>2, <1>3, <2>1, Induction
<1>5. Len(ts) - n \in Nat /\ n + (Len(ts) - n) = Len(ts)
  OBVIOUS
<1>6. PICK d \in Nat : n + d = Len(ts)
  BY <1>5
<1>7. d \in U
  BY <1>4
<1>8. T[Len(ts)] = e
  <2>1. T[n + d] = e
    BY <1>7
  <2> HIDE DEF T
  <2> QED  BY <1>6, <2>1, Zenon
<1> QED  BY <1>1, <1>8

\* The equations of the parser, call by call.
LEMMA RunIs ==
    ASSUME NEW s \in Seq(Lexemes), NEW i \in 1 .. Len(s) + 1
    PROVE  /\ Run(s)[<<"expr_unary", i>>] = expr_unary(Run(s), tokenize(s), i)
           /\ Run(s)[<<"expr_multiplicative", i>>] = expr_multiplicative(Run(s), tokenize(s), i)
           /\ Run(s)[<<"expr", i>>] = expr(Run(s), tokenize(s), i)
           /\ \A k \in {"expr_unary", "expr_multiplicative", "expr"} :
                Advances(s, i, Run(s)[<<k, i>>])
<1>1. ASSUME NEW k \in {"expr_unary", "expr_multiplicative", "expr"}
      PROVE  /\ Run(s)[<<k, i>>] = call(Run(s), tokenize(s), <<k, i>>)
             /\ Advances(s, i, Run(s)[<<k, i>>])
  <2>1. <<k, i>> \in Calls(tokenize(s))
    BY Tokens DEF Calls
  <2> QED  BY <2>1, ParseIs DEF Run
<1>2. /\ call(Run(s), tokenize(s), <<"expr_unary", i>>) = expr_unary(Run(s), tokenize(s), i)
      /\ call(Run(s), tokenize(s), <<"expr_multiplicative", i>>) =
           expr_multiplicative(Run(s), tokenize(s), i)
      /\ call(Run(s), tokenize(s), <<"expr", i>>) = expr(Run(s), tokenize(s), i)
  BY DEF call
<1> QED  BY <1>1, <1>2
-----------------------------------------------------------------------------
\* A part that denotes something has lexemes, and all of them can be read.
LEMMA PartsAreReadable ==
    ASSUME NEW s \in Seq(Lexemes)
    PROVE  \A l \in 0 .. 2, a \in 1 .. Len(s) + 1, b \in 0 .. Len(s) :
             Part(s, l, a, b) # Null => a <= b /\ \A i \in a .. b : s[i] # "junk"
<1> DEFINE Fine(l, a, b) == Part(s, l, a, b) # Null => a <= b /\ \A i \in a .. b : s[i] # "junk"
           S == {p \in Parts(s) : Fine(p[1], p[2], p[3])}
<1>1. Len(s) \in Nat /\ \A i \in 1 .. Len(s) : s[i] \in Lexemes
  BY Tokens
<1>2. ASSUME NEW l \in 0 .. 2, NEW a \in 1 .. Len(s) + 1, NEW b \in 0 .. Len(s),
             \A q \in Parts(s) : Size(s, q) < Size(s, <<l, a, b>>) => q \in S
      PROVE  Fine(l, a, b)
  <2>1. ASSUME NEW k \in 0 .. 2, NEW c \in 1 .. Len(s) + 1, NEW d \in 0 .. Len(s),
               d - c < b - a \/ (d - c = b - a /\ k < l)
        PROVE  Fine(k, c, d)
    <3>1. <<k, c, d>> \in S
      BY <1>2, <2>1, SmallerParts
    <3> HIDE DEF Fine
    <3> QED  BY <3>1
  <2>2. a \in Nat /\ b \in Nat
    BY <1>1
  <2> SUFFICES ASSUME Part(s, l, a, b) # Null
               PROVE  a <= b /\ \A i \in a .. b : s[i] # "junk"
    OBVIOUS
  <2>3. CASE l = 0
    <3>1. Operand(Denotes(s), s, a, b) # Null
      BY <2>3, PartIs
    <3>2. a <= b
      BY <2>2, <3>1 DEF Operand
    <3>3. a + 1 \in 1 .. Len(s) + 1 /\ b - 1 \in 0 .. Len(s) /\ b - (a + 1) < b - a
          /\ (b - 1) - (a + 1) < b - a
      BY <1>1, <2>2, <3>2
    <3>4. CASE a = b /\ s[a] \in Numbers
      BY <2>2, <3>4 DEF Numbers
    <3>5. CASE s[a] \in {"+", "-"} /\ ~(a = b /\ s[a] \in Numbers)
      <4>1. Part(s, 0, a + 1, b) # Null
        BY <3>1, <3>2, <2>2, <3>5 DEF Operand, Part
      <4>2. \A i \in a + 1 .. b : s[i] # "junk"
        BY <2>1, <3>3, <4>1
      <4>3. \A i \in a .. b : i = a \/ i \in a + 1 .. b
        BY <2>2
      <4> QED  BY <3>2, <3>5, <4>2, <4>3
    <3>6. CASE s[a] = "(" /\ s[b] = ")"
      <4>1. Part(s, 2, a + 1, b - 1) # Null
        BY <3>1, <3>2, <2>2, <3>6 DEF Operand, Part, Numbers
      <4>2. \A i \in a + 1 .. b - 1 : s[i] # "junk"
        BY <2>1, <3>3, <4>1
      <4>3. \A i \in a .. b : i = a \/ i = b \/ i \in a + 1 .. b - 1
        BY <2>2
      <4> QED  BY <3>2, <3>6, <4>2, <4>3
    <3> QED  BY <2>2, <3>1, <3>2, <3>4, <3>5, <3>6 DEF Operand
  <2>4. CASE l \in 1 .. 2
    <3> DEFINE at == Splits(s, a, b, Joining[l])
               m == Max(at)
    <3>1. Joined(Denotes(s), s, l, a, b) # Null
      BY <2>4, PartIs
    <3>2. CASE at = {}
      <4>1. Part(s, l - 1, a, b) # Null
        BY <3>1, <3>2, Zenon DEF Joined, Part
      <4>2. l - 1 \in 0 .. 2 /\ l - 1 < l /\ b - a = b - a
        BY <2>2, <2>4
      <4> QED  BY <2>1, <4>1, <4>2
    <3>3. CASE at # {}
      <4>1. m \in a + 1 .. b /\ m \in at
        BY <2>2, <3>3, SplitAt
      <4>2. Joined(Denotes(s), s, l, a, b) = Join(s[m], Part(s, l, a, m - 1), Part(s, l - 1, m + 1, b))
        BY <3>3, Zenon DEF Joined, Part
      <4>3. Part(s, l, a, m - 1) # Null /\ Part(s, l - 1, m + 1, b) # Null
        BY <3>1, <4>2, Zenon DEF Join
      <4>4. s[m] # "junk"
        BY <2>4, <4>1 DEF Splits, Joining
      <4> HIDE DEF m, at
      <4>5. /\ m - 1 \in 0 .. Len(s) /\ m + 1 \in 1 .. Len(s) + 1 /\ l - 1 \in 0 .. 2
            /\ (m - 1) - a < b - a /\ b - (m + 1) < b - a
        BY <1>1, <2>2, <2>4, <4>1
      <4>6. (\A i \in a .. m - 1 : s[i] # "junk") /\ (\A i \in m + 1 .. b : s[i] # "junk")
        BY <2>1, <4>3, <4>5
      <4>7. a <= b /\ \A i \in a .. b : i = m \/ i \in a .. m - 1 \/ i \in m + 1 .. b
        BY <2>2, <4>1
      <4> QED  BY <4>4, <4>6, <4>7
    <3> QED  BY <3>2, <3>3
  <2> QED  BY <2>3, <2>4
<1>3. ASSUME NEW p \in Parts(s), \A q \in Parts(s) : Size(s, q) < Size(s, p) => q \in S
      PROVE  p \in S
  <2>1. PICK l \in 0 .. 2, a \in 1 .. Len(s) + 1, b \in 0 .. Len(s) : p = <<l, a, b>>
    BY DEF Parts
  <2>2. p[1] = l /\ p[2] = a /\ p[3] = b
    BY <2>1
  <2>3. Fine(l, a, b)
    <3> HIDE DEF Fine, S
    <3> QED  BY <1>2, <1>3, <2>1
  <2> HIDE DEF Fine
  <2> QED  BY <2>2, <2>3
<1>4. S = Parts(s)
  <2>1. S \in SUBSET Parts(s)
    OBVIOUS
  <2> HIDE DEF S
  <2> QED  BY <1>3, <2>1, PartInduction
<1>5. ASSUME NEW l \in 0 .. 2, NEW a \in 1 .. Len(s) + 1, NEW b \in 0 .. Len(s)
      PROVE  Fine(l, a, b)
  <2>1. <<l, a, b>> \in S
    BY <1>4 DEF Parts
  <2> HIDE DEF Fine
  <2> QED  BY <2>1
<1> QED  BY <1>5

\* The parser finds what the lexemes from a to b are at level l, if an operator that
\* binds more does not follow.
Finds(s, l, a, b) ==
    Part(s, l, a, b) # Null =>
        /\ l = 0 => Run(s)[<<"expr_unary", a>>] = Parsed(Part(s, 0, a, b), b + 1)
        /\ l = 1 => \E n \in 0 .. b - a :
                      MultTurns(Run(s), tokenize(s), a)[n] = Parsed(Part(s, 1, a, b), b + 1)
        /\ (l = 2 /\ (b = Len(s) \/ s[b + 1] \notin {"*", "/"})) =>
             \E n \in 0 .. b - a :
                      AddTurns(Run(s), tokenize(s), a)[n] = Parsed(Part(s, 2, a, b), b + 1)

\* The fields of a result.
LEMMA ParsedIs ==
    ASSUME NEW t, NEW i
    PROVE  /\ Parsed(t, i).dag = t /\ Parsed(t, i).i = i
           /\ \A u : [Parsed(t, i) EXCEPT !.dag = u] = Parsed(u, i)
           /\ \A j : [Parsed(t, i) EXCEPT !.i = j] = Parsed(t, j)
<1>1. \A w, u, j :
        /\ [dag |-> t, i |-> i, wild |-> w].dag = t /\ [dag |-> t, i |-> i, wild |-> w].i = i
        /\ [[dag |-> t, i |-> i, wild |-> w] EXCEPT !.dag = u] = [dag |-> u, i |-> i, wild |-> w]
        /\ [[dag |-> t, i |-> i, wild |-> w] EXCEPT !.i = j] = [dag |-> t, i |-> j, wild |-> w]
  OBVIOUS
<1> QED  BY <1>1, Zenon DEF Parsed

\* A product is found, and expr_multiplicative() returns it.
LEMMA ProductFound ==
    ASSUME NEW s \in Seq(Lexemes), NEW a \in 1 .. Len(s) + 1, NEW b \in 0 .. Len(s),
           Finds(s, 1, a, b), Part(s, 1, a, b) # Null,
           b = Len(s) \/ s[b + 1] \notin {"*", "/"}
    PROVE  Run(s)[<<"expr_multiplicative", a>>] = Parsed(Part(s, 1, a, b), b + 1)
<1> DEFINE e == Parsed(Part(s, 1, a, b), b + 1)
<1>1. PICK n \in 0 .. b - a : MultTurns(Run(s), tokenize(s), a)[n] = e
  BY DEF Finds
<1>2. Len(s) \in Nat /\ Len(tokenize(s)) = Len(s) /\ n \in 0 .. Len(s) /\ b + 1 \in 1 .. Len(s) + 1
  BY Tokens
<1>3. ~match(tokenize(s), b + 1, {"*", "/"})
  <2>1. {"*", "/"} \in SUBSET Operators
    BY DEF Operators
  <2>2. match(tokenize(s), b + 1, {"*", "/"}) <=> b + 1 <= Len(s) /\ s[b + 1] \in {"*", "/"}
    BY <1>2, <2>1, MatchIs
  <2>3. ~(b + 1 <= Len(s) /\ s[b + 1] \in {"*", "/"})
    BY <1>2
  <2> QED  BY <2>2, <2>3, Zenon
<1>4. e.i = b + 1
  BY ParsedIs
<1>5. Run(s)[<<"expr_multiplicative", a>>] = expr_multiplicative(Run(s), tokenize(s), a)
  BY RunIs
<1>6. expr_multiplicative(Run(s), tokenize(s), a) = e
  <2> HIDE DEF e
  <2>1. Len(tokenize(s)) \in Nat /\ n \in 0 .. Len(tokenize(s)) /\ ~match(tokenize(s), e.i, {"*", "/"})
    BY <1>2, <1>3, <1>4
  <2> QED  BY <1>1, <2>1, MultStays
<1> QED  BY <1>5, <1>6

\* A sum is found, and expr() returns it.
LEMMA SumFound ==
    ASSUME NEW s \in Seq(Lexemes), NEW a \in 1 .. Len(s) + 1, NEW b \in 0 .. Len(s),
           Finds(s, 2, a, b), Part(s, 2, a, b) # Null,
           b = Len(s) \/ s[b + 1] \notin {"*", "/", "+", "-"}
    PROVE  Run(s)[<<"expr", a>>] = Parsed(Part(s, 2, a, b), b + 1)
<1> DEFINE e == Parsed(Part(s, 2, a, b), b + 1)
<1>1. PICK n \in 0 .. b - a : AddTurns(Run(s), tokenize(s), a)[n] = e
  BY DEF Finds
<1>2. Len(s) \in Nat /\ Len(tokenize(s)) = Len(s) /\ n \in 0 .. Len(s) /\ b + 1 \in 1 .. Len(s) + 1
  BY Tokens
<1>3. ~match(tokenize(s), b + 1, {"+", "-"})
  <2>1. {"+", "-"} \in SUBSET Operators
    BY DEF Operators
  <2>2. match(tokenize(s), b + 1, {"+", "-"}) <=> b + 1 <= Len(s) /\ s[b + 1] \in {"+", "-"}
    BY <1>2, <2>1, MatchIs
  <2>3. ~(b + 1 <= Len(s) /\ s[b + 1] \in {"+", "-"})
    BY <1>2
  <2> QED  BY <2>2, <2>3, Zenon
<1>4. e.i = b + 1
  BY ParsedIs
<1>5. Run(s)[<<"expr", a>>] = expr(Run(s), tokenize(s), a)
  BY RunIs
<1>6. expr(Run(s), tokenize(s), a) = e
  <2> HIDE DEF e
  <2>1. Len(tokenize(s)) \in Nat /\ n \in 0 .. Len(tokenize(s)) /\ ~match(tokenize(s), e.i, {"+", "-"})
    BY <1>2, <1>3, <1>4
  <2> QED  BY <1>1, <2>1, AddStays
<1> QED  BY <1>5, <1>6

\* A number, a signed operand or an expression in parentheses is found.
LEMMA OperandFound ==
    ASSUME NEW s \in Seq(Lexemes), NEW a \in 1 .. Len(s) + 1, NEW b \in 0 .. Len(s),
           a <= b => Finds(s, 0, a + 1, b) /\ Finds(s, 2, a + 1, b - 1)
    PROVE  Finds(s, 0, a, b)
<1> DEFINE ts == tokenize(s)
           run == Run(s)
<1> SUFFICES ASSUME Part(s, 0, a, b) # Null
             PROVE  run[<<"expr_unary", a>>] = Parsed(Part(s, 0, a, b), b + 1)
  BY DEF Finds
<1>1. Len(s) \in Nat /\ a \in Nat /\ b \in Nat
  BY Tokens
<1>2. Part(s, 0, a, b) = Operand(Denotes(s), s, a, b)
  BY PartIs
<1>3. a <= b /\ a <= Len(s)
  <2>1. a <= b
    BY <1>1, <1>2 DEF Operand
  <2> QED  BY <1>1, <2>1
<1>4. run[<<"expr_unary", a>>] = expr_unary(run, ts, a)
  BY RunIs
<1>5. /\ match(ts, a, {"+"}) <=> s[a] = "+"
      /\ match(ts, a, {"-"}) <=> s[a] = "-"
      /\ match(ts, a, {"("}) <=> s[a] = "("
      /\ match(ts, a, {"val"}) <=> s[a] \in Numbers
      /\ s[a] \in Numbers => ts[a].val = <<s[a], a>>
  <2>1. \A o \in Operators : match(ts, a, {o}) <=> s[a] = o
    <3> TAKE o \in Operators
    <3>1. {o} \in SUBSET Operators
      OBVIOUS
    <3>2. match(ts, a, {o}) <=> a <= Len(s) /\ s[a] \in {o}
      BY <3>1, MatchIs
    <3> QED  BY <1>3, <3>2, Zenon
  <2>2. {"+", "-", "("} \subseteq Operators
    BY DEF Operators
  <2>3. /\ match(ts, a, {"+"}) <=> s[a] = "+"
        /\ match(ts, a, {"-"}) <=> s[a] = "-"
        /\ match(ts, a, {"("}) <=> s[a] = "("
    BY <2>1, <2>2, Zenon
  <2>4. /\ match(ts, a, {"val"}) <=> a <= Len(s) /\ s[a] \in Numbers
        /\ a <= Len(s) /\ s[a] \in Numbers => ts[a].val = <<s[a], a>>
    BY MatchIs
  <2> QED  BY <1>3, <2>3, <2>4, Zenon
<1>6. a + 1 \in 1 .. Len(s) + 1 /\ b - 1 \in 0 .. Len(s)
  BY <1>1, <1>3
<1> HIDE DEF ts, run
<1>7. CASE a = b /\ s[a] \in Numbers
  <2>1. Part(s, 0, a, b) = Val(<<s[a], a>>)
    BY <1>1, <1>2, <1>7 DEF Operand
  <2>2. s[a] # "+" /\ s[a] # "-"
    BY <1>7 DEF Numbers
  <2>3. expr_unary(run, ts, a) = expr_primary(run, ts, a)
    BY <1>5, <2>2, Zenon DEF expr_unary
  <2>4. expr_primary(run, ts, a) = Parsed(Val(ts[a].val), a + 1)
    BY <1>5, <1>7, Zenon DEF expr_primary
  <2> QED  BY <1>4, <1>5, <1>7, <2>1, <2>3, <2>4
<1>8. CASE s[a] = "+"
  <2>1. Part(s, 0, a, b) = Part(s, 0, a + 1, b)
    BY <1>1, <1>2, <1>3, <1>8 DEF Operand, Part, Numbers
  <2>2. run[<<"expr_unary", a + 1>>] = Parsed(Part(s, 0, a + 1, b), b + 1)
    BY <1>3, <2>1 DEF Finds, run
  <2>3. expr_unary(run, ts, a) = run[<<"expr_unary", a + 1>>]
    BY <1>5, <1>8, Zenon DEF expr_unary
  <2> QED  BY <1>4, <2>1, <2>2, <2>3
<1>9. CASE s[a] = "-"
  <2> DEFINE r == Part(s, 0, a + 1, b)
  <2>1. Part(s, 0, a, b) = IF r = Null THEN Null ELSE Neg(r)
    BY <1>1, <1>2, <1>3, <1>9 DEF Operand, Part, Numbers
  <2>2. r # Null /\ Part(s, 0, a, b) = Neg(r)
    BY <2>1
  <2>3. run[<<"expr_unary", a + 1>>] = Parsed(r, b + 1)
    BY <1>3, <2>2 DEF Finds, run
  <2>4. ~match(ts, a, {"+"}) /\ match(ts, a, {"-"})
    BY <1>5, <1>9, Zenon
  <2> DEFINE e == run[<<"expr_unary", a + 1>>]
  <2>5. expr_unary(run, ts, a) = IF e.dag = Null THEN e ELSE [e EXCEPT !.dag = Neg(@)]
    BY <2>4, Zenon DEF expr_unary
  <2> HIDE DEF e, r
  <2>6. e = Parsed(r, b + 1) /\ e.dag = r
    BY <2>3, ParsedIs DEF e
  <2>7. expr_unary(run, ts, a) = [e EXCEPT !.dag = Neg(r)]
    BY <2>2, <2>5, <2>6
  <2>8. [e EXCEPT !.dag = Neg(r)] = Parsed(Neg(r), b + 1)
    BY <2>6, ParsedIs
  <2> QED  BY <1>4, <2>2, <2>7, <2>8
<1>10. CASE s[a] = "(" /\ s[b] = ")" /\ ~(a = b /\ s[a] \in Numbers)
  <2> DEFINE r == Part(s, 2, a + 1, b - 1)
  <2>1. Part(s, 0, a, b) = r
    BY <1>1, <1>2, <1>3, <1>10 DEF Operand, Part, Numbers
  <2>2. run[<<"expr", a + 1>>] = Parsed(r, b)
    <3>1. Run(s)[<<"expr", a + 1>>] = Parsed(r, (b - 1) + 1)
      <4>1. s[(b - 1) + 1] \notin {"*", "/", "+", "-"}
        BY <1>1, <1>10
      <4> QED  BY <1>3, <1>6, <2>1, <4>1, SumFound
    <3>2. (b - 1) + 1 = b
      BY <1>1
    <3> QED  BY <3>1, <3>2 DEF run
  <2>3. expr_unary(run, ts, a) = expr_primary(run, ts, a)
    BY <1>5, <1>10, Zenon DEF expr_unary
  <2>4. ~match(ts, a, {"val"}) /\ match(ts, a, {"("})
    <3>1. s[a] \notin Numbers
      BY <1>10 DEF Numbers
    <3> QED  BY <1>5, <1>10, <3>1, Zenon
  <2>5. match(ts, b, {")"})
    <3>1. {")"} \in SUBSET Operators
      BY DEF Operators
    <3>2. b \in 1 .. Len(s) + 1
      BY <1>1, <1>3
    <3>3. b <= Len(s) /\ s[b] \in {")"}
      BY <1>1, <1>10
    <3>4. match(ts, b, {")"}) <=> b <= Len(s) /\ s[b] \in {")"}
      BY <3>1, <3>2, MatchIs DEF ts
    <3> QED  BY <3>3, <3>4
  <2> DEFINE e == run[<<"expr", a + 1>>]
  <2>6. expr_primary(run, ts, a) = IF e.dag # Null /\ match(ts, e.i, {")"})
                                   THEN [e EXCEPT !.i = @ + 1] ELSE [e EXCEPT !.dag = Null]
    BY <2>4, Zenon DEF expr_primary
  <2> HIDE DEF e, r
  <2>7. e = Parsed(r, b) /\ e.dag = r /\ e.i = b
    BY <2>2, ParsedIs DEF e
  <2>8. expr_primary(run, ts, a) = [e EXCEPT !.i = b + 1]
    BY <2>1, <2>5, <2>6, <2>7
  <2>9. [e EXCEPT !.i = b + 1] = Parsed(r, b + 1)
    BY <2>7, ParsedIs
  <2> QED  BY <1>4, <2>1, <2>3, <2>8, <2>9
<1> QED  BY <1>1, <1>2, <1>3, <1>7, <1>8, <1>9, <1>10 DEF Operand

\* A product with one operator more is found.
LEMMA FactorFound ==
    ASSUME NEW s \in Seq(Lexemes), NEW a \in 1 .. Len(s), NEW b \in 1 .. Len(s), NEW m \in a + 1 .. b,
           NEW n \in 0 .. (m - 1) - a, NEW L, NEW R, L # Null, R # Null, s[m] \in {"*", "/"},
           MultTurns(Run(s), tokenize(s), a)[n] = Parsed(L, m),
           Run(s)[<<"expr_unary", m + 1>>] = Parsed(R, b + 1)
    PROVE  MultTurns(Run(s), tokenize(s), a)[n + 1] = Parsed(Bin(s[m], L, R), b + 1)
<1> DEFINE e == Parsed(L, m)
           r == Run(s)[<<"expr_unary", m + 1>>]
           ts == tokenize(s)
<1>1. Len(s) \in Nat /\ m \in 1 .. Len(s) + 1 /\ m <= Len(s) /\ n \in Nat
  BY Tokens
<1>2. e.dag = L /\ e.i = m /\ r.dag = R
  BY ParsedIs
<1>3. match(ts, m, {"*", "/"}) /\ ts[m].op = s[m]
  <2>1. {"*", "/"} \in SUBSET Operators
    BY DEF Operators
  <2> QED  BY <1>1, <2>1, MatchIs
<1>4. MultTurns(Run(s), ts, a)[n + 1] = expr_multiplicative_(Run(s), ts, e)
  <2>1. NextTurnMult(Run(s), ts, a)
    BY MultTurnsIs
  <2> HIDE DEF e, ts
  <2> QED  BY <1>1, <2>1 DEF NextTurnMult, e, ts
<1>5. expr_multiplicative_(Run(s), ts, e) =
        IF r.dag = Null THEN r ELSE [r EXCEPT !.dag = Bin(ts[m].op, L, @)]
  <2> DEFINE q == Run(s)[<<"expr_unary", e.i + 1>>]
  <2>1. e.dag # Null /\ match(ts, e.i, {"*", "/"})
    BY <1>2, <1>3
  <2> HIDE DEF e
  <2>2. expr_multiplicative_(Run(s), ts, e) =
          IF q.dag = Null THEN q ELSE [q EXCEPT !.dag = Bin(ts[e.i].op, e.dag, @)]
    BY <2>1, Zenon DEF expr_multiplicative_
  <2>3. q = r
    BY <1>2
  <2> HIDE DEF q, r
  <2> QED  BY <1>2, <2>2, <2>3
<1>6. [r EXCEPT !.dag = Bin(ts[m].op, L, @)] = Parsed(Bin(s[m], L, R), b + 1)
  <2>1. [Parsed(R, b + 1) EXCEPT !.dag = Bin(s[m], L, R)] = Parsed(Bin(s[m], L, R), b + 1)
    BY ParsedIs
  <2>2. r = Parsed(R, b + 1)
    OBVIOUS
  <2> HIDE DEF r
  <2> QED  BY <1>2, <1>3, <2>1, <2>2
<1> HIDE DEF r
<1> QED  BY <1>2, <1>4, <1>5, <1>6

\* A sum with one operator more is found.
LEMMA TermFound ==
    ASSUME NEW s \in Seq(Lexemes), NEW a \in 1 .. Len(s), NEW b \in 1 .. Len(s), NEW m \in a + 1 .. b,
           NEW n \in 0 .. (m - 1) - a, NEW L, NEW R, L # Null, R # Null, s[m] \in {"+", "-"},
           AddTurns(Run(s), tokenize(s), a)[n] = Parsed(L, m),
           Run(s)[<<"expr_multiplicative", m + 1>>] = Parsed(R, b + 1)
    PROVE  AddTurns(Run(s), tokenize(s), a)[n + 1] = Parsed(Bin(s[m], L, R), b + 1)
<1> DEFINE e == Parsed(L, m)
           r == Run(s)[<<"expr_multiplicative", m + 1>>]
           ts == tokenize(s)
<1>1. Len(s) \in Nat /\ m \in 1 .. Len(s) + 1 /\ m <= Len(s) /\ n \in Nat
  BY Tokens
<1>2. e.dag = L /\ e.i = m /\ r.dag = R
  BY ParsedIs
<1>3. match(ts, m, {"+", "-"}) /\ ts[m].op = s[m]
  <2>1. {"+", "-"} \in SUBSET Operators
    BY DEF Operators
  <2> QED  BY <1>1, <2>1, MatchIs
<1>4. AddTurns(Run(s), ts, a)[n + 1] = expr_additive_(Run(s), ts, e)
  <2>1. NextTurnAdd(Run(s), ts, a)
    BY AddTurnsIs
  <2> HIDE DEF e, ts
  <2> QED  BY <1>1, <2>1 DEF NextTurnAdd, e, ts
<1>5. expr_additive_(Run(s), ts, e) = [r EXCEPT !.dag = Bin(ts[m].op, L, @)]
  <2> DEFINE q == Run(s)[<<"expr_multiplicative", e.i + 1>>]
  <2>1. e.dag # Null /\ match(ts, e.i, {"+", "-"})
    BY <1>2, <1>3
  <2>3. q = r
    BY <1>2
  <2>4. q.dag # Null
    BY <1>2, <2>3
  <2> HIDE DEF e
  <2>2. expr_additive_(Run(s), ts, e) = [q EXCEPT !.dag = Bin(ts[e.i].op, e.dag, @)]
    BY <2>1, <2>4, Zenon DEF expr_additive_
  <2> HIDE DEF q, r
  <2> QED  BY <1>2, <2>2, <2>3
<1>6. [r EXCEPT !.dag = Bin(ts[m].op, L, @)] = Parsed(Bin(s[m], L, R), b + 1)
  <2>1. [Parsed(R, b + 1) EXCEPT !.dag = Bin(s[m], L, R)] = Parsed(Bin(s[m], L, R), b + 1)
    BY ParsedIs
  <2>2. r = Parsed(R, b + 1)
    OBVIOUS
  <2> HIDE DEF r
  <2> QED  BY <1>2, <1>3, <2>1, <2>2
<1> HIDE DEF r
<1> QED  BY <1>2, <1>4, <1>5, <1>6

\* Products and sums are found.
LEMMA JoinedFound ==
    ASSUME NEW s \in Seq(Lexemes), NEW a \in 1 .. Len(s) + 1, NEW b \in 0 .. Len(s), NEW l \in 1 .. 2,
           \A k \in 0 .. 2, c \in 1 .. Len(s) + 1, d \in 0 .. Len(s) :
             d - c < b - a \/ (d - c = b - a /\ k < l) => Finds(s, k, c, d)
    PROVE  Finds(s, l, a, b)
<1> DEFINE at == Splits(s, a, b, Joining[l])
           m == Max(at)
           D == Part(s, l, a, b)
           L == Part(s, l, a, m - 1)
           R == Part(s, l - 1, m + 1, b)
           follows == b = Len(s) \/ s[b + 1] \notin {"*", "/"}
<1> SUFFICES ASSUME D # Null, l = 2 => follows
             PROVE  /\ l = 1 => \E n \in 0 .. b - a :
                         MultTurns(Run(s), tokenize(s), a)[n] = Parsed(D, b + 1)
                    /\ l = 2 => \E n \in 0 .. b - a :
                         AddTurns(Run(s), tokenize(s), a)[n] = Parsed(D, b + 1)
  BY DEF Finds
<1>1. Len(s) \in Nat /\ a \in Nat /\ b \in Nat
  BY Tokens
<1>2. a <= b
  BY PartsAreReadable
<1>3. D = Joined(Denotes(s), s, l, a, b)
  BY PartIs
<1>4. Finds(s, l - 1, a, b)
  <2>1. l - 1 \in 0 .. 2 /\ b - a = b - a /\ l - 1 < l
    OBVIOUS
  <2> QED  BY <2>1
<1>5. CASE at = {}
  <2>1. D = Part(s, l - 1, a, b)
    BY <1>3, <1>5, Zenon DEF Joined, Part
  <2>2. 0 \in 0 .. b - a
    BY <1>1, <1>2
  <2> HIDE DEF D
  <2>3. CASE l = 1
    <3>1. l - 1 = 0
      BY <2>3
    <3>2. Run(s)[<<"expr_unary", a>>] = Parsed(D, b + 1)
      BY <1>4, <2>1, <3>1 DEF Finds
    <3>3. MultTurns(Run(s), tokenize(s), a)[0] = Run(s)[<<"expr_unary", a>>]
      BY MultTurnsIs
    <3> QED  BY <2>2, <2>3, <3>2, <3>3
  <2>4. CASE l = 2
    <3>1. l - 1 = 1
      BY <2>4
    <3>2. Run(s)[<<"expr_multiplicative", a>>] = Parsed(D, b + 1)
      BY <1>4, <2>1, <2>4, <3>1, ProductFound
    <3>3. AddTurns(Run(s), tokenize(s), a)[0] = Run(s)[<<"expr_multiplicative", a>>]
      BY AddTurnsIs
    <3> QED  BY <2>2, <2>4, <3>2, <3>3
  <2> QED  BY <2>3, <2>4
<1>6. CASE at # {}
  <2>1. m \in a + 1 .. b /\ m \in at
    BY <1>1, <1>6, SplitAt
  <2>2. D = Join(s[m], L, R)
    BY <1>3, <1>6, Zenon DEF Joined, Part
  <2>3. L # Null /\ R # Null /\ D = Bin(s[m], L, R)
    BY <2>2, Zenon DEF Join
  <2>4. s[m] \in Joining[l]
    BY <2>1 DEF Splits
  <2> HIDE DEF D, L, R, m, at
  <2>5. /\ m - 1 \in 0 .. Len(s) /\ m + 1 \in 1 .. Len(s) + 1 /\ l - 1 \in 0 .. 2
        /\ (m - 1) - a < b - a /\ b - (m + 1) < b - a /\ (m - 1) + 1 = m
        /\ a \in 1 .. Len(s) /\ b \in 1 .. Len(s)
        /\ \A n \in 0 .. (m - 1) - a : n + 1 \in 0 .. b - a
    BY <1>1, <1>2, <2>1
  <2>6. Finds(s, l, a, m - 1) /\ Finds(s, l - 1, m + 1, b)
    BY <2>5
  <2>9. a \in 1 .. Len(s) /\ b \in 1 .. Len(s)
    BY <2>5
  <2>7. CASE l = 1
    <3>1. s[m] \in {"*", "/"} /\ l - 1 = 0
      BY <2>4, <2>7 DEF Joining
    <3>2. PICK n \in 0 .. (m - 1) - a : MultTurns(Run(s), tokenize(s), a)[n] = Parsed(L, m)
      BY <2>3, <2>5, <2>6, <2>7 DEF Finds, L
    <3>3. Run(s)[<<"expr_unary", m + 1>>] = Parsed(R, b + 1)
      BY <2>3, <2>6, <3>1 DEF Finds, R
    <3>4. MultTurns(Run(s), tokenize(s), a)[n + 1] = Parsed(Bin(s[m], L, R), b + 1)
      <4> QED  BY <2>1, <2>3, <2>9, <3>1, <3>2, <3>3, FactorFound
    <3> QED  BY <2>3, <2>5, <2>7, <3>4
  <2>8. CASE l = 2
    <3>1. s[m] \in {"+", "-"} /\ l - 1 = 1
      BY <2>4, <2>8 DEF Joining
    <3>2. PICK n \in 0 .. (m - 1) - a : AddTurns(Run(s), tokenize(s), a)[n] = Parsed(L, m)
      <4>1. s[(m - 1) + 1] \notin {"*", "/"}
        BY <2>5, <3>1
      <4> QED  BY <2>3, <2>5, <2>6, <2>8, <4>1 DEF Finds, L
    <3>3. Run(s)[<<"expr_multiplicative", m + 1>>] = Parsed(R, b + 1)
      BY <2>3, <2>5, <2>6, <2>8, <3>1, ProductFound DEF R
    <3>4. AddTurns(Run(s), tokenize(s), a)[n + 1] = Parsed(Bin(s[m], L, R), b + 1)
      BY <2>1, <2>3, <2>9, <3>1, <3>2, <3>3, TermFound
    <3> QED  BY <2>3, <2>5, <2>8, <3>4
  <2> QED  BY <2>7, <2>8
<1> QED  BY <1>5, <1>6

\* Every part is found.
LEMMA AllFound ==
    ASSUME NEW s \in Seq(Lexemes)
    PROVE  \A l \in 0 .. 2, a \in 1 .. Len(s) + 1, b \in 0 .. Len(s) : Finds(s, l, a, b)
<1> DEFINE S == {p \in Parts(s) : Finds(s, p[1], p[2], p[3])}
<1>1. ASSUME NEW l \in 0 .. 2, NEW a \in 1 .. Len(s) + 1, NEW b \in 0 .. Len(s),
             \A q \in Parts(s) : Size(s, q) < Size(s, <<l, a, b>>) => q \in S
      PROVE  Finds(s, l, a, b)
  <2>1. ASSUME NEW k \in 0 .. 2, NEW c \in 1 .. Len(s) + 1, NEW d \in 0 .. Len(s),
               d - c < b - a \/ (d - c = b - a /\ k < l)
        PROVE  Finds(s, k, c, d)
    <3>1. <<k, c, d>> \in S
      BY <1>1, <2>1, SmallerParts
    <3> QED  BY <3>1
  <2>2. CASE l = 0
    <3>1. ASSUME a <= b PROVE Finds(s, 0, a + 1, b) /\ Finds(s, 2, a + 1, b - 1)
      <4>1. Len(s) \in Nat
        BY Tokens
      <4>2. a + 1 \in 1 .. Len(s) + 1 /\ b - 1 \in 0 .. Len(s) /\ b - (a + 1) < b - a
            /\ (b - 1) - (a + 1) < b - a /\ 0 \in 0 .. 2 /\ 2 \in 0 .. 2
        BY <3>1, <4>1
      <4> QED  BY <2>1, <4>2
    <3> QED  BY <2>2, <3>1, OperandFound
  <2>3. CASE l \in 1 .. 2
    BY <2>1, <2>3, JoinedFound
  <2> QED  BY <2>2, <2>3
<1>2. ASSUME NEW p \in Parts(s), \A q \in Parts(s) : Size(s, q) < Size(s, p) => q \in S
      PROVE  p \in S
  <2>1. PICK l \in 0 .. 2, a \in 1 .. Len(s) + 1, b \in 0 .. Len(s) : p = <<l, a, b>>
    BY DEF Parts
  <2>2. p[1] = l /\ p[2] = a /\ p[3] = b
    BY <2>1
  <2>3. Finds(s, l, a, b)
    <3> HIDE DEF S
    <3> QED  BY <1>1, <1>2, <2>1
  <2> QED  BY <2>2, <2>3
<1>3. S = Parts(s)
  <2>1. S \in SUBSET Parts(s)
    OBVIOUS
  <2> HIDE DEF S
  <2> QED  BY <1>2, <2>1, PartInduction
<1>4. ASSUME NEW l \in 0 .. 2, NEW a \in 1 .. Len(s) + 1, NEW b \in 0 .. Len(s)
      PROVE  Finds(s, l, a, b)
  <2>1. <<l, a, b>> \in S
    BY <1>3 DEF Parts
  <2> QED  BY <2>1
<1> QED  BY <1>4

\* parser.c accepts every argument that denotes an expression, builds that one, and
\* makes no message from what lies behind TBL.
LEMMA Accepts ==
    ASSUME NEW s \in Seq(Lexemes), Meaning(s) # Null
    PROVE  /\ Readable(s)
           /\ top(tokenize(s)) = Parsed(Meaning(s), Len(s) + 1)
<1>1. Len(s) \in Nat /\ Len(tokenize(s)) = Len(s) /\ 1 \in 1 .. Len(s) + 1 /\ Len(s) \in 0 .. Len(s)
      /\ 2 \in 0 .. 2
  BY Tokens
<1>2. Meaning(s) = Part(s, 2, 1, Len(s))
  BY DEF Meaning, Part
<1>3. Readable(s)
  <2>1. \A i \in 1 .. Len(s) : s[i] # "junk"
    BY <1>1, <1>2, PartsAreReadable
  <2>2. DOMAIN s = 1 .. Len(s)
    OBVIOUS
  <2> QED  BY <2>1, <2>2 DEF Readable
<1>4. Run(s)[<<"expr", 1>>] = Parsed(Meaning(s), Len(s) + 1)
  <2>1. Finds(s, 2, 1, Len(s))
    BY <1>1, AllFound
  <2> QED  BY <1>1, <1>2, <2>1, SumFound
<1>5. Parsed(Meaning(s), Len(s) + 1).i = Len(s) + 1
  BY ParsedIs
<1>6. ~(Len(s) + 1 <= Len(s))
  BY <1>1
<1> QED  BY <1>1, <1>3, <1>4, <1>5, <1>6, Zenon DEF top, Run
-----------------------------------------------------------------------------
\* How often x is among the lexemes from a to b.
Count(s, x, a, b) == Cardinality({i \in a .. b : s[i] = x})

\* The lexemes x between a and b, counted in two pieces.
LEMMA CountPieces ==
    ASSUME NEW s, NEW x, NEW a \in Nat, NEW m \in Nat, NEW b \in Nat, a <= m + 1, m <= b
    PROVE  /\ Count(s, x, a, m) \in Nat /\ Count(s, x, m + 1, b) \in Nat
           /\ Count(s, x, a, b) = Count(s, x, a, m) + Count(s, x, m + 1, b)
<1> DEFINE P(c, d) == {i \in c .. d : s[i] = x}
<1>1. P(a, b) = P(a, m) \cup P(m + 1, b)
  <2>1. \A i : i \in a .. b <=> i \in a .. m \/ i \in m + 1 .. b
    OBVIOUS
  <2> QED  BY <2>1
<1>2. P(a, m) \cap P(m + 1, b) = {}
  OBVIOUS
<1>3. IsFiniteSet(P(a, m)) /\ IsFiniteSet(P(m + 1, b))
  <2>1. IsFiniteSet(a .. m) /\ IsFiniteSet(m + 1 .. b)
    BY FS_Interval
  <2>2. P(a, m) \in SUBSET (a .. m) /\ P(m + 1, b) \in SUBSET (m + 1 .. b)
    OBVIOUS
  <2> HIDE DEF P
  <2> QED  BY <2>1, <2>2, FS_Subset
<1> HIDE DEF P
<1>4. Cardinality(P(a, m)) \in Nat /\ Cardinality(P(m + 1, b)) \in Nat
  BY <1>3, FS_CardinalityType
<1>5. Cardinality(P(a, b)) = Cardinality(P(a, m)) + Cardinality(P(m + 1, b))
  <2>1. Cardinality(P(a, m) \cup P(m + 1, b)) =
          Cardinality(P(a, m)) + Cardinality(P(m + 1, b)) - Cardinality({})
    BY <1>2, <1>3, FS_Union
  <2>2. Cardinality({}) = 0
    BY FS_EmptySet
  <2> QED  BY <1>1, <1>4, <2>1, <2>2
<1> QED  BY <1>4, <1>5 DEF P, Count

\* The depth in two pieces.
LEMMA DepthPieces ==
    ASSUME NEW s, NEW a \in Nat, NEW m \in Nat, NEW b \in Nat, a <= m + 1, m <= b
    PROVE  /\ Depth(s, a, m) \in Int /\ Depth(s, m + 1, b) \in Int
           /\ Depth(s, a, b) = Depth(s, a, m) + Depth(s, m + 1, b)
<1>1. \A c, d : Depth(s, c, d) = Count(s, "(", c, d) - Count(s, ")", c, d)
  BY DEF Depth, Count
<1>2. /\ Count(s, "(", a, m) \in Nat /\ Count(s, "(", m + 1, b) \in Nat
      /\ Count(s, "(", a, b) = Count(s, "(", a, m) + Count(s, "(", m + 1, b)
  BY CountPieces
<1>3. /\ Count(s, ")", a, m) \in Nat /\ Count(s, ")", m + 1, b) \in Nat
      /\ Count(s, ")", a, b) = Count(s, ")", a, m) + Count(s, ")", m + 1, b)
  BY CountPieces
<1> QED  BY <1>1, <1>2, <1>3

\* The depth after one lexeme.
LEMMA DepthOne ==
    ASSUME NEW s, NEW a \in Nat
    PROVE  Depth(s, a, a) = IF s[a] = "(" THEN 1 ELSE IF s[a] = ")" THEN -1 ELSE 0
<1> DEFINE P(x) == {i \in a .. a : s[i] = x}
<1>1. \A x : P(x) = IF s[a] = x THEN {a} ELSE {}
  OBVIOUS
<1>2. Cardinality({a}) = 1 /\ Cardinality({}) = 0
  BY FS_Singleton, FS_EmptySet
<1>3. Depth(s, a, a) = Cardinality(P("(")) - Cardinality(P(")"))
  BY DEF Depth
<1> HIDE DEF P
<1>4. CASE s[a] = "("
  <2>1. P("(") = {a} /\ P(")") = {}
    BY <1>1, <1>4
  <2> QED  BY <1>2, <1>3, <1>4, <2>1
<1>5. CASE s[a] = ")"
  <2>1. P("(") = {} /\ P(")") = {a}
    BY <1>1, <1>5
  <2> QED  BY <1>2, <1>3, <1>5, <2>1
<1>6. CASE s[a] # "(" /\ s[a] # ")"
  <2>1. P("(") = {} /\ P(")") = {}
    BY <1>1, <1>6
  <2> QED  BY <1>2, <1>3, <1>6, <2>1
<1> QED  BY <1>4, <1>5, <1>6

\* The lexemes from a to b are an operand: no parenthesis is closed that was not
\* opened, all are closed in the end, and an operator may follow.
Closed(s, a, b) ==
    /\ a <= b
    /\ s[b] \in Numbers \cup {")"}
    /\ Depth(s, a, b) = 0
    /\ \A k \in a .. b : Depth(s, a, k) \in Nat

\* A number is an operand.
LEMMA NumberCloses ==
    ASSUME NEW s, NEW a \in Nat, s[a] \in Numbers
    PROVE  Closed(s, a, a) /\ \A ops : Splits(s, a, a, ops) = {}
<1>1. Depth(s, a, a) = 0
  BY DepthOne DEF Numbers
<1>2. \A k \in a .. a : k = a
  OBVIOUS
<1>3. \A ops : Splits(s, a, a, ops) = {}
  BY DEF Splits
<1> QED  BY <1>1, <1>2, <1>3 DEF Closed

\* A sign before an operand does not divide it.
LEMMA SignCloses ==
    ASSUME NEW s, NEW a \in Nat, NEW b \in Nat, Closed(s, a + 1, b), s[a] \in {"+", "-"}
    PROVE  Closed(s, a, b) /\ \A ops : Splits(s, a, b, ops) = Splits(s, a + 1, b, ops)
<1>1. a <= b /\ a + 1 <= b /\ s[b] \in Numbers \cup {")"}
  BY DEF Closed
<1>2. Depth(s, a, a) = 0
  BY DepthOne
<1>3. ASSUME NEW k \in a + 1 .. b PROVE Depth(s, a, k) = Depth(s, a + 1, k)
  <2>1. a \in Nat /\ k \in Nat /\ a <= a + 1 /\ a <= k
    OBVIOUS
  <2>2. Depth(s, a + 1, k) \in Int /\ Depth(s, a, k) = Depth(s, a, a) + Depth(s, a + 1, k)
    BY <2>1, DepthPieces
  <2> QED  BY <1>2, <2>2
<1>4. \A k \in a .. b : k = a \/ k \in a + 1 .. b
  OBVIOUS
<1>5. Closed(s, a, b)
  <2>1. b \in a + 1 .. b
    BY <1>1
  <2>2. Depth(s, a, b) = 0
    BY <1>3, <2>1 DEF Closed
  <2>3. ASSUME NEW k \in a .. b PROVE Depth(s, a, k) \in Nat
    <3>1. CASE k = a
      BY <1>2, <3>1
    <3>2. CASE k \in a + 1 .. b
      BY <1>3, <3>2 DEF Closed
    <3> QED  BY <1>4, <3>1, <3>2
  <2> QED  BY <1>1, <2>2, <2>3 DEF Closed
<1>6. ASSUME NEW ops PROVE Splits(s, a, b, ops) = Splits(s, a + 1, b, ops)
  <2>1. ASSUME NEW k \in Splits(s, a, b, ops) PROVE k \in Splits(s, a + 1, b, ops)
    <3>1. k \in a + 1 .. b /\ s[k] \in ops /\ s[k - 1] \in Numbers \cup {")"} /\ Depth(s, a, k) = 0
      BY DEF Splits
    <3>2. k # a + 1
      <4>1. (a + 1) - 1 = a
        OBVIOUS
      <4> QED  BY <3>1, <4>1 DEF Numbers
    <3>3. k \in (a + 1) + 1 .. b
      BY <3>1, <3>2
    <3>4. Depth(s, a + 1, k) = 0
      BY <1>3, <3>1
    <3> QED  BY <3>1, <3>3, <3>4 DEF Splits
  <2>2. ASSUME NEW k \in Splits(s, a + 1, b, ops) PROVE k \in Splits(s, a, b, ops)
    <3>1. k \in (a + 1) + 1 .. b /\ s[k] \in ops /\ s[k - 1] \in Numbers \cup {")"} /\ Depth(s, a + 1, k) = 0
      BY DEF Splits
    <3>2. k \in a + 1 .. b
      BY <3>1
    <3>3. Depth(s, a, k) = 0
      BY <1>3, <3>1, <3>2
    <3> QED  BY <3>1, <3>2, <3>3 DEF Splits
  <2> QED  BY <2>1, <2>2
<1> QED  BY <1>5, <1>6

\* Parentheses around an operand leave nothing to divide it at.
LEMMA ParenthesesClose ==
    ASSUME NEW s, NEW a \in Nat, NEW b \in Nat, Closed(s, a + 1, b), s[a] = "(", s[b + 1] = ")"
    PROVE  /\ Closed(s, a, b + 1)
           /\ \A ops \in SUBSET {"+", "-", "*", "/"} : Splits(s, a, b + 1, ops) = {}
<1>1. a + 1 <= b
  BY DEF Closed
<1>2. Depth(s, a, a) = 1 /\ Depth(s, b + 1, b + 1) = -1
  BY DepthOne
<1>3. ASSUME NEW k \in a + 1 .. b
      PROVE  Depth(s, a + 1, k) \in Nat /\ Depth(s, a, k) = 1 + Depth(s, a + 1, k)
  <2>1. a \in Nat /\ k \in Nat /\ a <= a + 1 /\ a <= k
    OBVIOUS
  <2>2. Depth(s, a, k) = Depth(s, a, a) + Depth(s, a + 1, k)
    BY <2>1, DepthPieces
  <2>3. Depth(s, a + 1, k) \in Nat
    BY DEF Closed
  <2> QED  BY <1>2, <2>2, <2>3
<1>4. Depth(s, a, b + 1) = 0
  <2>1. Depth(s, a, b + 1) = Depth(s, a, b) + Depth(s, b + 1, b + 1)
    BY <1>1, DepthPieces
  <2>2. Depth(s, a + 1, b) = 0 /\ b \in a + 1 .. b
    BY <1>1 DEF Closed
  <2>3. Depth(s, a, b) = 1
    BY <1>3, <2>2
  <2> QED  BY <1>2, <2>1, <2>3
<1>5. \A k \in a .. b + 1 : k = a \/ k = b + 1 \/ k \in a + 1 .. b
  OBVIOUS
<1>6. Closed(s, a, b + 1)
  <2>1. ASSUME NEW k \in a .. b + 1 PROVE Depth(s, a, k) \in Nat
    <3>1. CASE k = a
      BY <1>2, <3>1
    <3>2. CASE k = b + 1
      BY <1>4, <3>2
    <3>3. CASE k \in a + 1 .. b
      BY <1>3, <3>3
    <3> QED  BY <1>5, <3>1, <3>2, <3>3
  <2> QED  BY <1>1, <1>4, <2>1 DEF Closed
<1>7. ASSUME NEW ops \in SUBSET {"+", "-", "*", "/"}, NEW k \in Splits(s, a, b + 1, ops) PROVE FALSE
  <2>1. k \in a + 1 .. b + 1 /\ s[k] \in ops /\ Depth(s, a, k) = 0
    BY DEF Splits
  <2>2. k # b + 1
    BY <2>1
  <2>3. k \in a + 1 .. b
    BY <2>1, <2>2
  <2> QED  BY <1>3, <2>1, <2>3
<1> QED  BY <1>6, <1>7

\* Two operands with an operator between them are divided at it, and where they were.
LEMMA OperatorCloses ==
    ASSUME NEW s, NEW a \in Nat, NEW m \in Nat, NEW b \in Nat, m > 0,
           Closed(s, a, m - 1), Closed(s, m + 1, b), s[m] \in {"+", "-", "*", "/"}
    PROVE  /\ Closed(s, a, b) /\ m \in a + 1 .. b
           /\ \A ops : Splits(s, a, b, ops) = Splits(s, a, m - 1, ops)
                         \cup {k \in {m} : s[m] \in ops} \cup Splits(s, m + 1, b, ops)
<1>1. m - 1 \in Nat /\ a <= m - 1 /\ m + 1 <= b /\ (m - 1) + 1 = m /\ m <= b
      /\ s[m - 1] \in Numbers \cup {")"} /\ s[b] \in Numbers \cup {")"}
  BY DEF Closed
<1>2. Depth(s, a, m - 1) = 0 /\ Depth(s, m, m) = 0
  <2>1. Depth(s, m, m) = 0
    BY DepthOne
  <2> QED  BY <2>1 DEF Closed
<1>3. Depth(s, a, m) = 0
  <2>1. Depth(s, a, m) = Depth(s, a, m - 1) + Depth(s, (m - 1) + 1, m)
    <3>1. a <= (m - 1) + 1 /\ m - 1 <= m
      BY <1>1
    <3> QED  BY <1>1, <3>1, DepthPieces
  <2> QED  BY <1>1, <1>2, <2>1
<1>4. ASSUME NEW k \in m + 1 .. b PROVE Depth(s, a, k) = Depth(s, m + 1, k)
  <2>1. k \in Nat /\ a <= m + 1 /\ m <= k
    BY <1>1
  <2>2. Depth(s, m + 1, k) \in Int /\ Depth(s, a, k) = Depth(s, a, m) + Depth(s, m + 1, k)
    BY <2>1, DepthPieces
  <2> QED  BY <1>3, <2>2
<1>5. \A k \in a .. b : k \in a .. m - 1 \/ k = m \/ k \in m + 1 .. b
  BY <1>1
<1>6. Closed(s, a, b)
  <2>1. a <= b /\ b \in m + 1 .. b
    BY <1>1
  <2>2. Depth(s, a, b) = 0
    BY <1>4, <2>1 DEF Closed
  <2>3. ASSUME NEW k \in a .. b PROVE Depth(s, a, k) \in Nat
    <3>1. CASE k \in a .. m - 1
      BY <3>1 DEF Closed
    <3>2. CASE k = m
      BY <1>3, <3>2
    <3>3. CASE k \in m + 1 .. b
      BY <1>4, <3>3 DEF Closed
    <3> QED  BY <1>5, <3>1, <3>2, <3>3
  <2> QED  BY <1>1, <2>1, <2>2, <2>3 DEF Closed
<1>7. ASSUME NEW ops
      PROVE  Splits(s, a, b, ops) = Splits(s, a, m - 1, ops)
                         \cup {k \in {m} : s[m] \in ops} \cup Splits(s, m + 1, b, ops)
  <2>1. ASSUME NEW k \in Splits(s, a, b, ops)
        PROVE  k \in Splits(s, a, m - 1, ops) \/ (k = m /\ s[m] \in ops) \/ k \in Splits(s, m + 1, b, ops)
    <3>1. k \in a + 1 .. b /\ s[k] \in ops /\ s[k - 1] \in Numbers \cup {")"} /\ Depth(s, a, k) = 0
      BY DEF Splits
    <3>2. CASE k \in a + 1 .. m - 1
      BY <3>1, <3>2 DEF Splits
    <3>3. CASE k = m
      BY <3>1, <3>3
    <3>4. CASE k = m + 1
      <4>1. k - 1 = m
        BY <3>4
      <4> QED  BY <3>1, <4>1 DEF Numbers
    <3>5. CASE k \in (m + 1) + 1 .. b
      <4>1. Depth(s, m + 1, k) = 0
        <5>1. k \in m + 1 .. b
          BY <3>5
        <5> QED  BY <1>4, <3>1, <5>1
      <4> QED  BY <3>1, <3>5, <4>1 DEF Splits
    <3>6. k \in a + 1 .. m - 1 \/ k = m \/ k = m + 1 \/ k \in (m + 1) + 1 .. b
      BY <1>1, <3>1
    <3> QED  BY <3>2, <3>3, <3>4, <3>5, <3>6
  <2>2. ASSUME NEW k \in Splits(s, a, m - 1, ops) PROVE k \in Splits(s, a, b, ops)
    <3>1. k \in a + 1 .. m - 1 /\ s[k] \in ops /\ s[k - 1] \in Numbers \cup {")"} /\ Depth(s, a, k) = 0
      BY DEF Splits
    <3>2. k \in a + 1 .. b
      BY <1>1, <3>1
    <3> QED  BY <3>1, <3>2 DEF Splits
  <2>3. ASSUME s[m] \in ops PROVE m \in Splits(s, a, b, ops)
    <3>1. m \in a + 1 .. b
      BY <1>1
    <3> QED  BY <1>1, <1>3, <2>3, <3>1 DEF Splits
  <2>4. ASSUME NEW k \in Splits(s, m + 1, b, ops) PROVE k \in Splits(s, a, b, ops)
    <3>1. k \in (m + 1) + 1 .. b /\ s[k] \in ops /\ s[k - 1] \in Numbers \cup {")"} /\ Depth(s, m + 1, k) = 0
      BY DEF Splits
    <3>2. k \in a + 1 .. b /\ k \in m + 1 .. b
      BY <1>1, <3>1
    <3>3. Depth(s, a, k) = 0
      BY <1>4, <3>1, <3>2
    <3> QED  BY <3>1, <3>2, <3>3 DEF Splits
  <2> QED  BY <2>1, <2>2, <2>3, <2>4
<1>8. m \in a + 1 .. b
  BY <1>1
<1> QED  BY <1>6, <1>7, <1>8
-----------------------------------------------------------------------------
\* The parser may return the tree t for the lexemes from a to b: at level l they
\* are an operand that denotes t, with no operator of a higher level to divide it at.
Reads(s, l, a, b, t) ==
    /\ Closed(s, a, b)
    /\ Part(s, l, a, b) = t
    /\ l = 0 => Splits(s, a, b, {"*", "/"}) = {}
    /\ l \in {0, 1} => Splits(s, a, b, {"+", "-"}) = {}

\* The operators of a level.
LEMMA JoiningIs == Joining[1] = {"*", "/"} /\ Joining[2] = {"+", "-"}
BY DEF Joining

\* A number is read.
LEMMA NumberReads ==
    ASSUME NEW s \in Seq(Lexemes), NEW a \in 1 .. Len(s), s[a] \in Numbers
    PROVE  Reads(s, 0, a, a, Val(<<s[a], a>>))
<1>1. Len(s) \in Nat /\ a \in Nat /\ a \in 1 .. Len(s) + 1 /\ a \in 0 .. Len(s) /\ ~(a > a)
  BY Tokens
<1>2. Part(s, 0, a, a) = Operand(Denotes(s), s, a, a)
  BY <1>1, PartIs
<1>3. Part(s, 0, a, a) = Val(<<s[a], a>>)
  BY <1>1, <1>2 DEF Operand
<1>4. Closed(s, a, a) /\ \A ops : Splits(s, a, a, ops) = {}
  BY <1>1, NumberCloses
<1> QED  BY <1>3, <1>4 DEF Reads

\* What follows a sign is read with the sign.
LEMMA SignReads ==
    ASSUME NEW s \in Seq(Lexemes), NEW a \in 1 .. Len(s), NEW b \in 1 .. Len(s), NEW t, t # Null,
           Reads(s, 0, a + 1, b, t)
    PROVE  /\ s[a] = "+" => Reads(s, 0, a, b, t)
           /\ s[a] = "-" => Reads(s, 0, a, b, Neg(t))
<1>1. Len(s) \in Nat /\ a \in Nat /\ b \in Nat /\ a \in 1 .. Len(s) + 1 /\ b \in 0 .. Len(s)
  BY Tokens
<1>2. Part(s, 0, a, b) = Operand(Denotes(s), s, a, b)
  BY <1>1, PartIs
<1>3. Closed(s, a + 1, b) /\ Part(s, 0, a + 1, b) = t
  BY DEF Reads
<1>4. ~(a > b)
  BY <1>1, <1>3 DEF Closed
<1>5. s[a] \in {"+", "-"} =>
        Closed(s, a, b) /\ \A ops : Splits(s, a, b, ops) = Splits(s, a + 1, b, ops)
  BY <1>1, <1>3, SignCloses
<1>6. Denotes(s)[<<0, a + 1, b>>] = t
  BY <1>3 DEF Part
<1>7. ASSUME s[a] = "+" PROVE Part(s, 0, a, b) = t
  BY <1>2, <1>4, <1>6, <1>7 DEF Operand, Numbers
<1>8. ASSUME s[a] = "-" PROVE Part(s, 0, a, b) = Neg(t)
  BY <1>2, <1>4, <1>6, <1>8 DEF Operand, Numbers
<1>9. s[a] \in {"+", "-"} => /\ Splits(s, a, b, {"*", "/"}) = {}
                             /\ Splits(s, a, b, {"+", "-"}) = {}
  BY <1>5 DEF Reads
<1> QED  BY <1>5, <1>7, <1>8, <1>9 DEF Reads

\* An expression in parentheses is read as an operand.
LEMMA ParenthesesRead ==
    ASSUME NEW s \in Seq(Lexemes), NEW a \in 1 .. Len(s), NEW b \in 1 .. Len(s), b + 1 <= Len(s), NEW t,
           Reads(s, 2, a + 1, b, t), s[a] = "(", s[b + 1] = ")"
    PROVE  Reads(s, 0, a, b + 1, t)
<1>1. Len(s) \in Nat /\ a \in Nat /\ b \in Nat /\ a \in 1 .. Len(s) + 1 /\ b + 1 \in 0 .. Len(s)
      /\ (b + 1) - 1 = b
  BY Tokens
<1>2. Part(s, 0, a, b + 1) = Operand(Denotes(s), s, a, b + 1)
  BY <1>1, PartIs
<1>3. Closed(s, a + 1, b) /\ Part(s, 2, a + 1, b) = t
  BY DEF Reads
<1>4. ~(a > b + 1)
  BY <1>1, <1>3 DEF Closed
<1>5. Denotes(s)[<<2, a + 1, (b + 1) - 1>>] = t
  BY <1>1, <1>3 DEF Part
<1>6. Part(s, 0, a, b + 1) = t
  BY <1>2, <1>4, <1>5 DEF Operand, Numbers
<1>7. /\ Closed(s, a, b + 1)
      /\ \A ops \in SUBSET {"+", "-", "*", "/"} : Splits(s, a, b + 1, ops) = {}
  BY <1>1, <1>3, ParenthesesClose
<1>8. Splits(s, a, b + 1, {"*", "/"}) = {} /\ Splits(s, a, b + 1, {"+", "-"}) = {}
  BY <1>7
<1> QED  BY <1>6, <1>7, <1>8 DEF Reads

\* What is read at a level is read at the next.
LEMMA LevelReads ==
    ASSUME NEW s \in Seq(Lexemes), NEW a \in 1 .. Len(s), NEW b \in 1 .. Len(s), NEW t,
           NEW l \in 1 .. 2, Reads(s, l - 1, a, b, t)
    PROVE  Reads(s, l, a, b, t)
<1>1. a \in 1 .. Len(s) + 1 /\ b \in 0 .. Len(s) /\ l \in {1, 2}
  BY Tokens
<1>2. Splits(s, a, b, Joining[l]) = {}
  <2>1. CASE l = 1
    BY <2>1, JoiningIs DEF Reads
  <2>2. CASE l = 2
    BY <2>2, JoiningIs DEF Reads
  <2> QED  BY <1>1, <2>1, <2>2
<1>3. Part(s, l, a, b) = Joined(Denotes(s), s, l, a, b)
  BY <1>1, PartIs
<1>4. Part(s, l, a, b) = Part(s, l - 1, a, b)
  BY <1>2, <1>3 DEF Joined, Part
<1>5. l = 1 => Splits(s, a, b, {"+", "-"}) = {}
  BY DEF Reads
<1> QED  BY <1>1, <1>4, <1>5 DEF Reads

\* Two operands are read with the operator between them, which binds the left one
\* first.
LEMMA OperatorReads ==
    ASSUME NEW s \in Seq(Lexemes), NEW a \in 1 .. Len(s), NEW m \in 1 .. Len(s), NEW b \in 1 .. Len(s),
           NEW l \in 1 .. 2, NEW L, NEW R, L # Null, R # Null,
           Reads(s, l, a, m - 1, L), Reads(s, l - 1, m + 1, b, R), s[m] \in Joining[l]
    PROVE  Reads(s, l, a, b, Bin(s[m], L, R))
<1> DEFINE at == Splits(s, a, b, Joining[l])
<1>1. Len(s) \in Nat /\ a \in Nat /\ b \in Nat /\ m \in Nat /\ m > 0 /\ a \in 1 .. Len(s) + 1
      /\ b \in 0 .. Len(s) /\ l \in {1, 2}
  BY Tokens
<1>2. s[m] \in {"+", "-", "*", "/"}
  BY <1>1, JoiningIs
<1>3. Closed(s, a, m - 1) /\ Closed(s, m + 1, b)
  BY DEF Reads
<1>4. /\ Closed(s, a, b) /\ m \in a + 1 .. b
      /\ \A ops : Splits(s, a, b, ops) = Splits(s, a, m - 1, ops)
                         \cup {k \in {m} : s[m] \in ops} \cup Splits(s, m + 1, b, ops)
  BY <1>1, <1>2, <1>3, OperatorCloses
<1>5. Splits(s, m + 1, b, Joining[l]) = {}
  <2>1. CASE l = 1
    BY <2>1, JoiningIs DEF Reads
  <2>2. CASE l = 2
    BY <2>2, JoiningIs DEF Reads
  <2> QED  BY <1>1, <2>1, <2>2
<1>6. at = Splits(s, a, m - 1, Joining[l]) \cup {m}
  BY <1>4, <1>5
<1>7. \A k \in Splits(s, a, m - 1, Joining[l]) : k \in a + 1 .. m - 1
  BY DEF Splits
<1>8. Max(at) = m /\ at # {}
  <2>1. Max(at) \in at /\ \A k \in at : k <= Max(at)
    BY <1>1, <1>6, SplitAt
  <2>2. m <= Max(at)
    BY <1>6, <2>1
  <2>3. Max(at) = m \/ Max(at) \in a + 1 .. m - 1
    BY <1>6, <1>7, <2>1
  <2>4. Max(at) \in Int
    BY <1>1, <2>3
  <2> QED  BY <1>1, <1>6, <2>2, <2>3, <2>4
<1>9. Part(s, l, a, b) = Bin(s[m], L, R)
  <2>1. Part(s, l, a, b) = Joined(Denotes(s), s, l, a, b)
    BY <1>1, PartIs
  <2>2. Denotes(s)[<<l, a, m - 1>>] = L /\ Denotes(s)[<<l - 1, m + 1, b>>] = R
    BY DEF Part, Reads
  <2>3. Part(s, l, a, b) = Join(s[m], L, R)
    BY <1>8, <2>1, <2>2 DEF Joined
  <2> QED  BY <2>3 DEF Join
<1>10. l = 1 => Splits(s, a, b, {"+", "-"}) = {}
  <2>1. ASSUME l = 1 PROVE Splits(s, a, b, {"+", "-"}) = {}
    <3>1. s[m] \notin {"+", "-"}
      BY <2>1, JoiningIs
    <3>2. Splits(s, a, m - 1, {"+", "-"}) = {} /\ Splits(s, m + 1, b, {"+", "-"}) = {}
      BY <2>1 DEF Reads
    <3> QED  BY <1>4, <3>1, <3>2
  <2> QED  BY <2>1
<1> HIDE DEF at
<1> QED  BY <1>1, <1>4, <1>9, <1>10 DEF Reads

\* What a function of the parser returns is right, if it returns a tree.
Sound(s, l, a, e) ==
    e.dag # Null => \E b \in 1 .. Len(s) : e.i = b + 1 /\ Reads(s, l, a, b, e.dag)

\* The fields of a changed result.
LEMMA Fields ==
    ASSUME NEW e, e = [dag |-> e.dag, i |-> e.i, wild |-> e.wild]
    PROVE  /\ \A u : [e EXCEPT !.dag = u].dag = u /\ [e EXCEPT !.dag = u].i = e.i
           /\ \A j : [e EXCEPT !.i = j].dag = e.dag /\ [e EXCEPT !.i = j].i = j
OBVIOUS

\* expr_unary() is right, if its calls are.
LEMMA UnarySound ==
    ASSUME NEW s \in Seq(Lexemes), NEW a \in 1 .. Len(s) + 1,
           a <= Len(s) => /\ Sound(s, 0, a + 1, Run(s)[<<"expr_unary", a + 1>>])
                          /\ Sound(s, 2, a + 1, Run(s)[<<"expr", a + 1>>])
    PROVE  Sound(s, 0, a, Run(s)[<<"expr_unary", a>>])
<1> DEFINE ts == tokenize(s)
           run == Run(s)
           u == run[<<"expr_unary", a + 1>>]
           e == run[<<"expr", a + 1>>]
<1>1. Len(s) \in Nat /\ a \in Nat
  BY Tokens
<1>2. run[<<"expr_unary", a>>] = expr_unary(run, ts, a)
  BY RunIs
<1>3. a <= Len(s) => Advances(s, a + 1, u) /\ Advances(s, a + 1, e)
  <2>1. a <= Len(s) => a + 1 \in 1 .. Len(s) + 1
    BY <1>1
  <2> QED  BY <2>1, RunIs
<1>4. /\ match(ts, a, {"+"}) <=> a <= Len(s) /\ s[a] = "+"
      /\ match(ts, a, {"-"}) <=> a <= Len(s) /\ s[a] = "-"
      /\ match(ts, a, {"("}) <=> a <= Len(s) /\ s[a] = "("
  <2>1. \A o \in Operators : match(ts, a, {o}) <=> a <= Len(s) /\ s[a] = o
    <3> TAKE o \in Operators
    <3>1. {o} \in SUBSET Operators
      OBVIOUS
    <3>2. match(ts, a, {o}) <=> a <= Len(s) /\ s[a] \in {o}
      BY <3>1, MatchIs
    <3> QED  BY <3>2, Zenon
  <2>2. {"+", "-", "("} \subseteq Operators
    BY DEF Operators
  <2> QED  BY <2>1, <2>2, Zenon
<1>5. /\ match(ts, a, {"val"}) <=> a <= Len(s) /\ s[a] \in Numbers
      /\ a <= Len(s) /\ s[a] \in Numbers => ts[a].val = <<s[a], a>>
  BY MatchIs
<1>6. a <= Len(s) => Sound(s, 0, a + 1, u) /\ Sound(s, 2, a + 1, e)
  OBVIOUS
<1>7. a <= Len(s) => e.i \in 1 .. Len(s) + 1
  BY <1>1, <1>3 DEF Advances
<1>8. a <= Len(s) => (match(ts, e.i, {")"}) <=> e.i <= Len(s) /\ s[e.i] = ")")
  <2> HAVE a <= Len(s)
  <2>1. {")"} \in SUBSET Operators
    BY DEF Operators
  <2>2. match(ts, e.i, {")"}) <=> e.i <= Len(s) /\ s[e.i] \in {")"}
    BY <1>7, <2>1, MatchIs
  <2> QED  BY <2>2, Zenon
<1> HIDE DEF ts, run, u, e
<1>9. CASE match(ts, a, {"+"})
  <2>1. expr_unary(run, ts, a) = u
    BY <1>9, Zenon DEF expr_unary, u
  <2>2. a \in 1 .. Len(s) /\ s[a] = "+" /\ Sound(s, 0, a + 1, u)
    BY <1>1, <1>4, <1>6, <1>9
  <2>3. ASSUME u.dag # Null, NEW b \in 1 .. Len(s), Reads(s, 0, a + 1, b, u.dag)
        PROVE  Reads(s, 0, a, b, u.dag)
    BY <2>2, <2>3, SignReads
  <2>4. Sound(s, 0, a, u)
    BY <2>2, <2>3 DEF Sound
  <2> QED  BY <1>2, <2>1, <2>4 DEF run
<1>10. CASE ~match(ts, a, {"+"}) /\ match(ts, a, {"-"})
  <2>1. expr_unary(run, ts, a) = IF u.dag = Null THEN u ELSE [u EXCEPT !.dag = Neg(@)]
    BY <1>10, Zenon DEF expr_unary, u
  <2>2. a \in 1 .. Len(s) /\ s[a] = "-" /\ Sound(s, 0, a + 1, u) /\ Advances(s, a + 1, u)
    BY <1>1, <1>3, <1>4, <1>6, <1>10
  <2>3. ASSUME u.dag # Null, NEW b \in 1 .. Len(s), Reads(s, 0, a + 1, b, u.dag)
        PROVE  Reads(s, 0, a, b, Neg(u.dag))
    BY <2>2, <2>3, SignReads
  <2>4. CASE u.dag = Null
    BY <1>2, <2>1, <2>4 DEF Sound, run
  <2>5. CASE u.dag # Null
    <3> DEFINE v == [u EXCEPT !.dag = Neg(u.dag)]
    <3>1. expr_unary(run, ts, a) = v
      BY <2>1, <2>5
    <3>2. u = [dag |-> u.dag, i |-> u.i, wild |-> u.wild]
      BY <2>2, Zenon DEF Advances
    <3>3. v.dag = Neg(u.dag) /\ v.i = u.i
      BY <3>2, Fields
    <3> HIDE DEF v
    <3>4. Sound(s, 0, a, v)
      BY <2>2, <2>3, <2>5, <3>3 DEF Sound
    <3> QED  BY <1>2, <3>1, <3>4 DEF run
  <2> QED  BY <2>4, <2>5
<1>11. CASE ~match(ts, a, {"+"}) /\ ~match(ts, a, {"-"})
  <2>1. expr_unary(run, ts, a) = expr_primary(run, ts, a)
    BY <1>11, Zenon DEF expr_unary
  <2>2. CASE match(ts, a, {"val"})
    <3>1. expr_primary(run, ts, a) = Parsed(Val(ts[a].val), a + 1)
      BY <2>2, Zenon DEF expr_primary
    <3>2. a \in 1 .. Len(s) /\ s[a] \in Numbers /\ ts[a].val = <<s[a], a>>
      BY <1>1, <1>5, <2>2
    <3>3. Reads(s, 0, a, a, Val(<<s[a], a>>))
      BY <3>2, NumberReads
    <3>4. Parsed(Val(ts[a].val), a + 1).dag = Val(<<s[a], a>>) /\ Parsed(Val(ts[a].val), a + 1).i = a + 1
      BY <3>2, ParsedIs
    <3>5. Sound(s, 0, a, Parsed(Val(ts[a].val), a + 1))
      BY <3>2, <3>3, <3>4 DEF Sound
    <3> QED  BY <1>2, <2>1, <3>1, <3>5 DEF run
  <2>3. CASE ~match(ts, a, {"val"}) /\ match(ts, a, {"("})
    <3>1. expr_primary(run, ts, a) = IF e.dag # Null /\ match(ts, e.i, {")"})
                                     THEN [e EXCEPT !.i = @ + 1] ELSE [e EXCEPT !.dag = Null]
      BY <2>3, Zenon DEF expr_primary, e
    <3>2. a \in 1 .. Len(s) /\ s[a] = "(" /\ Sound(s, 2, a + 1, e) /\ Advances(s, a + 1, e)
          /\ (match(ts, e.i, {")"}) <=> e.i <= Len(s) /\ s[e.i] = ")")
      <4>1. a <= Len(s) /\ s[a] = "("
        BY <1>4, <2>3, Zenon
      <4>2. match(ts, e.i, {")"}) <=> e.i <= Len(s) /\ s[e.i] = ")"
        BY <1>8, <4>1, Zenon
      <4>3. a \in 1 .. Len(s)
        BY <1>1, <4>1
      <4> QED  BY <1>3, <1>6, <4>1, <4>2, <4>3, Zenon
    <3>3. e = [dag |-> e.dag, i |-> e.i, wild |-> e.wild]
      BY <3>2, Zenon DEF Advances
    <3>4. CASE e.dag # Null /\ match(ts, e.i, {")"})
      <4> DEFINE v == [e EXCEPT !.i = e.i + 1]
      <4>1. expr_primary(run, ts, a) = v
        BY <3>1, <3>4, Zenon
      <4>2. v.dag = e.dag /\ v.i = e.i + 1
        BY <3>3, Fields
      <4>3. PICK b \in 1 .. Len(s) : e.i = b + 1 /\ Reads(s, 2, a + 1, b, e.dag)
        BY <3>2, <3>4 DEF Sound
      <4>4. e.i <= Len(s) /\ s[e.i] = ")"
        BY <3>2, <3>4, Zenon
      <4>5. b + 1 <= Len(s) /\ b + 1 \in 1 .. Len(s) /\ s[b + 1] = ")"
        BY <1>1, <4>3, <4>4
      <4>6. Reads(s, 0, a, b + 1, e.dag)
        BY <3>2, <4>3, <4>5, ParenthesesRead
      <4> HIDE DEF v
      <4>7. Sound(s, 0, a, v)
        BY <4>2, <4>3, <4>5, <4>6 DEF Sound
      <4> QED  BY <1>2, <2>1, <4>1, <4>7 DEF run
    <3>5. CASE ~(e.dag # Null /\ match(ts, e.i, {")"}))
      <4> DEFINE v == [e EXCEPT !.dag = Null]
      <4>1. expr_primary(run, ts, a) = v
        BY <3>1, <3>5, Zenon
      <4>2. v.dag = Null
        BY <3>3, Fields
      <4> HIDE DEF v
      <4>3. Sound(s, 0, a, v)
        BY <4>2 DEF Sound
      <4> QED  BY <1>2, <2>1, <4>1, <4>3 DEF run
    <3> QED  BY <3>4, <3>5, Zenon
  <2>4. CASE ~match(ts, a, {"val"}) /\ ~match(ts, a, {"("})
    <3>1. expr_primary(run, ts, a) = Parsed(Null, a)
      BY <2>4, Zenon DEF expr_primary
    <3>2. Parsed(Null, a).dag = Null
      BY ParsedIs
    <3>3. Sound(s, 0, a, Parsed(Null, a))
      BY <3>2 DEF Sound
    <3> QED  BY <1>2, <2>1, <3>1, <3>3 DEF run
  <2> QED  BY <2>2, <2>3, <2>4, Zenon
<1> QED  BY <1>9, <1>10, <1>11, Zenon

\* A turn of the loop over factors is right, if its call is.
LEMMA FactorSound ==
    ASSUME NEW s \in Seq(Lexemes), NEW a \in 1 .. Len(s), NEW e, Advances(s, a, e), Sound(s, 1, a, e),
           e.dag # Null /\ e.i <= Len(s) =>
             Sound(s, 0, e.i + 1, Run(s)[<<"expr_unary", e.i + 1>>])
    PROVE  Sound(s, 1, a, expr_multiplicative_(Run(s), tokenize(s), e))
<1> DEFINE ts == tokenize(s)
           r == Run(s)[<<"expr_unary", e.i + 1>>]
           w == [r EXCEPT !.dag = Bin(ts[e.i].op, e.dag, @)]
<1>1. Len(s) \in Nat /\ e.i \in 1 .. Len(s) + 1
  BY Tokens DEF Advances
<1>2. {"*", "/"} \in SUBSET Operators
  BY DEF Operators
<1>3. match(ts, e.i, {"*", "/"}) <=> e.i <= Len(s) /\ s[e.i] \in {"*", "/"}
  BY <1>1, <1>2, MatchIs
<1>4. e.i <= Len(s) /\ s[e.i] \in {"*", "/"} => ts[e.i].op = s[e.i]
  BY <1>1, <1>2, MatchIs
<1>5. CASE ~(e.dag # Null /\ match(ts, e.i, {"*", "/"}))
  <2>1. expr_multiplicative_(Run(s), ts, e) = e
    BY <1>5, Zenon DEF expr_multiplicative_
  <2> QED  BY <2>1
<1>6. CASE e.dag # Null /\ match(ts, e.i, {"*", "/"})
  <2>1. expr_multiplicative_(Run(s), ts, e) = IF r.dag = Null THEN r ELSE w
    BY <1>6, Zenon DEF expr_multiplicative_
  <2>2. e.i <= Len(s) /\ s[e.i] \in {"*", "/"}
    BY <1>3, <1>6, Zenon
  <2>3. Sound(s, 0, e.i + 1, r) /\ Advances(s, e.i + 1, r)
    <3>1. e.i + 1 \in 1 .. Len(s) + 1
      BY <1>1, <2>2
    <3> QED  BY <1>6, <2>2, <3>1, RunIs
  <2>4. w = [r EXCEPT !.dag = Bin(s[e.i], e.dag, r.dag)]
    BY <1>4, <2>2
  <2>5. r = [dag |-> r.dag, i |-> r.i, wild |-> r.wild]
    BY <2>3, Zenon DEF Advances
  <2>6. [r EXCEPT !.dag = Bin(s[e.i], e.dag, r.dag)].dag = Bin(s[e.i], e.dag, r.dag)
        /\ [r EXCEPT !.dag = Bin(s[e.i], e.dag, r.dag)].i = r.i
    BY <2>5, Fields
  <2> HIDE DEF r, ts, w
  <2>7. w.dag = Bin(s[e.i], e.dag, r.dag) /\ w.i = r.i
    BY <2>4, <2>6
  <2>8. CASE r.dag = Null
    BY <2>1, <2>8 DEF Sound, ts
  <2>9. CASE r.dag # Null
    <3>1. PICK c \in 1 .. Len(s) : e.i = c + 1 /\ Reads(s, 1, a, c, e.dag)
      BY <1>6 DEF Sound
    <3>2. PICK b \in 1 .. Len(s) : r.i = b + 1 /\ Reads(s, 0, e.i + 1, b, r.dag)
      BY <2>3, <2>9 DEF Sound
    <3>3. e.i \in 1 .. Len(s) /\ e.i - 1 = c
      BY <1>1, <2>2, <3>1
    <3>4. s[e.i] \in Joining[1] /\ 1 - 1 = 0 /\ 1 \in 1 .. 2
      BY <2>2, JoiningIs
    <3>5. Reads(s, 1, a, e.i - 1, e.dag) /\ Reads(s, 1 - 1, e.i + 1, b, r.dag)
      BY <3>1, <3>2, <3>3, <3>4
    <3>6. Reads(s, 1, a, b, Bin(s[e.i], e.dag, r.dag))
      BY <1>6, <2>9, <3>3, <3>4, <3>5, OperatorReads
    <3>7. Sound(s, 1, a, w)
      BY <2>7, <3>2, <3>6 DEF Sound
    <3>8. expr_multiplicative_(Run(s), ts, e) = w
      BY <2>1, <2>9
    <3> QED  BY <3>7, <3>8 DEF ts
  <2> QED  BY <2>8, <2>9
<1> QED  BY <1>5, <1>6, Zenon

\* A turn of the loop over terms is right, if its call is.
LEMMA TermSound ==
    ASSUME NEW s \in Seq(Lexemes), NEW a \in 1 .. Len(s), NEW e, Advances(s, a, e), Sound(s, 2, a, e),
           e.dag # Null /\ e.i <= Len(s) =>
             Sound(s, 1, e.i + 1, Run(s)[<<"expr_multiplicative", e.i + 1>>])
    PROVE  Sound(s, 2, a, expr_additive_(Run(s), tokenize(s), e))
<1> DEFINE ts == tokenize(s)
           r == Run(s)[<<"expr_multiplicative", e.i + 1>>]
           n == [dag |-> Null, i |-> r.i, wild |-> TRUE]
           w == [r EXCEPT !.dag = Bin(ts[e.i].op, e.dag, @)]
<1>1. Len(s) \in Nat /\ e.i \in 1 .. Len(s) + 1
  BY Tokens DEF Advances
<1>2. {"+", "-"} \in SUBSET Operators
  BY DEF Operators
<1>3. match(ts, e.i, {"+", "-"}) <=> e.i <= Len(s) /\ s[e.i] \in {"+", "-"}
  BY <1>1, <1>2, MatchIs
<1>4. e.i <= Len(s) /\ s[e.i] \in {"+", "-"} => ts[e.i].op = s[e.i]
  BY <1>1, <1>2, MatchIs
<1>5. CASE ~(e.dag # Null /\ match(ts, e.i, {"+", "-"}))
  <2>1. expr_additive_(Run(s), ts, e) = e
    BY <1>5, Zenon DEF expr_additive_
  <2> QED  BY <2>1
<1>6. CASE e.dag # Null /\ match(ts, e.i, {"+", "-"})
  <2>1. expr_additive_(Run(s), ts, e) = IF r.dag = Null THEN n ELSE w
    BY <1>6, Zenon DEF expr_additive_
  <2>2. e.i <= Len(s) /\ s[e.i] \in {"+", "-"}
    BY <1>3, <1>6, Zenon
  <2>3. Sound(s, 1, e.i + 1, r) /\ Advances(s, e.i + 1, r)
    <3>1. e.i + 1 \in 1 .. Len(s) + 1
      BY <1>1, <2>2
    <3> QED  BY <1>6, <2>2, <3>1, RunIs
  <2>4. w = [r EXCEPT !.dag = Bin(s[e.i], e.dag, r.dag)]
    BY <1>4, <2>2
  <2>5. r = [dag |-> r.dag, i |-> r.i, wild |-> r.wild]
    BY <2>3, Zenon DEF Advances
  <2>6. [r EXCEPT !.dag = Bin(s[e.i], e.dag, r.dag)].dag = Bin(s[e.i], e.dag, r.dag)
        /\ [r EXCEPT !.dag = Bin(s[e.i], e.dag, r.dag)].i = r.i
    BY <2>5, Fields
  <2> HIDE DEF r, ts, w
  <2>7. w.dag = Bin(s[e.i], e.dag, r.dag) /\ w.i = r.i
    BY <2>4, <2>6
  <2>8. CASE r.dag = Null
    <3>1. \A i, x : [dag |-> Null, i |-> i, wild |-> x].dag = Null
      OBVIOUS
    <3>2. n.dag = Null
      BY <3>1, Zenon DEF n
    <3> HIDE DEF n
    <3> QED  BY <2>1, <2>8, <3>2 DEF Sound, ts
  <2>9. CASE r.dag # Null
    <3>1. PICK c \in 1 .. Len(s) : e.i = c + 1 /\ Reads(s, 2, a, c, e.dag)
      BY <1>6 DEF Sound
    <3>2. PICK b \in 1 .. Len(s) : r.i = b + 1 /\ Reads(s, 1, e.i + 1, b, r.dag)
      BY <2>3, <2>9 DEF Sound
    <3>3. e.i \in 1 .. Len(s) /\ e.i - 1 = c
      BY <1>1, <2>2, <3>1
    <3>4. s[e.i] \in Joining[2] /\ 2 - 1 = 1 /\ 2 \in 1 .. 2
      BY <2>2, JoiningIs
    <3>5. Reads(s, 2, a, e.i - 1, e.dag) /\ Reads(s, 2 - 1, e.i + 1, b, r.dag)
      BY <3>1, <3>2, <3>3, <3>4
    <3>6. Reads(s, 2, a, b, Bin(s[e.i], e.dag, r.dag))
      BY <1>6, <2>9, <3>3, <3>4, <3>5, OperatorReads
    <3>7. Sound(s, 2, a, w)
      BY <2>7, <3>2, <3>6 DEF Sound
    <3>8. expr_additive_(Run(s), ts, e) = w
      BY <2>1, <2>9
    <3> QED  BY <3>7, <3>8 DEF ts
  <2> QED  BY <2>8, <2>9
<1> QED  BY <1>5, <1>6, Zenon

\* All calls are right: none of them is the first that is not.
LEMMA AllSound ==
    ASSUME NEW s \in Seq(Lexemes)
    PROVE  \A a \in 1 .. Len(s) + 1 : /\ Sound(s, 0, a, Run(s)[<<"expr_unary", a>>])
                                      /\ Sound(s, 1, a, Run(s)[<<"expr_multiplicative", a>>])
                                      /\ Sound(s, 2, a, Run(s)[<<"expr", a>>])
<1> DEFINE ts == tokenize(s)
           C == Calls(ts)
           Right(c) == Sound(s, Rank(c), c[2], Run(s)[c])
           Wrong == {c \in C : ~Right(c)}
<1>1. Len(s) \in Nat /\ Len(ts) = Len(s)
  BY Tokens
<1>2. ASSUME NEW k \in {"expr_unary", "expr_multiplicative", "expr"}, NEW i \in 1 .. Len(s) + 1
      PROVE  <<k, i>> \in C
  BY <1>1 DEF Calls
<1>3. /\ \A i : Rank(<<"expr_unary", i>>) = 0
      /\ \A i : Rank(<<"expr_multiplicative", i>>) = 1
      /\ \A i : Rank(<<"expr", i>>) = 2
  BY DEF Rank
<1>4. ASSUME Wrong # {} PROVE FALSE
  <2>1. PICK c \in Wrong : \A y \in Wrong : ~Before(y, c)
    BY <1>4, CallsWellFounded
  <2> DEFINE a == c[2]
  <2>2. c \in C /\ ~Right(c)
    OBVIOUS
  <2>3. a \in 1 .. Len(s) + 1 /\ c = <<c[1], a>>
        /\ c[1] \in {"expr_unary", "expr_multiplicative", "expr"} /\ Rank(c) \in 0 .. 2
    BY <1>1, <2>2 DEF Calls, Rank
  <2>4. ASSUME NEW k \in {"expr_unary", "expr_multiplicative", "expr"}, NEW i \in 1 .. Len(s) + 1,
               i > a \/ (i = a /\ Rank(<<k, i>>) < Rank(c))
        PROVE  Sound(s, Rank(<<k, i>>), i, Run(s)[<<k, i>>])
    <3>1. Before(<<k, i>>, c)
      BY <2>4 DEF Before
    <3>2. Right(<<k, i>>)
      BY <1>2, <2>1, <3>1
    <3> QED  BY <3>2
  <2> HIDE DEF Wrong, Right, C
  <2>5. \A i \in 1 .. Len(s) + 1 : i > a => /\ Sound(s, 0, i, Run(s)[<<"expr_unary", i>>])
                                            /\ Sound(s, 1, i, Run(s)[<<"expr_multiplicative", i>>])
                                            /\ Sound(s, 2, i, Run(s)[<<"expr", i>>])
    BY <1>3, <2>4
  <2>6. CASE c[1] = "expr_unary"
    <3>1. a <= Len(s) => a + 1 \in 1 .. Len(s) + 1 /\ a + 1 > a
      BY <1>1, <2>3
    <3>2. Sound(s, 0, a, Run(s)[<<"expr_unary", a>>])
      BY <2>3, <2>5, <3>1, UnarySound
    <3>3. c = <<"expr_unary", a>>
      BY <2>3, <2>6
    <3>4. Rank(c) = 0
      BY <1>3, <3>3
    <3> QED  BY <2>2, <3>2, <3>3, <3>4 DEF Right
  <2>7. CASE c[1] = "expr_multiplicative"
    <3> DEFINE T == MultTurns(Run(s), ts, a)
               U == {n \in Nat : Advances(s, a, T[n]) /\ Sound(s, 1, a, T[n])}
    <3>0. c = <<"expr_multiplicative", a>>
      BY <2>3, <2>7
    <3>1. /\ expr_multiplicative(Run(s), ts, a) = T[Len(s)]
          /\ T[0] = Run(s)[<<"expr_unary", a>>]
          /\ NextTurnMult(Run(s), ts, a)
      BY <1>1, MultTurnsIs
    <3>2. Advances(s, a, T[0])
      BY <2>3, <3>1, RunIs
    <3>3. Sound(s, 0, a, T[0])
      <4>1. Rank(<<"expr_unary", a>>) < Rank(c)
        BY <1>3, <3>0
      <4>2. Sound(s, Rank(<<"expr_unary", a>>), a, Run(s)[<<"expr_unary", a>>])
        BY <2>3, <2>4, <4>1
      <4> QED  BY <1>3, <3>1, <4>2
    <3>4. ASSUME NEW e, Advances(s, a, e), e.dag # Null PROVE a \in 1 .. Len(s)
      BY <1>1, <2>3, <3>4 DEF Advances
    <3>5. Sound(s, 1, a, T[0])
      <4>1. ASSUME T[0].dag # Null, NEW b \in 1 .. Len(s), Reads(s, 0, a, b, T[0].dag)
            PROVE  Reads(s, 1, a, b, T[0].dag)
        <5>1. a \in 1 .. Len(s) /\ 1 \in 1 .. 2 /\ 1 - 1 = 0
          BY <3>2, <3>4, <4>1
        <5> QED  BY <4>1, <5>1, LevelReads
      <4> QED  BY <3>3, <4>1 DEF Sound
    <3>6. ASSUME NEW n \in Nat, Advances(s, a, T[n]), Sound(s, 1, a, T[n])
          PROVE  Advances(s, a, T[n + 1]) /\ Sound(s, 1, a, T[n + 1])
      <4> DEFINE e == T[n]
      <4>1. T[n + 1] = expr_multiplicative_(Run(s), ts, e)
        BY <3>1 DEF NextTurnMult
      <4>2. Advances(s, a, e) /\ Sound(s, 1, a, e)
        BY <3>6
      <4> HIDE DEF e, T
      <4>3. e.dag # Null /\ e.i <= Len(s) =>
              /\ Sound(s, 0, e.i + 1, Run(s)[<<"expr_unary", e.i + 1>>])
              /\ Advances(s, e.i + 1, Run(s)[<<"expr_unary", e.i + 1>>])
        <5>1. e.dag # Null /\ e.i <= Len(s) => e.i + 1 \in 1 .. Len(s) + 1 /\ e.i + 1 > a
          BY <1>1, <2>3, <4>2 DEF Advances
        <5> QED  BY <2>5, <5>1, RunIs
      <4>4. Advances(s, a, expr_multiplicative_(Run(s), ts, e))
        BY <2>3, <4>2, <4>3, MultTurn
      <4>5. Sound(s, 1, a, expr_multiplicative_(Run(s), ts, e))
        <5>1. CASE e.dag # Null
          <6>1. a \in 1 .. Len(s)
            BY <3>4, <4>2, <5>1
          <6> QED  BY <4>2, <4>3, <6>1, FactorSound
        <5>2. CASE e.dag = Null
          <6>1. expr_multiplicative_(Run(s), ts, e) = e
            BY <5>2, Zenon DEF expr_multiplicative_
          <6> QED  BY <4>2, <6>1
        <5> QED  BY <5>1, <5>2
      <4> QED  BY <4>1, <4>4, <4>5
    <3>7. 0 \in U /\ \A n \in U : n + 1 \in U
      BY <3>2, <3>5, <3>6
    <3>8. U = Nat
      <4>1. U \in SUBSET Nat
        OBVIOUS
      <4> HIDE DEF U
      <4> QED  BY <3>7, <4>1, Induction
    <3>9. Sound(s, 1, a, T[Len(s)])
      BY <1>1, <3>8
    <3>10. Run(s)[<<"expr_multiplicative", a>>] = T[Len(s)]
      BY <2>3, <3>1, RunIs
    <3>11. Rank(c) = 1
      BY <1>3, <3>0
    <3> QED  BY <2>2, <3>0, <3>9, <3>10, <3>11 DEF Right
  <2>8. CASE c[1] = "expr"
    <3> DEFINE T == AddTurns(Run(s), ts, a)
               U == {n \in Nat : Advances(s, a, T[n]) /\ Sound(s, 2, a, T[n])}
    <3>0. c = <<"expr", a>>
      BY <2>3, <2>8
    <3>1. /\ expr(Run(s), ts, a) = T[Len(s)]
          /\ T[0] = Run(s)[<<"expr_multiplicative", a>>]
          /\ NextTurnAdd(Run(s), ts, a)
      BY <1>1, AddTurnsIs
    <3>2. Advances(s, a, T[0])
      BY <2>3, <3>1, RunIs
    <3>3. Sound(s, 1, a, T[0])
      <4>1. Rank(<<"expr_multiplicative", a>>) < Rank(c)
        BY <1>3, <3>0
      <4>2. Sound(s, Rank(<<"expr_multiplicative", a>>), a, Run(s)[<<"expr_multiplicative", a>>])
        BY <2>3, <2>4, <4>1
      <4> QED  BY <1>3, <3>1, <4>2
    <3>4. ASSUME NEW e, Advances(s, a, e), e.dag # Null PROVE a \in 1 .. Len(s)
      BY <1>1, <2>3, <3>4 DEF Advances
    <3>5. Sound(s, 2, a, T[0])
      <4>1. ASSUME T[0].dag # Null, NEW b \in 1 .. Len(s), Reads(s, 1, a, b, T[0].dag)
            PROVE  Reads(s, 2, a, b, T[0].dag)
        <5>1. a \in 1 .. Len(s) /\ 2 \in 1 .. 2 /\ 2 - 1 = 1
          BY <3>2, <3>4, <4>1
        <5> QED  BY <4>1, <5>1, LevelReads
      <4> QED  BY <3>3, <4>1 DEF Sound
    <3>6. ASSUME NEW n \in Nat, Advances(s, a, T[n]), Sound(s, 2, a, T[n])
          PROVE  Advances(s, a, T[n + 1]) /\ Sound(s, 2, a, T[n + 1])
      <4> DEFINE e == T[n]
      <4>1. T[n + 1] = expr_additive_(Run(s), ts, e)
        BY <3>1 DEF NextTurnAdd
      <4>2. Advances(s, a, e) /\ Sound(s, 2, a, e)
        BY <3>6
      <4> HIDE DEF e, T
      <4>3. e.dag # Null /\ e.i <= Len(s) =>
              /\ Sound(s, 1, e.i + 1, Run(s)[<<"expr_multiplicative", e.i + 1>>])
              /\ Advances(s, e.i + 1, Run(s)[<<"expr_multiplicative", e.i + 1>>])
        <5>1. e.dag # Null /\ e.i <= Len(s) => e.i + 1 \in 1 .. Len(s) + 1 /\ e.i + 1 > a
          BY <1>1, <2>3, <4>2 DEF Advances
        <5> QED  BY <2>5, <5>1, RunIs
      <4>4. Advances(s, a, expr_additive_(Run(s), ts, e))
        BY <2>3, <4>2, <4>3, AddTurn
      <4>5. Sound(s, 2, a, expr_additive_(Run(s), ts, e))
        <5>1. CASE e.dag # Null
          <6>1. a \in 1 .. Len(s)
            BY <3>4, <4>2, <5>1
          <6> QED  BY <4>2, <4>3, <6>1, TermSound
        <5>2. CASE e.dag = Null
          <6>1. expr_additive_(Run(s), ts, e) = e
            BY <5>2, Zenon DEF expr_additive_
          <6> QED  BY <4>2, <6>1
        <5> QED  BY <5>1, <5>2
      <4> QED  BY <4>1, <4>4, <4>5
    <3>7. 0 \in U /\ \A n \in U : n + 1 \in U
      BY <3>2, <3>5, <3>6
    <3>8. U = Nat
      <4>1. U \in SUBSET Nat
        OBVIOUS
      <4> HIDE DEF U
      <4> QED  BY <3>7, <4>1, Induction
    <3>9. Sound(s, 2, a, T[Len(s)])
      BY <1>1, <3>8
    <3>10. Run(s)[<<"expr", a>>] = T[Len(s)]
      BY <2>3, <3>1, RunIs
    <3>11. Rank(c) = 2
      BY <1>3, <3>0
    <3> QED  BY <2>2, <3>0, <3>9, <3>10, <3>11 DEF Right
  <2> QED  BY <2>3, <2>6, <2>7, <2>8
<1>5. \A c \in C : Right(c)
  BY <1>4
<1> HIDE DEF C
<1>6. ASSUME NEW a \in 1 .. Len(s) + 1
      PROVE  /\ Sound(s, 0, a, Run(s)[<<"expr_unary", a>>])
             /\ Sound(s, 1, a, Run(s)[<<"expr_multiplicative", a>>])
             /\ Sound(s, 2, a, Run(s)[<<"expr", a>>])
  <2>1. \A k \in {"expr_unary", "expr_multiplicative", "expr"} :
          Sound(s, Rank(<<k, a>>), a, Run(s)[<<k, a>>])
    BY <1>2, <1>5
  <2> QED  BY <1>3, <2>1
<1> QED  BY <1>6

\* Soundness: a tree that the parser returns is what the argument denotes.
LEMMA ParsesSoundly ==
    ASSUME NEW s \in Seq(Lexemes), top(tokenize(s)).dag # Null
    PROVE  /\ top(tokenize(s)).dag = Meaning(s)
           /\ top(tokenize(s)).dag \in Dags(Values(s), Len(s))
<1> DEFINE e == Run(s)[<<"expr", 1>>]
<1>1. Len(s) \in Nat /\ Len(tokenize(s)) = Len(s) /\ 1 \in 1 .. Len(s) + 1
  BY Tokens
<1>2. Advances(s, 1, e) /\ Sound(s, 2, 1, e)
  BY <1>1, RunIs, AllSound
<1>3. top(tokenize(s)) = IF e.i <= Len(s) THEN [e EXCEPT !.dag = Null] ELSE e
  BY <1>1 DEF top, Run
<1> HIDE DEF e
<1>4. e = [dag |-> e.dag, i |-> e.i, wild |-> e.wild]
  BY <1>2, Zenon DEF Advances
<1>5. [e EXCEPT !.dag = Null].dag = Null
  BY <1>4, Fields
<1>6. ~(e.i <= Len(s)) /\ top(tokenize(s)) = e /\ e.dag # Null
  BY <1>3, <1>5
<1>7. PICK b \in 1 .. Len(s) : e.i = b + 1 /\ Reads(s, 2, 1, b, e.dag)
  BY <1>2, <1>6 DEF Sound
<1>8. b = Len(s)
  BY <1>1, <1>6, <1>7
<1>9. e.dag = Meaning(s)
  BY <1>7, <1>8 DEF Reads, Part, Meaning
<1>10. e.dag \in Dags(Values(s), Len(s))
  <2>1. e.i - 1 - 1 <= Len(s)
    BY <1>1, <1>7
  <2> QED  BY <1>1, <1>2, <1>6, <2>1, FewLevels
<1> QED  BY <1>6, <1>9, <1>10

\* The message for a missing operand is made only if the argument denotes nothing.
LEMMA WildRefuses ==
    ASSUME NEW s \in Seq(Lexemes), top(tokenize(s)).wild
    PROVE  Meaning(s) = Null
<1>1. Parsed(Meaning(s), Len(s) + 1).wild = FALSE
  BY DEF Parsed
<1>2. SUFFICES ASSUME Meaning(s) # Null PROVE FALSE
  OBVIOUS
<1>3. top(tokenize(s)) = Parsed(Meaning(s), Len(s) + 1)
  BY <1>2, Accepts
<1> QED  BY <1>1, <1>3, Zenon
-----------------------------------------------------------------------------
Instructions == UNION {Instruction(n) : n \in Nat}

\* What an instruction puts into its variable.
Holds(value, c) ==
    IF c.op = "val" THEN Val(c.val)
    ELSE IF c.op = "neg" THEN Neg(value[c.right])
    ELSE Bin(c.op, value[c.left], value[c.right])

\* Every number of c was written as it is.
AsWritten(c) == \A k \in 1 .. Len(c) : c[k].op = "val" => c[k].val[1] = "num"

\* The instructions c may follow n others for the tree t: they use only variables
\* that are declared and the numbers of the tree, and wherever they stand at that place
\* the last one holds t, if the numbers are written as they are.
Generated(V, t, n, c) ==
    /\ c \in Seq(Instructions) /\ Len(c) > 0
    /\ \A k \in 1 .. Len(c) : c[k] \in Instruction(n + k)
    /\ \A k \in 1 .. Len(c) : c[k].op = "val" => \E v \in V : c[k].val = Printed(v)
    /\ AsWritten(c) =>
         \A value : (\A k \in 1 .. Len(c) : value[n + k] = Holds(value, c[k])) =>
                      value[n + Len(c)] = t

\* The code for a number.
LEMMA NumberGenerated ==
    ASSUME NEW V \in SUBSET (Numbers \X Nat), NEW v \in V, NEW n \in Nat
    PROVE  Generated(V, Val(v), n, <<[op |-> "val", val |-> Printed(v)]>>)
<1> DEFINE x == [op |-> "val", val |-> Printed(v)]
           c == <<x>>
<1>1. v \in Numbers \X Nat
  OBVIOUS
<1>2. Printed(v) \in {"num", "rounded", "word"} \X Nat
  BY <1>1 DEF Printed, Numbers
<1>3. \A k \in Nat : x \in Instruction(k)
  BY <1>2 DEF Instruction
<1>4. x \in Instructions
  BY <1>3 DEF Instructions
<1>5. Len(c) = 1 /\ c[1] = x
  OBVIOUS
<1>6. c \in Seq(Instructions)
  BY <1>4
<1>7. \A k \in 1 .. Len(c) : c[k] \in Instruction(n + k)
  BY <1>3, <1>5
<1>8. ASSUME AsWritten(c), NEW value,
             \A k \in 1 .. Len(c) : value[n + k] = Holds(value, c[k])
      PROVE  value[n + Len(c)] = Val(v)
  <2>1. Printed(v) = v
    <3>1. x.op = "val" /\ x.val = Printed(v)
      OBVIOUS
    <3>2. Printed(v)[1] = "num"
      <4> HIDE DEF x, c
      <4> QED  BY <1>5, <1>8, <3>1 DEF AsWritten
    <3> QED  BY <1>1, <3>2 DEF Printed
  <2>2. value[n + 1] = Holds(value, x)
    BY <1>5, <1>8
  <2>3. x.op = "val" /\ x.val = v
    BY <2>1
  <2> HIDE DEF x
  <2>4. Holds(value, x) = Val(v)
    BY <2>3 DEF Holds
  <2> QED  BY <1>5, <2>2, <2>4
<1>9. \A k \in 1 .. Len(c) : c[k].op = "val" => \E u \in V : c[k].val = Printed(u)
  <2>1. x.val = Printed(v)
    OBVIOUS
  <2> HIDE DEF x, c
  <2> QED  BY <1>5, <2>1
<1> HIDE DEF c
<1> QED  BY <1>5, <1>6, <1>7, <1>8, <1>9 DEF Generated, c

\* The code for a negated tree.
LEMMA NegationGenerated ==
    ASSUME NEW V, NEW t, NEW n \in Nat, NEW c, Generated(V, t, n, c)
    PROVE  Generated(V, Neg(t), n, Append(c, [op |-> "neg", right |-> n + Len(c)]))
<1> DEFINE x == [op |-> "neg", right |-> n + Len(c)]
           d == Append(c, x)
<1>1. c \in Seq(Instructions) /\ Len(c) > 0 /\ Len(c) \in Nat
  BY DEF Generated
<1>2. x \in Instruction(n + (Len(c) + 1))
  <2>1. n + Len(c) \in 1 .. (n + (Len(c) + 1)) - 1
    BY <1>1
  <2> QED  BY <2>1 DEF Instruction
<1>3. x \in Instructions
  BY <1>1, <1>2 DEF Instructions
<1>4. d \in Seq(Instructions) /\ Len(d) = Len(c) + 1 /\ d[Len(c) + 1] = x
      /\ \A k \in 1 .. Len(c) : d[k] = c[k]
  <2> HIDE DEF x
  <2> QED  BY <1>1, <1>3, AppendProperties
<1>5. \A k \in 1 .. Len(d) : k \in 1 .. Len(c) \/ k = Len(c) + 1
  BY <1>1, <1>4
<1>6. \A k \in 1 .. Len(d) : d[k] \in Instruction(n + k)
  <2> HIDE DEF d, x
  <2> QED  BY <1>2, <1>4, <1>5 DEF Generated
<1>7. ASSUME AsWritten(d), NEW value,
             \A k \in 1 .. Len(d) : value[n + k] = Holds(value, d[k])
      PROVE  value[n + Len(d)] = Neg(t)
  <2>1. value[n + Len(c)] = t
    <3>1. \A k \in 1 .. Len(c) : k \in 1 .. Len(d)
      BY <1>1, <1>4
    <3>2. \A k \in 1 .. Len(c) : value[n + k] = Holds(value, c[k])
      BY <1>4, <1>7, <3>1
    <3> HIDE DEF d, x
    <3>3. AsWritten(c)
      BY <1>4, <1>7, <3>1 DEF AsWritten
    <3> QED  BY <3>2, <3>3 DEF Generated
  <2>2. value[n + Len(d)] = Holds(value, x)
    <3>1. Len(d) \in 1 .. Len(d)
      BY <1>1, <1>4
    <3> HIDE DEF d, x
    <3> QED  BY <1>4, <1>7, <3>1
  <2>3. x.op = "neg" /\ x.right = n + Len(c)
    OBVIOUS
  <2> HIDE DEF x
  <2>4. Holds(value, x) = Neg(value[n + Len(c)])
    BY <2>3 DEF Holds
  <2> QED  BY <2>1, <2>2, <2>4
<1>8. Len(d) > 0
  BY <1>1, <1>4
<1>9. \A k \in 1 .. Len(d) : d[k].op = "val" => \E u \in V : d[k].val = Printed(u)
  <2>1. x.op # "val"
    OBVIOUS
  <2> HIDE DEF d, x
  <2> QED  BY <1>4, <1>5, <2>1 DEF Generated
<1> HIDE DEF d, x
<1> QED  BY <1>4, <1>6, <1>7, <1>8, <1>9 DEF Generated, d, x

\* The code for an operator, behind that of its operands.
LEMMA OperationGenerated ==
    ASSUME NEW V, NEW l, NEW r, NEW o \in {"+", "-", "*", "/"}, NEW n \in Nat,
           NEW c, Generated(V, l, n, c), NEW d, Generated(V, r, n + Len(c), d)
    PROVE  Generated(V, Bin(o, l, r), n,
                     Append(c \o d, [op |-> o, left |-> n + Len(c), right |-> n + Len(c) + Len(d)]))
<1> DEFINE x == [op |-> o, left |-> n + Len(c), right |-> n + Len(c) + Len(d)]
           b == c \o d
           e == Append(b, x)
<1>1. c \in Seq(Instructions) /\ Len(c) > 0 /\ Len(c) \in Nat
      /\ d \in Seq(Instructions) /\ Len(d) > 0 /\ Len(d) \in Nat
  BY DEF Generated
<1>2. x \in Instruction(n + (Len(c) + Len(d) + 1))
  <2>1. /\ n + Len(c) \in 1 .. (n + (Len(c) + Len(d) + 1)) - 1
        /\ n + Len(c) + Len(d) \in 1 .. (n + (Len(c) + Len(d) + 1)) - 1
    BY <1>1
  <2> QED  BY <2>1 DEF Instruction
<1>3. x \in Instructions
  BY <1>1, <1>2 DEF Instructions
<1>4. /\ b \in Seq(Instructions) /\ Len(b) = Len(c) + Len(d)
      /\ \A k \in 1 .. Len(c) : b[k] = c[k]
      /\ \A k \in 1 .. Len(d) : b[Len(c) + k] = d[k]
  <2>1. /\ b \in Seq(Instructions) /\ Len(b) = Len(c) + Len(d)
        /\ \A i \in 1 .. Len(c) + Len(d) : b[i] = IF i <= Len(c) THEN c[i] ELSE d[i - Len(c)]
    BY <1>1, ConcatProperties
  <2>2. ASSUME NEW k \in 1 .. Len(d) PROVE b[Len(c) + k] = d[k]
    <3>1. Len(c) + k \in 1 .. Len(c) + Len(d) /\ ~(Len(c) + k <= Len(c)) /\ (Len(c) + k) - Len(c) = k
      BY <1>1
    <3> HIDE DEF b
    <3> QED  BY <2>1, <3>1
  <2>3. ASSUME NEW k \in 1 .. Len(c) PROVE b[k] = c[k]
    <3>1. k \in 1 .. Len(c) + Len(d) /\ k <= Len(c)
      BY <1>1
    <3> HIDE DEF b
    <3> QED  BY <2>1, <3>1
  <2> HIDE DEF b
  <2> QED  BY <2>1, <2>2, <2>3
<1>5. /\ e \in Seq(Instructions) /\ Len(e) = Len(c) + Len(d) + 1
      /\ e[Len(c) + Len(d) + 1] = x
      /\ \A k \in 1 .. Len(c) : e[k] = c[k]
      /\ \A k \in 1 .. Len(d) : e[Len(c) + k] = d[k]
  <2> HIDE DEF x, b
  <2>1. /\ e \in Seq(Instructions) /\ Len(e) = Len(b) + 1 /\ e[Len(b) + 1] = x
        /\ \A k \in 1 .. Len(b) : e[k] = b[k]
    BY <1>3, <1>4, AppendProperties
  <2>2. /\ \A k \in 1 .. Len(c) : k \in 1 .. Len(b)
        /\ \A k \in 1 .. Len(d) : Len(c) + k \in 1 .. Len(b)
    BY <1>1, <1>4
  <2> HIDE DEF e
  <2> QED  BY <1>4, <2>1, <2>2
<1> HIDE DEF e, b, x
<1>6. \A k \in 1 .. Len(e) :
        \/ k \in 1 .. Len(c)
        \/ k - Len(c) \in 1 .. Len(d) /\ Len(c) + (k - Len(c)) = k
             /\ (n + Len(c)) + (k - Len(c)) = n + k
        \/ k = Len(c) + Len(d) + 1
  <2>1. ASSUME NEW p \in Nat, NEW q \in Nat, NEW k \in 1 .. p + q + 1
        PROVE  /\ k \in 1 .. p \/ k - p \in 1 .. q \/ k = p + q + 1
               /\ p + (k - p) = k /\ (n + p) + (k - p) = n + k
    OBVIOUS
  <2> QED  BY <1>1, <1>5, <2>1
<1>7. ASSUME NEW k \in 1 .. Len(e) PROVE e[k] \in Instruction(n + k)
  <2>1. CASE k \in 1 .. Len(c)
    BY <1>5, <2>1 DEF Generated
  <2>2. CASE /\ k - Len(c) \in 1 .. Len(d) /\ Len(c) + (k - Len(c)) = k
             /\ (n + Len(c)) + (k - Len(c)) = n + k
    <3>1. d[k - Len(c)] \in Instruction((n + Len(c)) + (k - Len(c)))
      BY <2>2 DEF Generated
    <3>2. e[Len(c) + (k - Len(c))] = d[k - Len(c)]
      BY <1>5, <2>2
    <3> QED  BY <2>2, <3>1, <3>2
  <2>3. CASE k = Len(c) + Len(d) + 1
    BY <1>2, <1>5, <2>3
  <2> QED  BY <1>6, <2>1, <2>2, <2>3
<1>8. ASSUME AsWritten(e), NEW value,
             \A k \in 1 .. Len(e) : value[n + k] = Holds(value, e[k])
      PROVE  value[n + Len(e)] = Bin(o, l, r)
  <2>1. value[n + Len(c)] = l
    <3>1. \A k \in 1 .. Len(c) : k \in 1 .. Len(e)
      BY <1>1, <1>5
    <3>2. \A k \in 1 .. Len(c) : value[n + k] = Holds(value, c[k])
      BY <1>5, <1>8, <3>1
    <3>3. AsWritten(c)
      BY <1>5, <1>8, <3>1 DEF AsWritten
    <3> QED  BY <3>2, <3>3 DEF Generated
  <2>2. value[(n + Len(c)) + Len(d)] = r
    <3>1. ASSUME NEW k \in 1 .. Len(d)
          PROVE  value[(n + Len(c)) + k] = Holds(value, d[k])
      <4>1. Len(c) + k \in 1 .. Len(e) /\ n + (Len(c) + k) = (n + Len(c)) + k
        BY <1>1, <1>5
      <4>2. value[n + (Len(c) + k)] = Holds(value, e[Len(c) + k])
        BY <1>8, <4>1
      <4> QED  BY <1>5, <4>1, <4>2
    <3>2. \A k \in 1 .. Len(d) : Len(c) + k \in 1 .. Len(e)
      BY <1>1, <1>5
    <3>3. AsWritten(d)
      BY <1>5, <1>8, <3>2 DEF AsWritten
    <3> QED  BY <3>1, <3>3 DEF Generated
  <2>3. value[n + Len(e)] = Holds(value, x)
    <3>1. Len(e) \in 1 .. Len(e)
      BY <1>1, <1>5
    <3> QED  BY <1>5, <1>8, <3>1
  <2>4. x.op = o /\ x.left = n + Len(c) /\ x.right = n + Len(c) + Len(d)
    BY DEF x
  <2>5. Holds(value, x) = Bin(o, value[n + Len(c)], value[n + Len(c) + Len(d)])
    BY <2>4 DEF Holds
  <2>6. (n + Len(c)) + Len(d) = n + Len(c) + Len(d)
    OBVIOUS
  <2> QED  BY <2>1, <2>2, <2>3, <2>5, <2>6
<1>9. Len(e) > 0
  BY <1>1, <1>5
<1>10. ASSUME NEW k \in 1 .. Len(e), e[k].op = "val" PROVE \E u \in V : e[k].val = Printed(u)
  <2>1. CASE k \in 1 .. Len(c)
    BY <1>5, <1>10, <2>1 DEF Generated
  <2>2. CASE k - Len(c) \in 1 .. Len(d) /\ Len(c) + (k - Len(c)) = k
    <3>1. e[k] = d[k - Len(c)]
      BY <1>5, <2>2
    <3> QED  BY <1>10, <2>2, <3>1 DEF Generated
  <2>3. k # Len(c) + Len(d) + 1
    <3>1. x.op # "val"
      BY DEF x
    <3> QED  BY <1>5, <1>10, <3>1
  <2> QED  BY <1>6, <2>1, <2>2, <2>3
<1> QED  BY <1>5, <1>7, <1>8, <1>9, <1>10 DEF Generated, e, b, x

\* One tree comes before another if it has fewer levels.
Under(V, u, t) == \E h \in Nat : u \in Dags(V, h) /\ t \notin Dags(V, h)

\* A tree with h levels at most is a number, or made of trees that come before it.
LEMMA Nodes ==
    ASSUME NEW V, NEW H \in Nat, NEW t \in Dags(V, H)
    PROVE  \/ \E v \in V : t = Val(v)
           \/ \E r \in Dags(V, H) : Under(V, r, t) /\ t = Neg(r)
           \/ \E o \in {"+", "-", "*", "/"}, l, r \in Dags(V, H) :
                Under(V, l, t) /\ Under(V, r, t) /\ t = Bin(o, l, r)
<1> DEFINE S == {h \in Nat : t \in Dags(V, h)}
<1>1. PICK h \in S : \A k \in S : h <= k
  <2>1. S \in SUBSET Nat /\ H \in S
    OBVIOUS
  <2> HIDE DEF S
  <2> QED  BY <2>1, Least
<1>2. h \in Nat /\ h <= H /\ t \in Dags(V, h)
  BY <1>1
<1>3. Shape(V, h, t)
  BY <1>2, ShapeIs
<1>4. ASSUME h > 0, NEW u \in Dags(V, h - 1) PROVE u \in Dags(V, H) /\ Under(V, u, t)
  <2>1. h - 1 \in Nat /\ h - 1 <= H /\ ~(h <= h - 1)
    BY <1>2, <1>4
  <2>2. t \notin Dags(V, h - 1)
    BY <1>1, <2>1
  <2>3. Dags(V, h - 1) \subseteq Dags(V, H)
    BY <2>1, Monotone
  <2> QED  BY <1>4, <2>1, <2>2, <2>3 DEF Under
<1> HIDE DEF S
<1> QED  BY <1>3, <1>4 DEF Shape

\* Among some trees there is one that none of the others comes before.
LEMMA TreesWellFounded ==
    ASSUME NEW V, NEW H \in Nat, NEW S \in SUBSET (Dags(V, H) \X Nat), S # {}
    PROVE  \E x \in S : \A y \in S : ~Under(V, y[1], x[1])
<1> DEFINE L == {h \in Nat : \E x \in S : x[1] \in Dags(V, h)}
<1>1. PICK h \in L : \A k \in L : h <= k
  <2>1. L \in SUBSET Nat /\ H \in L
    OBVIOUS
  <2> HIDE DEF L
  <2> QED  BY <2>1, Least
<1>2. PICK x \in S : x[1] \in Dags(V, h)
  BY <1>1
<1>3. ASSUME NEW y \in S, NEW k \in Nat, y[1] \in Dags(V, k), x[1] \notin Dags(V, k) PROVE FALSE
  <2>1. h <= k /\ h \in Nat
    BY <1>1, <1>3
  <2>2. Dags(V, h) \subseteq Dags(V, k)
    BY <2>1, Monotone
  <2> QED  BY <1>2, <1>3, <2>2
<1> QED  BY <1>3 DEF Under

\* What the generator makes of a tree from the code of the trees before it.
LEMMA GeneratorCongruence ==
    ASSUME NEW V \in SUBSET (Numbers \X Nat), NEW H \in Nat, NEW f, NEW g,
           NEW t \in Dags(V, H), NEW n \in Nat,
           \A u \in Dags(V, H), m \in Nat : Under(V, u, t) =>
             f[<<u, m>>] = g[<<u, m>>] /\ Generated(V, u, m, f[<<u, m>>])
    PROVE  /\ genFuncBodyFromDag(f, t, n) = genFuncBodyFromDag(g, t, n)
           /\ Generated(V, t, n, genFuncBodyFromDag(f, t, n))
<1>1. CASE \E v \in V : t = Val(v)
  <2>1. PICK v \in V : t = Val(v)
    BY <1>1
  <2>2. t.op = "val" /\ t.val = v
    BY <2>1 DEF Val
  <2>3. /\ genFuncBodyFromDag(f, t, n) = <<[op |-> "val", val |-> Printed(v)]>>
        /\ genFuncBodyFromDag(g, t, n) = <<[op |-> "val", val |-> Printed(v)]>>
    BY <2>2 DEF genFuncBodyFromDag
  <2> QED  BY <2>1, <2>3, NumberGenerated
<1>2. CASE \E r \in Dags(V, H) : Under(V, r, t) /\ t = Neg(r)
  <2>1. PICK r \in Dags(V, H) : Under(V, r, t) /\ t = Neg(r)
    BY <1>2
  <2>2. t.op = "neg" /\ t.right = r
    BY <2>1 DEF Neg
  <2> DEFINE c == f[<<r, n>>]
  <2>3. c = g[<<r, n>>] /\ Generated(V, r, n, c)
    BY <2>1
  <2>4. /\ genFuncBodyFromDag(f, t, n) = Append(c, [op |-> "neg", right |-> n + Len(c)])
        /\ genFuncBodyFromDag(g, t, n) = Append(c, [op |-> "neg", right |-> n + Len(c)])
    BY <2>2, <2>3 DEF genFuncBodyFromDag
  <2> HIDE DEF c
  <2>5. Generated(V, Neg(r), n, Append(c, [op |-> "neg", right |-> n + Len(c)]))
    BY <2>3, NegationGenerated
  <2> QED  BY <2>1, <2>4, <2>5
<1>3. CASE \E o \in {"+", "-", "*", "/"}, l, r \in Dags(V, H) :
             Under(V, l, t) /\ Under(V, r, t) /\ t = Bin(o, l, r)
  <2>1. PICK o \in {"+", "-", "*", "/"}, l \in Dags(V, H), r \in Dags(V, H) :
             Under(V, l, t) /\ Under(V, r, t) /\ t = Bin(o, l, r)
    BY <1>3
  <2>2. t.op = o /\ t.left = l /\ t.right = r /\ o # "val" /\ o # "neg"
    BY <2>1 DEF Bin
  <2> DEFINE c == f[<<l, n>>]
             d == f[<<r, n + Len(c)>>]
             e == Append(c \o d, [op |-> o, left |-> n + Len(c), right |-> n + Len(c) + Len(d)])
  <2>3. c = g[<<l, n>>] /\ Generated(V, l, n, c)
    BY <2>1
  <2>4. n + Len(c) \in Nat
    <3> HIDE DEF c
    <3>1. c \in Seq(Instructions)
      BY <2>3 DEF Generated
    <3> QED  BY <3>1
  <2>5. d = g[<<r, n + Len(c)>>] /\ Generated(V, r, n + Len(c), d)
    <3> HIDE DEF c
    <3> QED  BY <2>1, <2>4
  <2>6. genFuncBodyFromDag(f, t, n) = e
    BY <2>2 DEF genFuncBodyFromDag
  <2>7. genFuncBodyFromDag(g, t, n) = e
    <3>1. genFuncBodyFromDag(g, t, n) =
            LET p == g[<<l, n>>]
                q == g[<<r, n + Len(p)>>]
            IN  Append(p \o q, [op |-> o, left |-> n + Len(p), right |-> n + Len(p) + Len(q)])
      BY <2>2 DEF genFuncBodyFromDag
    <3> QED  BY <2>3, <2>5, <3>1
  <2>8. Generated(V, Bin(o, l, r), n, e)
    <3> HIDE DEF c, d
    <3> QED  BY <2>3, <2>5, OperationGenerated
  <2> HIDE DEF e
  <2> QED  BY <2>1, <2>6, <2>7, <2>8
<1> QED  BY <1>1, <1>2, <1>3, Nodes

\* The program for a tree.
LEMMA ProgramGenerated ==
    ASSUME NEW s \in Seq(Lexemes), NEW t \in Dags(Values(s), Len(s))
    PROVE  Generated(Values(s), t, 0, Program(s, t))
<1> DEFINE V == Values(s)
           H == Len(s)
           D == Dags(V, H)
           C == D \X Nat
           R == {p \in C \X C : Under(V, p[1][1], p[2][1])}
           Below(g, x) == [y \in C |-> IF Under(V, y[1], x[1]) THEN g[y] ELSE 0]
           Def(g, x) == genFuncBodyFromDag(Below(g, x), x[1], x[2])
           Good(x, c) == Generated(V, x[1], x[2], c)
           G == CHOOSE g : g = [x \in C |-> Def(g, x)]
           P == CHOOSE g : g = [x \in C |-> genFuncBodyFromDag(g, x[1], x[2])]
<1>1. H \in Nat /\ V \in SUBSET (Numbers \X Nat)
  BY Tokens DEF Values
<1>2. Program(s, t) = P[<<t, 0>>]
  BY DEF Program
<1>3. ASSUME NEW f, NEW g, NEW x \in C,
             \A y \in C : Under(V, y[1], x[1]) => f[y] = g[y] /\ Good(y, f[y])
      PROVE  /\ genFuncBodyFromDag(f, x[1], x[2]) = genFuncBodyFromDag(g, x[1], x[2])
             /\ Good(x, genFuncBodyFromDag(f, x[1], x[2]))
  <2>1. x[1] \in D /\ x[2] \in Nat
    OBVIOUS
  <2>2. ASSUME NEW u \in D, NEW m \in Nat, Under(V, u, x[1])
        PROVE  f[<<u, m>>] = g[<<u, m>>] /\ Generated(V, u, m, f[<<u, m>>])
    <3>1. <<u, m>> \in C /\ <<u, m>>[1] = u /\ <<u, m>>[2] = m
      OBVIOUS
    <3>2. f[<<u, m>>] = g[<<u, m>>] /\ Good(<<u, m>>, f[<<u, m>>])
      <4> HIDE DEF C, D, Good
      <4> QED  BY <1>3, <2>2, <3>1
    <3> QED  BY <3>1, <3>2
  <2> HIDE DEF C, V, H
  <2> QED  BY <1>1, <2>1, <2>2, GeneratorCongruence
<1>4. ASSUME NEW S \in SUBSET C, S # {}
      PROVE  \E x \in S : \A y \in S : ~Under(V, y[1], x[1])
  <2> HIDE DEF V, H
  <2> QED  BY <1>1, <1>4, TreesWellFounded
<1> HIDE DEF Good, D, V, H
<1>5. IsWellFoundedOn(R, C)
  <2>1. ASSUME NEW S \in SUBSET C, S # {}
        PROVE  \E x \in S : \A y \in S : ~(<<y, x>> \in R)
    <3> HIDE DEF C
    <3>1. PICK x \in S : \A y \in S : ~Under(V, y[1], x[1])
      BY <1>4, <2>1
    <3> QED  BY <3>1
  <2> HIDE DEF R, C
  <2> QED  BY <2>1, MinWF
<1>6. G = [x \in C |-> Def(G, x)]
  <2>1. WFDefOn(R, C, Def)
    <3>1. ASSUME NEW g, NEW h, NEW x \in C, \A y \in SetLessThan(x, R, C) : g[y] = h[y]
          PROVE  Def(g, x) = Def(h, x)
      <4> HIDE DEF C
      <4>1. \A y \in C : Under(V, y[1], x[1]) => y \in SetLessThan(x, R, C)
        BY DEF SetLessThan
      <4>2. Below(g, x) = Below(h, x)
        BY <3>1, <4>1
      <4> HIDE DEF Below
      <4> QED  BY <4>2
    <3> HIDE DEF Def, R, C
    <3> QED  BY <3>1 DEF WFDefOn
  <2>2. OpDefinesFcn(G, C, Def)
    BY Zenon DEF OpDefinesFcn
  <2> HIDE DEF Def, R, C, G
  <2>3. WFInductiveDefines(G, C, Def)
    BY <1>5, <2>1, <2>2, WFInductiveDef
  <2> QED  BY <2>3 DEF WFInductiveDefines
<1> HIDE DEF C, P
<1>7. ASSUME NEW x \in C, \A y \in C : Under(V, y[1], x[1]) => Good(y, G[y])
      PROVE  G[x] = genFuncBodyFromDag(G, x[1], x[2]) /\ Good(x, G[x])
  <2> DEFINE B == Below(G, x)
  <2>1. G[x] = genFuncBodyFromDag(B, x[1], x[2])
    <3> HIDE DEF Def, G
    <3>1. G[x] = Def(G, x)
      BY <1>6
    <3> QED  BY <3>1 DEF Def
  <2>2. \A y \in C : Under(V, y[1], x[1]) => B[y] = G[y] /\ Good(y, B[y])
    <3> HIDE DEF G
    <3> QED  BY <1>7
  <2> HIDE DEF B, G
  <2>3. /\ genFuncBodyFromDag(B, x[1], x[2]) = genFuncBodyFromDag(G, x[1], x[2])
        /\ Good(x, genFuncBodyFromDag(B, x[1], x[2]))
    BY <1>3, <2>2
  <2> QED  BY <2>1, <2>3
<1>8. ASSUME NEW g, \A x \in C : g[x] = genFuncBodyFromDag(g, x[1], x[2])
      PROVE  \A x \in C : Good(x, g[x])
  <2> DEFINE S == {x \in C : ~Good(x, g[x])}
  <2>1. ASSUME S # {} PROVE FALSE
    <3>1. PICK x \in S : \A y \in S : ~Under(V, y[1], x[1])
      <4>1. S \in SUBSET C
        OBVIOUS
      <4> HIDE DEF S
      <4> QED  BY <1>4, <2>1, <4>1
    <3>2. x \in C /\ \A y \in C : Under(V, y[1], x[1]) => g[y] = g[y] /\ Good(y, g[y])
      BY <3>1
    <3>3. Good(x, genFuncBodyFromDag(g, x[1], x[2]))
      BY <1>3, <3>2
    <3> QED  BY <1>8, <3>1, <3>2, <3>3
  <2> QED  BY <2>1
<1>9. \A x \in C : G[x] = genFuncBodyFromDag(G, x[1], x[2])
  <2> DEFINE S == {x \in C : ~Good(x, G[x])}
  <2> HIDE DEF G
  <2>1. ASSUME S # {} PROVE FALSE
    <3>1. PICK x \in S : \A y \in S : ~Under(V, y[1], x[1])
      <4>1. S \in SUBSET C
        OBVIOUS
      <4> HIDE DEF S
      <4> QED  BY <1>4, <2>1, <4>1
    <3>2. x \in C /\ \A y \in C : Under(V, y[1], x[1]) => Good(y, G[y])
      BY <3>1
    <3> QED  BY <1>7, <3>1, <3>2
  <2>2. \A x \in C : Good(x, G[x])
    BY <2>1
  <2> QED  BY <1>7, <2>2
<1>10. G = [x \in C |-> genFuncBodyFromDag(G, x[1], x[2])]
  <2> HIDE DEF Def
  <2>1. G = [x \in C |-> G[x]]
    <3> HIDE DEF G
    <3> QED  BY <1>6
  <2> HIDE DEF G
  <2> QED  BY <1>9, <2>1
<1>11. P = [x \in C |-> genFuncBodyFromDag(P, x[1], x[2])]
  <2> HIDE DEF G
  <2>1. \E g : g = [x \in C |-> genFuncBodyFromDag(g, x[1], x[2])]
    BY <1>10
  <2> QED  BY <2>1, Zenon DEF P
<1>12. <<t, 0>> \in C /\ <<t, 0>>[1] = t /\ <<t, 0>>[2] = 0
  BY DEF C, D, V, H
<1>13. \A x \in C : P[x] = genFuncBodyFromDag(P, x[1], x[2])
  BY <1>11
<1>14. Good(<<t, 0>>, P[<<t, 0>>])
  BY <1>8, <1>12, <1>13
<1> QED  BY <1>2, <1>12, <1>14 DEF Good, V

\* An instruction reads variables that are declared before it only.
LEMMA HoldsCongruence ==
    ASSUME NEW n \in Nat, NEW c \in Instruction(n), NEW f, NEW g,
           \A k \in 1 .. n - 1 : f[k] = g[k]
    PROVE  Holds(f, c) = Holds(g, c)
<1>1. CASE c \in [op : {"val"}, val : {"num", "rounded", "word"} \X Nat]
  BY <1>1 DEF Holds
<1>2. CASE c \in [op : {"neg"}, right : 1 .. n - 1]
  <2>1. c.op = "neg" /\ c.right \in 1 .. n - 1
    BY <1>2
  <2>2. f[c.right] = g[c.right]
    BY <2>1
  <2> QED  BY <2>1, <2>2 DEF Holds
<1>3. CASE c \in [op : {"+", "-", "*", "/"}, left : 1 .. n - 1, right : 1 .. n - 1]
  <2>1. c.op \in {"+", "-", "*", "/"} /\ c.left \in 1 .. n - 1 /\ c.right \in 1 .. n - 1
    BY <1>3
  <2>2. f[c.left] = g[c.left] /\ f[c.right] = g[c.right]
    BY <2>1
  <2> QED  BY <2>1, <2>2 DEF Holds
<1> QED  BY <1>1, <1>2, <1>3 DEF Instruction

\* In the compiled code each variable holds what its instruction computes.
LEMMA VariablesIs ==
    ASSUME NEW code, Len(code) \in Nat, \A n \in 1 .. Len(code) : code[n] \in Instruction(n)
    PROVE  \A n \in 1 .. Len(code) : Variables(code)[n] = Holds(Variables(code), code[n])
<1> DEFINE C == 1 .. Len(code)
           R == {p \in C \X C : p[1] < p[2]}
           Def(g, n) == Holds(g, code[n])
           G == CHOOSE g : g = [n \in C |-> Def(g, n)]
<1>1. Variables(code) = G
  BY DEF Variables, Holds
<1>2. IsWellFoundedOn(R, C)
  <2>1. ASSUME NEW S \in SUBSET C, S # {}
        PROVE  \E x \in S : \A y \in S : ~(<<y, x>> \in R)
    <3>1. \A x \in S : x \in Nat
      OBVIOUS
    <3>2. S \in SUBSET Nat
      BY <3>1
    <3>3. PICK x \in S : \A y \in S : x <= y
      BY <2>1, <3>2, Least
    <3>4. \A y \in S : ~(y < x)
      BY <3>1, <3>3
    <3> QED  BY <3>4
  <2> HIDE DEF R, C
  <2> QED  BY <2>1, MinWF
<1>3. WFDefOn(R, C, Def)
  <2>1. ASSUME NEW g, NEW h, NEW n \in C, \A y \in SetLessThan(n, R, C) : g[y] = h[y]
        PROVE  Def(g, n) = Def(h, n)
    <3>1. \A k \in 1 .. n - 1 : k \in SetLessThan(n, R, C)
      BY DEF SetLessThan
    <3>2. \A k \in 1 .. n - 1 : g[k] = h[k]
      BY <2>1, <3>1
    <3>3. n \in Nat /\ code[n] \in Instruction(n)
      OBVIOUS
    <3> QED  BY <3>2, <3>3, HoldsCongruence
  <2> HIDE DEF Def, R, C
  <2> QED  BY <2>1 DEF WFDefOn
<1>4. OpDefinesFcn(G, C, Def)
  BY Zenon DEF OpDefinesFcn
<1>5. G = [n \in C |-> Def(G, n)]
  <2> HIDE DEF Def, R, C, G
  <2>1. WFInductiveDefines(G, C, Def)
    BY <1>2, <1>3, <1>4, WFInductiveDef
  <2> QED  BY <2>1 DEF WFInductiveDefines
<1>6. \A n \in C : G[n] = Def(G, n)
  <2> HIDE DEF Def, C, G
  <2> QED  BY <1>5
<1> HIDE DEF G
<1> QED  BY <1>1, <1>6

\* genFuncBodyFromDag() is right for every tree: no variable is used before it is
\* declared, gcc accepts the code unless strtod() has read inf, nan or a number too
\* large to be one, and what accepted code computes is the value of the tree, if no
\* number in it has more decimals than are written.
THEOREM ProgramIsRight ==
    ASSUME NEW s \in Seq(Lexemes), NEW t \in Dags(Values(s), Len(s))
    PROVE  /\ Code(Program(s, t))
           /\ (\A i \in DOMAIN s : s[i] # "inf") => Accepted(Program(s, t))
           /\ Accepted(Program(s, t)) /\ (\A i \in DOMAIN s : s[i] # "tiny") =>
                evaluate(Program(s, t)) = t
<1> DEFINE c == Program(s, t)
<1>1. Generated(Values(s), t, 0, c)
  BY ProgramGenerated
<1> HIDE DEF c
<1>2. c \in Seq(Instructions) /\ Len(c) \in Nat /\ Len(c) > 0 /\ DOMAIN c = 1 .. Len(c)
  BY <1>1 DEF Generated
<1>3. \A k \in 1 .. Len(c) : 0 + k = k
  OBVIOUS
<1>4. \A k \in 1 .. Len(c) : c[k] \in Instruction(k)
  BY <1>1, <1>3 DEF Generated
<1>5. Code(c)
  BY <1>2, <1>4 DEF Code
<1>6. ASSUME NEW k \in 1 .. Len(c), c[k].op = "val"
      PROVE  \E i \in DOMAIN s : s[i] \in Numbers /\ c[k].val = Printed(<<s[i], i>>)
  BY <1>1, <1>6 DEF Generated, Values
<1>7. ASSUME \A i \in DOMAIN s : s[i] # "inf" PROVE Accepted(c)
  <2>1. ASSUME NEW k \in 1 .. Len(c), c[k].op = "val" PROVE c[k].val[1] # "word"
    <3>1. PICK i \in DOMAIN s : s[i] \in Numbers /\ c[k].val = Printed(<<s[i], i>>)
      BY <1>6, <2>1
    <3> QED  BY <1>7, <3>1 DEF Printed, Numbers
  <2> QED  BY <1>2, <1>5, <2>1 DEF Accepted
<1>8. ASSUME Accepted(c), \A i \in DOMAIN s : s[i] # "tiny" PROVE evaluate(c) = t
  <2>1. ASSUME NEW k \in 1 .. Len(c), c[k].op = "val" PROVE c[k].val[1] = "num"
    <3>1. PICK i \in DOMAIN s : s[i] \in Numbers /\ c[k].val = Printed(<<s[i], i>>)
      BY <1>6, <2>1
    <3>2. c[k].val[1] # "word"
      BY <1>2, <1>8, <2>1 DEF Accepted
    <3> QED  BY <1>8, <3>1, <3>2 DEF Printed, Numbers
  <2>2. \A k \in 1 .. Len(c) : Variables(c)[k] = Holds(Variables(c), c[k])
    BY <1>2, <1>4, VariablesIs
  <2>3. Variables(c)[0 + Len(c)] = t
    BY <1>1, <1>3, <2>1, <2>2 DEF Generated, AsWritten
  <2>4. 0 + Len(c) = Len(c)
    BY <1>2
  <2> QED  BY <2>3, <2>4 DEF evaluate
<1> QED  BY <1>5, <1>7, <1>8 DEF c
-----------------------------------------------------------------------------
(***************************************************************************)
(* The driver.  The invariant says, in addition to the four properties,    *)
(* what the program has in its hands and in its two files at each place:   *)
(* the code in out.c is the one for the argument, and so is that in        *)
(* out.so, unless it is the old one or gcc was stopped in it.              *)
(***************************************************************************)
Tree == dag # Null => dag \in Dags(Values(argument), Len(argument))

Source ==
    /\ pc = "compile" => cfile = Program(argument, dag)
    /\ pc \notin {"compile", "deletec", "killed"} => cfile = NoFile

Library ==
    \/ sofile \in {NoFile, Torn}
    \/ stale /\ ~compiled /\ sofile = OldCode
    \/ pc \notin {"start", "generate", "compile"} /\ sofile = Program(argument, dag)

Loaded == handle # NoFile => handle = Program(argument, dag) \/ (stale /\ ~compiled)

Progress ==
    /\ pc = "start" => dag = Null
    /\ pc \in {"generate", "compile", "deletec", "load", "lookup", "print", "deleteso"} => dag # Null
    /\ pc \in {"start", "generate", "compile"} => result = 0 /\ (stale \/ sofile = NoFile)
    /\ pc \in {"start", "generate", "compile", "deletec", "load"} => handle = NoFile
    /\ pc = "print" => handle # NoFile
    /\ pc \in {"start", "generate", "compile", "deletec", "load", "lookup", "print"} => printed = Null

IInv ==
    /\ TypeOK /\ ParsesAsWritten /\ AnswerIsRight /\ LeavesNoFile
    /\ Tree /\ Source /\ Library /\ Loaded /\ Progress

\* The empty file is code.
LEMMA NoFileIsCode == Code(NoFile) /\ Accepted(NoFile)
<1>1. Len(NoFile) = 0 /\ DOMAIN NoFile = {} /\ 1 .. 0 = {}
  BY DEF NoFile
<1> QED  BY <1>1 DEF Code, Accepted

\* main() begins with no code in its hands.
LEMMA InitInvariant == Init => IInv
<1> SUFFICES ASSUME Init PROVE IInv
  OBVIOUS
<1>1. TypeOK
  <2>1. <<>> \in Seq(Lexemes)
    OBVIOUS
  <2> QED  BY <2>1, NoFileIsCode, OldCodeAssumption DEF Init, TypeOK
<1>2. ParsesAsWritten /\ AnswerIsRight /\ LeavesNoFile
  BY DEF Init, ParsesAsWritten, AnswerIsRight, LeavesNoFile, Ends
<1>3. Tree /\ Source /\ Library /\ Loaded /\ Progress
  BY DEF Init, Tree, Source, Library, Loaded, Progress
<1> QED  BY <1>1, <1>2, <1>3 DEF IInv

\* The argument is parsed, or refused.
LEMMA ParserStep ==
    ASSUME IInv, NEW s \in Arguments, pc = "start", parser_open(s)
    PROVE  IInv'
<1>1. s \in Seq(Lexemes)
  BY CompilerAssumption
<1>2. CASE /\ Readable(s) /\ top(tokenize(s)).dag # Null
           /\ dag' = top(tokenize(s)).dag
           /\ pc' = "generate"
  <2>1. dag' = Meaning(s) /\ dag' \in Dags(Values(s), Len(s)) /\ dag' # Null
    BY <1>1, <1>2, ParsesSoundly
  <2> QED
    BY <1>1, <1>2, <2>1
    DEF IInv, parser_open, files, TypeOK, ParsesAsWritten, AnswerIsRight, LeavesNoFile, Tree, Source,
        Library, Loaded, Progress, Ends
<1>3. CASE /\ ~Readable(s) \/ top(tokenize(s)).dag = Null
           /\ dag' = Null
           /\ pc' = "refused"
  <2>1. Meaning(s) = Null
    <3> SUFFICES ASSUME Meaning(s) # Null PROVE FALSE
      OBVIOUS
    <3>1. Readable(s) /\ top(tokenize(s)) = Parsed(Meaning(s), Len(s) + 1)
      BY <1>1, Accepts
    <3>2. Parsed(Meaning(s), Len(s) + 1).dag = Meaning(s)
      BY ParsedIs
    <3> QED  BY <1>3, <3>1, <3>2
  <2> QED
    BY <1>1, <1>3, <2>1
    DEF IInv, parser_open, files, TypeOK, ParsesAsWritten, AnswerIsRight, LeavesNoFile, Tree, Source,
        Library, Loaded, Progress, Ends
<1> QED  BY <1>2, <1>3 DEF parser_open

\* The message about a sum without its right side ends a call that denotes nothing.
LEMMA MessageStep ==
    ASSUME IInv, NEW s \in Arguments, pc = "start", WildMessage(s)
    PROVE  IInv'
<1>1. s \in Seq(Lexemes)
  BY CompilerAssumption
<1>2. Meaning(s) = Null
  BY <1>1, WildRefuses DEF WildMessage
<1> QED
  BY <1>1, <1>2
  DEF IInv, WildMessage, files, TypeOK, ParsesAsWritten, AnswerIsRight, LeavesNoFile, Tree, Source,
      Library, Loaded, Progress, Ends

\* out.c is written.
LEMMA GenerateStep ==
    ASSUME IInv, generate
    PROVE  IInv'
<1>1. argument \in Seq(Lexemes) /\ dag \in Dags(Values(argument), Len(argument))
  BY DEF IInv, generate, TypeOK, Tree, Progress
<1>2. Code(Program(argument, dag))
  BY <1>1, ProgramIsRight
<1> QED
  BY <1>2
  DEF IInv, generate, TypeOK, ParsesAsWritten, AnswerIsRight, LeavesNoFile, Tree, Source,
      Library, Loaded, Progress, Ends

\* The value is printed.
LEMMA ShowStep ==
    ASSUME IInv, ShowResult
    PROVE  IInv'
<1>1. argument \in Seq(Lexemes) /\ dag # Null /\ dag \in Dags(Values(argument), Len(argument))
      /\ dag = Meaning(argument) /\ handle # NoFile
  BY DEF IInv, ShowResult, TypeOK, Tree, Progress, ParsesAsWritten
<1>2. Accepted(handle) /\ handle = Program(argument, dag) =>
        ((\A i \in DOMAIN argument : argument[i] # "tiny") => evaluate(handle) = dag)
  BY <1>1, ProgramIsRight
<1>3. handle = Program(argument, dag) \/ (stale /\ ~compiled)
  BY <1>1 DEF IInv, Loaded
<1>4. Accepted(handle)
  BY DEF IInv, TypeOK
<1>5. AnswerIsRight'
  BY <1>1, <1>2, <1>3, <1>4 DEF AnswerIsRight, ShowResult, files
<1> QED
  BY <1>5
  DEF IInv, ShowResult, files, TypeOK, ParsesAsWritten, LeavesNoFile, Tree, Source,
      Library, Loaded, Progress, Ends

\* gcc leaves code for the argument, or what it has found, or nothing of use.
LEMMA LeftoversAre ==
    ASSUME IInv, pc = "compile", sofile' \in Leftovers, result' \in {0, -1} \/ UNCHANGED result,
           pc' \in {"deletec", "killed"},
           UNCHANGED <<argument, dag, cfile, handle, printed, stale, compiled>>
    PROVE  TypeOK' /\ Library'
<1>1. cfile = Program(argument, dag)
  BY DEF IInv, Source
<1>2. \/ UNCHANGED sofile
      \/ sofile' = NoFile
      \/ sofile' = Torn
      \/ sofile' = cfile /\ Accepted(cfile)
  BY DEF Leftovers
<1>3. sofile' = Torn \/ Accepted(sofile')
  BY <1>2, NoFileIsCode DEF IInv, TypeOK
<1>4. TypeOK'
  BY <1>3 DEF IInv, TypeOK, Ends
<1>5. Library'
  BY <1>1, <1>2 DEF IInv, Library
<1> QED  BY <1>4, <1>5

\* Whatever main() and jitc.c do.
LEMMA NextInvariant ==
    ASSUME IInv, [Next]_vars
    PROVE  IInv'
<1>1. CASE pc = "start" /\ \E s \in Arguments : parser_open(s) \/ WildMessage(s)
  BY <1>1, ParserStep, MessageStep
<1>2. CASE OutOfResources
  BY <1>2 DEF IInv, OutOfResources, files, TypeOK, ParsesAsWritten, AnswerIsRight, LeavesNoFile,
      Tree, Source, Library, Loaded, Progress, Ends
<1>3. CASE generate
  BY <1>3, GenerateStep
<1>4. CASE jitc_compile
  <2>1. /\ cfile = Program(argument, dag) /\ Code(cfile) /\ handle = NoFile
        /\ printed = Null /\ dag # Null
    BY <1>4 DEF IInv, jitc_compile, TypeOK, Source, Progress
  <2>2. CASE Accepted(cfile) /\ sofile' = cfile /\ compiled' = TRUE /\ result' = 0
    BY <1>4, <2>1, <2>2 DEF IInv, jitc_compile, TypeOK, ParsesAsWritten, AnswerIsRight,
        LeavesNoFile, Tree, Source, Library, Loaded, Progress, Ends
  <2>3. CASE sofile' \in Leftovers /\ result' \in {0, -1} /\ UNCHANGED compiled
    <3>1. IInv /\ pc = "compile" /\ pc' = "deletec"
          /\ UNCHANGED <<argument, dag, cfile, handle, printed, stale, compiled>>
      BY <1>4, <2>3 DEF jitc_compile
    <3>2. TypeOK' /\ Library'
      BY <2>3, <3>1, LeftoversAre
    <3> QED
      BY <2>1, <2>3, <3>1, <3>2 DEF IInv, ParsesAsWritten, AnswerIsRight, LeavesNoFile,
          TypeOK, Tree, Source, Loaded, Progress, Ends
  <2> QED  BY <1>4, <2>2, <2>3 DEF jitc_compile
<1>5. CASE DeleteC
  BY <1>5, NoFileIsCode DEF IInv, DeleteC, TypeOK, ParsesAsWritten, AnswerIsRight, LeavesNoFile,
      Tree, Source, Library, Loaded, Progress, Ends
<1>6. CASE jitc_open
  BY <1>6, NoFileIsCode DEF IInv, jitc_open, files, TypeOK, ParsesAsWritten, AnswerIsRight,
      LeavesNoFile, Tree, Source, Library, Loaded, Progress, Ends
<1>7. CASE jitc_lookup
  BY <1>7 DEF IInv, jitc_lookup, files, TypeOK, ParsesAsWritten, AnswerIsRight, LeavesNoFile,
      Tree, Source, Library, Loaded, Progress, Ends
<1>8. CASE ShowResult
  BY <1>8, ShowStep
<1>9. CASE DeleteSo
  BY <1>9, NoFileIsCode DEF IInv, DeleteSo, TypeOK, ParsesAsWritten, AnswerIsRight, LeavesNoFile,
      Tree, Source, Library, Loaded, Progress, Ends
<1>10. CASE Killed
  <2>1. TypeOK' /\ Library'
    <3>1. CASE UNCHANGED sofile
      BY <1>10, <3>1 DEF IInv, Killed, TypeOK, Library, Ends
    <3>2. CASE pc = "compile" /\ sofile' \in Leftovers
      BY <1>10, <3>2, LeftoversAre DEF Killed, Ends
    <3> QED  BY <1>10, <3>1, <3>2 DEF Killed
  <2> QED
    BY <1>10, <2>1 DEF IInv, Killed, TypeOK, ParsesAsWritten, AnswerIsRight, LeavesNoFile,
      Tree, Source, Library, Loaded, Progress, Ends
<1>11. CASE UNCHANGED vars
  BY <1>11 DEF IInv, vars, files, TypeOK, ParsesAsWritten, AnswerIsRight, LeavesNoFile,
      Tree, Source, Library, Loaded, Progress
<1> QED
  BY <1>1, <1>2, <1>3, <1>4, <1>5, <1>6, <1>7, <1>8, <1>9, <1>10, <1>11 DEF Next

\* The invariant holds in every state of every call.
THEOREM Invariant == Spec => []IInv
<1>1. Init => IInv
  BY InitInvariant
<1>2. IInv /\ [Next]_vars => IInv'
  BY NextInvariant
<1> QED  BY <1>1, <1>2, PTL DEF Spec
-----------------------------------------------------------------------------
\* In what genFuncBodyFromDag() writes to out.c each variable is declared before it is
\* used, whatever the argument; and code that is loaded is code that gcc has accepted.
THEOREM TypeCorrect == Spec => []TypeOK
<1>1. IInv => TypeOK
  BY DEF IInv
<1> QED  BY <1>1, Invariant, PTL

\* The parser of parser.c accepts an argument, of any length, just if it denotes an
\* expression, and its tree is the one that the precedence and the grouping of the
\* operators, the signs and the parentheses ask for.
THEOREM ParserCorrect == Spec => []ParsesAsWritten
<1>1. IInv => ParsesAsWritten
  BY DEF IInv
<1> QED  BY <1>1, Invariant, PTL

\* What main() prints is the value of the argument, unless a number in it has more
\* decimals than are written to out.c, or an old out.so was loaded after gcc failed.
THEOREM AnswerCorrect == Spec => []AnswerIsRight
<1>1. IInv => AnswerIsRight
  BY DEF IInv
<1> QED  BY <1>1, Invariant, PTL

\* Whatever fails in main() or jitc.c, a call that is not killed leaves no out.c, and
\* an out.so that it has made only if gcc was ended by a signal.
THEOREM FilesCorrect == Spec => []LeavesNoFile
<1>1. IInv => LeavesNoFile
  BY DEF IInv
<1> QED  BY <1>1, Invariant, PTL
=============================================================================
