----------------------------- MODULE KvDbProofs -----------------------------
(***************************************************************************)
(* Proofs about the key-value store of project-4.                          *)
(*                                                                         *)
(* The inductive invariant Inv says three things.                          *)
(*   LogInv    Each record of the log points to the newest older record    *)
(*             with its hash.                                              *)
(*   IndexInv  A search for a hash that the index knows ends at its entry, *)
(*             the entry points to the newest record with the hash, and    *)
(*             the index knows the hash of every record.                   *)
(*   CountInv  size is the number of keys with a value and waste that of   *)
(*             the other values in the log.                                *)
(* From it: a search for the key through the chain of its hash ends at the *)
(* newest record of the key (Searched), thus every call sees the current   *)
(* value, and a step of the store is a step of KvMap.                      *)
(*                                                                         *)
(* The probe sequence of a hash passes every slot (WayThrough), so that a  *)
(* free slot is enough for a search to end; entering a key where its search*)
(* ends leaves the other searches as they are (Put).  grow() enters all of *)
(* them once more (Rehash).                                                *)
(*                                                                         *)
(* What a recursive function of the model is, follows in two steps: the    *)
(* equation that defines it has a solution, and the solution is what is    *)
(* claimed, as there is no least argument for which it is not.             *)
(***************************************************************************)
EXTENDS KvDb, FiniteSetTheorems, NaturalsInduction, WellFoundedInduction, TLAPS

Entry == [key : Nat, off : Nat]

Used(m) == {e \in 1 .. Len(m) : m[e].key # 0}

\* A table in which every entry is where a search for its key ends.
Table(m) ==
    /\ m \in Seq(Entry)
    /\ \A e \in 1 .. Len(m) :
          IF m[e].key = 0 THEN m[e].off = 0 ELSE Slot(m, m[e].key) = e

\* Of the first n records of the log l, the sentinel aside, the one at o is the
\* newest with the hash g; there is none if o is 0.
Newest(l, o, g, n) ==
    /\ o \in 0 .. n - 1
    /\ o # 0 => hash(l[o + 1].key) = g
    /\ \A p \in o + 1 .. n - 1 : hash(l[p + 1].key) # g

Record == [key : Keys, val : Vals \cup {NoVal}, off : Nat]

Log == Seq(Record \cup {Sentinel})

\* Each record points to the newest record with its hash before it.
Chained(l) ==
    /\ l \in Log /\ Len(l) # 0 /\ l[1] = Sentinel
    /\ \A i \in 2 .. Len(l) :
          l[i] \in Record /\ Newest(l, l[i].off, hash(l[i].key), i - 1)

\* The entries of the table m point to the newest records of the log l.
Indexed(m, l) ==
    /\ \A e \in Used(m) : Newest(l, m[e].off, m[e].key, Len(l))
    /\ \A i \in 2 .. Len(l) : \E e \in 1 .. Len(m) : m[e].key = hash(l[i].key)

Present == {k \in Keys : Current(k) # NoVal}

LogInv == IF status = "open" THEN Chained(log) ELSE log = <<>>

IndexInv == Table(maps) /\ isize = Cardinality(Used(maps)) /\ Indexed(maps, log)

CountInv == IsFiniteSet(Present) /\ size = Cardinality(Present) /\ WasteIsExact

Inv == TypeOK /\ LogInv /\ IndexInv /\ CountInv
-----------------------------------------------------------------------------
\* Quotient and remainder.
LEMMA Division ==
    ASSUME NEW a \in Nat, NEW d \in Nat \ {0}
    PROVE  /\ a \div d \in Nat /\ a % d \in 0 .. d - 1
           /\ a = ((a \div d) * d) + (a % d)
OBVIOUS

\* They are the only such numbers.
LEMMA DivisionUnique ==
    ASSUME NEW d \in Nat \ {0}, NEW q \in Nat, NEW r \in 0 .. d - 1
    PROVE  (q * d + r) \div d = q /\ (q * d + r) % d = r
<1> DEFINE a == q * d + r
           p == a \div d
           t == a % d
<1>1. q * d \in Nat
  OBVIOUS
<1>2. a \in Nat
  BY <1>1
<1>3. p \in Nat /\ t \in 0 .. d - 1 /\ a = p * d + t
  BY <1>2, Division
<1>4. ~(p < q)
  <2> SUFFICES ASSUME p < q PROVE FALSE
    OBVIOUS
  <2>1. (p + 1) * d <= q * d
    <3> HIDE DEF p
    <3>1. PICK k \in Nat : q = p + 1 + k
      <4>1. q - p - 1 \in Nat /\ q = p + 1 + (q - p - 1)
        BY <1>3
      <4> QED  BY <4>1
    <3>2. k * d \in Nat
      OBVIOUS
    <3>3. q * d = (p + 1) * d + k * d
      BY <3>1, <1>3
    <3> QED  BY <3>2, <3>3, <1>3, <1>1
  <2> QED  BY <2>1, <1>1, <1>3
<1>5. ~(q < p)
  <2> SUFFICES ASSUME q < p PROVE FALSE
    OBVIOUS
  <2>1. (q + 1) * d <= p * d
    <3> HIDE DEF p
    <3>1. PICK k \in Nat : p = q + 1 + k
      <4>1. p - q - 1 \in Nat /\ p = q + 1 + (p - q - 1)
        BY <1>3
      <4> QED  BY <4>1
    <3>2. k * d \in Nat
      OBVIOUS
    <3>3. p * d = (q + 1) * d + k * d
      BY <3>1, <1>3
    <3> QED  BY <3>2, <3>3, <1>3, <1>1
  <2> QED  BY <2>1, <1>1, <1>3
<1>6. p = q
  BY <1>3, <1>4, <1>5
<1>7. t = r
  BY <1>3, <1>6, <1>1
<1> QED  BY <1>6, <1>7

\* The remainder is the only number in its range that differs by a multiple.
LEMMA ModIs ==
    ASSUME NEW c \in Nat \ {0}, NEW q \in Nat, NEW r \in 0 .. c - 1,
           NEW a, a = q * c + r
    PROVE  a % c = r
  BY DivisionUnique

\* The way of a hash stays in the table.
LEMMA Ways ==
    ASSUME NEW c \in Nat \ {0}, NEW h \in Nat, NEW i \in Nat
    PROVE  Probe(h, i, c) \in 1 .. c
<1>1. h + i \in Nat
  OBVIOUS
<1>2. (h + i) % c \in 0 .. c - 1
  BY <1>1, Division
<1> QED  BY <1>2 DEF Probe

\* A way leads through every slot.
LEMMA WayThrough ==
    ASSUME NEW c \in Nat \ {0}, NEW h \in Nat, NEW e \in 1 .. c
    PROVE  \E i \in 0 .. c - 1 : Probe(h, i, c) = e
<1> DEFINE q == h \div c
           r == h % c
<1>1. q \in Nat /\ r \in 0 .. c - 1 /\ h = q * c + r
  BY Division
<1> HIDE DEF q, r
<1>2. q * c \in Nat /\ (q + 1) * c = q * c + c
  BY <1>1
<1>3. CASE e - 1 >= r
  <2> DEFINE i == e - 1 - r
  <2>1. i \in 0 .. c - 1 /\ h + i = q * c + (e - 1)
    BY <1>1, <1>2, <1>3
  <2>2. e - 1 \in 0 .. c - 1
    OBVIOUS
  <2>3. (h + i) % c = e - 1
    <3> HIDE DEF i
    <3> QED  BY <1>1, <2>1, <2>2, ModIs
  <2>4. Probe(h, i, c) = e
    BY <2>3 DEF Probe
  <2> QED  BY <2>1, <2>4
<1>4. CASE e - 1 < r
  <2> DEFINE i == e - 1 - r + c
  <2>1. i \in 0 .. c - 1 /\ h + i = (q + 1) * c + (e - 1)
    BY <1>1, <1>2, <1>4
  <2>2. e - 1 \in 0 .. c - 1 /\ q + 1 \in Nat
    BY <1>1
  <2>3. (h + i) % c = e - 1
    <3> DEFINE p == q + 1
    <3>1. p \in Nat /\ h + i = p * c + (e - 1)
      BY <2>1, <2>2
    <3> HIDE DEF i, p
    <3> QED  BY <3>1, <2>2, ModIs
  <2>4. Probe(h, i, c) = e
    BY <2>3 DEF Probe
  <2> QED  BY <2>1, <2>4
<1> QED  BY <1>1, <1>3, <1>4
-----------------------------------------------------------------------------
(***************************************************************************)
(* Tables.                                                                 *)
(***************************************************************************)
\* A nonempty set of naturals has a least element.
LEMMA Least ==
    ASSUME NEW S \in SUBSET Nat, S # {}
    PROVE  \E x \in S : \A y \in S : x <= y
<1> DEFINE R == OpToRel(<, Nat)
<1>1. R = {p \in Nat \X Nat : p[1] < p[2]}
  BY Zenon DEF OpToRel
<1>2. IsWellFoundedOn(R, Nat)
  BY Zenon, NatLessThanWellFounded
<1>3. PICK x \in S : \A y \in S : <<y, x>> \notin R
  <2> HIDE DEF R
  <2> QED  BY <1>2, WFMin
<1>4. ASSUME NEW y \in S PROVE x <= y
  <2>1. <<y, x>> \notin R
    BY <1>3
  <2> HIDE DEF R
  <2> QED  BY <1>1, <2>1
<1> QED  BY <1>4

\* The way of h through the table m stops after i steps, and not before.
Stops(m, h, i) ==
    /\ i \in 0 .. Len(m) - 1
    /\ m[Probe(h, i, Len(m))].key \in {0, h}
    /\ \A j \in 0 .. i - 1 : m[Probe(h, j, Len(m))].key \notin {0, h}

\* A search ends where the way stops ...
LEMMA SlotAt ==
    ASSUME NEW m \in Seq(Entry), NEW h \in Nat, NEW i, Stops(m, h, i)
    PROVE  Slot(m, h) = Probe(h, i, Len(m))
<1> DEFINE c == Len(m)
           S == {x \in 0 .. c - 1 : m[Probe(h, x, c)].key \in {0, h}}
           x == CHOOSE x \in S : \A j \in S : x <= j
<1>1. i \in S /\ c \in Nat
  BY DEF Stops
<1>2. ASSUME NEW j \in S PROVE i <= j
  <2>1. j \in 0 .. c - 1 /\ m[Probe(h, j, c)].key \in {0, h}
    OBVIOUS
  <2>2. ~(j \in 0 .. i - 1)
    BY <2>1 DEF Stops
  <2> HIDE DEF S
  <2> QED  BY <1>1, <2>1, <2>2 DEF Stops
<1>3. x \in S /\ \A j \in S : x <= j
  <2> HIDE DEF S
  <2> QED  BY <1>1, <1>2
<1>4. x <= i /\ i <= x /\ x \in Nat /\ i \in Nat
  <2> HIDE DEF x
  <2> QED  BY <1>1, <1>2, <1>3
<1>5. x = i
  <2> HIDE DEF x
  <2> QED  BY <1>4
<1>6. S # {}
  BY <1>1
<1>7. Slot(m, h) = IF S = {} THEN NoSlot ELSE Probe(h, x, c)
  BY Zenon DEF Slot
<1> HIDE DEF x, S
<1> QED  BY <1>5, <1>6, <1>7

\* ... and fails if it does not.
LEMMA SlotIs ==
    ASSUME NEW m \in Seq(Entry), NEW h \in Nat
    PROVE  \/ Slot(m, h) = NoSlot
              /\ \A i \in 0 .. Len(m) - 1 : m[Probe(h, i, Len(m))].key \notin {0, h}
           \/ \E i : Stops(m, h, i)
<1> DEFINE c == Len(m)
           S == {i \in 0 .. c - 1 : m[Probe(h, i, c)].key \in {0, h}}
<1>1. CASE S = {}
  <2>1. Slot(m, h) = NoSlot
    BY <1>1, Zenon DEF Slot
  <2> QED  BY <1>1, <2>1
<1>2. CASE S # {}
  <2>1. S \in SUBSET Nat
    OBVIOUS
  <2>2. PICK i \in S : \A j \in S : i <= j
    <3> HIDE DEF S
    <3> QED  BY <1>2, <2>1, Least
  <2>3. i \in 0 .. c - 1 /\ m[Probe(h, i, c)].key \in {0, h}
    OBVIOUS
  <2>4. ASSUME NEW j \in 0 .. i - 1 PROVE m[Probe(h, j, c)].key \notin {0, h}
    <3>1. j \in 0 .. c - 1 /\ ~(i <= j)
      BY <2>3
    <3> QED  BY <2>2, <3>1
  <2> QED  BY <2>3, <2>4 DEF Stops
<1> QED  BY <1>1, <1>2

\* Where a search ends there is a free slot or the one it looks for.
LEMMA SlotIn ==
    ASSUME NEW m \in Seq(Entry), NEW h \in Nat, Slot(m, h) # NoSlot
    PROVE  Slot(m, h) \in 1 .. Len(m) /\ m[Slot(m, h)].key \in {0, h}
<1>1. PICK i : Stops(m, h, i)
  BY SlotIs
<1>2. Slot(m, h) = Probe(h, i, Len(m))
  BY <1>1, SlotAt
<1>3. Len(m) \in Nat \ {0} /\ i \in Nat
  BY <1>1 DEF Stops
<1> QED  BY <1>1, <1>2, <1>3, Ways DEF Stops

\* A search in a table with a free slot does not fail.
LEMMA FreeSlot ==
    ASSUME NEW m \in Seq(Entry), NEW h \in Nat, NEW e \in 1 .. Len(m), m[e].key = 0
    PROVE  Slot(m, h) # NoSlot
<1>1. Len(m) \in Nat \ {0}
  OBVIOUS
<1>2. PICK i \in 0 .. Len(m) - 1 : Probe(h, i, Len(m)) = e
  BY <1>1, WayThrough
<1>3. PICK j : Stops(m, h, j)
  BY <1>2, SlotIs
<1>4. j \in Nat /\ Slot(m, h) = Probe(h, j, Len(m))
  BY <1>3, SlotAt DEF Stops
<1> QED  BY <1>1, <1>4, Ways DEF NoSlot

\* A search for a key of the table ends at its entry.
LEMMA SlotOfKey ==
    ASSUME NEW m, Table(m), NEW e \in 1 .. Len(m), m[e].key # 0
    PROVE  Slot(m, m[e].key) = e
  BY DEF Table

\* A table stays one when the entry of h is put where the search for h ends.
LEMMA Put ==
    ASSUME NEW m, Table(m), NEW h \in Nat \ {0}, NEW s, s = Slot(m, h), s # NoSlot,
           NEW n \in Seq(Entry), Len(n) = Len(m), n[s].key = h,
           \A e \in 1 .. Len(m) : e # s => n[e] = m[e]
    PROVE  /\ Table(n) /\ s \in 1 .. Len(m) /\ Slot(n, h) = s
           /\ Used(n) = Used(m) \cup {s}
<1>1. m \in Seq(Entry) /\ s \in 1 .. Len(m) /\ m[s].key \in {0, h}
  BY SlotIn DEF Table
<1>2. n \in Seq(Entry) /\ Len(n) = Len(m)
  OBVIOUS
<1>3. n[s].key = h /\ \A e \in 1 .. Len(m) : e # s => n[e] = m[e]
  BY <1>1
<1>4. \A e \in 1 .. Len(m) : m[e] \in Entry /\ n[e] \in Entry
  BY <1>1, <1>2
<1>5. Used(n) = Used(m) \cup {s}
  BY <1>1, <1>2, <1>3 DEF Used
<1>6. ASSUME NEW i \in Nat, NEW g \in Nat
      PROVE  Probe(g, i, Len(m)) \in 1 .. Len(m)
  <2>1. Len(m) \in Nat \ {0}
    BY <1>1
  <2> QED  BY <2>1, Ways
<1>7. ASSUME NEW e \in 1 .. Len(m), n[e].key # 0, e # s
      PROVE  Slot(n, n[e].key) = e
  <2> DEFINE g == m[e].key
  <2>1. g \in Nat \ {0} /\ n[e].key = g /\ Slot(m, g) = e
    BY <1>1, <1>3, <1>4, <1>7 DEF Table, Entry
  <2>2. g # h
    BY <2>1, <1>7
  <2>3. PICK i : Stops(m, g, i)
    <3>1. e # NoSlot
      BY DEF NoSlot
    <3> HIDE DEF g
    <3> QED  BY <1>1, <2>1, <3>1, SlotIs
  <2>4. i \in Nat /\ i < Len(m) /\ Probe(g, i, Len(m)) = e
    <3>1. g \in Nat /\ i \in Nat /\ i < Len(m)
      BY <1>1, <2>1, <2>3 DEF Stops
    <3> HIDE DEF g
    <3>2. Slot(m, g) = Probe(g, i, Len(m))
      BY <1>1, <2>3, <3>1, SlotAt, Zenon
    <3> QED  BY <2>1, <3>1, <3>2
  <2>5. ASSUME NEW j \in 0 .. i - 1 PROVE n[Probe(g, j, Len(m))].key \notin {0, g}
    <3> HIDE DEF g
    <3>1. m[Probe(g, j, Len(m))].key \notin {0, g} /\ j \in Nat
      BY <2>3, <2>4 DEF Stops
    <3>2. Probe(g, j, Len(m)) \in 1 .. Len(m)
      BY <1>6, <2>1, <3>1
    <3> QED  BY <3>1, <3>2, <1>3, <2>2
  <2>6. Stops(n, g, i)
    <3>1. i \in 0 .. Len(m) - 1 /\ n[Probe(g, i, Len(m))].key = g
      BY <1>1, <2>1, <2>4
    <3> HIDE DEF g
    <3> QED  BY <1>2, <2>5, <3>1 DEF Stops
  <2>7. Slot(n, g) = Probe(g, i, Len(n))
    <3>1. g \in Nat /\ n \in Seq(Entry)
      BY <1>2, <2>1
    <3> HIDE DEF g
    <3> QED  BY <2>6, <3>1, SlotAt, Zenon
  <2> QED  BY <1>2, <2>1, <2>4, <2>7
<1>8. Slot(n, h) = s
  <2>1. PICK i : Stops(m, h, i)
    BY <1>1, SlotIs
  <2>2. i \in Nat /\ i < Len(m) /\ Probe(h, i, Len(m)) = s
    <3>1. h \in Nat /\ i \in Nat /\ i < Len(m)
      BY <1>1, <2>1 DEF Stops
    <3>2. Slot(m, h) = Probe(h, i, Len(m))
      BY <1>1, <2>1, <3>1, SlotAt, Zenon
    <3> QED  BY <3>1, <3>2
  <2>3. ASSUME NEW j \in 0 .. i - 1 PROVE n[Probe(h, j, Len(m))].key \notin {0, h}
    <3>1. m[Probe(h, j, Len(m))].key \notin {0, h} /\ j \in Nat
      BY <2>1, <2>2 DEF Stops
    <3>2. Probe(h, j, Len(m)) \in 1 .. Len(m)
      BY <1>6, <3>1
    <3> QED  BY <3>1, <3>2, <1>3, <1>1
  <2>4. Stops(n, h, i)
    BY <1>1, <1>2, <1>3, <2>2, <2>3 DEF Stops
  <2> QED  BY <1>2, <2>2, <2>4, SlotAt
<1>9. Table(n)
  <2>1. \A e \in 1 .. Len(n) :
           IF n[e].key = 0 THEN n[e].off = 0 ELSE Slot(n, n[e].key) = e
    <3> TAKE e \in 1 .. Len(n)
    <3>1. CASE e = s
      BY <1>3, <1>8, <3>1
    <3>2. CASE e # s /\ n[e].key = 0
      BY <1>2, <1>3, <3>2 DEF Table
    <3>3. CASE e # s /\ n[e].key # 0
      BY <1>2, <1>7, <3>3
    <3> QED  BY <3>1, <3>2, <3>3
  <2> QED  BY <1>2, <2>1 DEF Table
<1> QED  BY <1>1, <1>2, <1>3, <1>5, <1>8, <1>9

\* The slots in use are counted.
LEMMA UsedFinite ==
    ASSUME NEW m \in Seq(Entry)
    PROVE  /\ IsFiniteSet(Used(m)) /\ Cardinality(Used(m)) \in 0 .. Len(m)
           /\ Cardinality(Used(m)) < Len(m) => \E e \in 1 .. Len(m) : m[e].key = 0
<1>1. IsFiniteSet(1 .. Len(m)) /\ Cardinality(1 .. Len(m)) = Len(m)
  <2>1. Len(m) \in Nat
    OBVIOUS
  <2> QED  BY <2>1, FS_Interval
<1>2. Used(m) \subseteq 1 .. Len(m)
  BY DEF Used
<1>3. IsFiniteSet(Used(m)) /\ Cardinality(Used(m)) \in Nat /\ Cardinality(Used(m)) <= Len(m)
  BY <1>1, <1>2, FS_Subset, FS_CardinalityType
<1>4. ASSUME Cardinality(Used(m)) < Len(m) PROVE \E e \in 1 .. Len(m) : m[e].key = 0
  <2>1. Used(m) # 1 .. Len(m)
    BY <1>1, <1>3, <1>4
  <2> QED  BY <1>2, <2>1 DEF Used
<1> QED  BY <1>3, <1>4

\* Two tables hold the same entries.
Holds(m, x) == \E e \in 1 .. Len(m) : m[e] = x

\* grow() gives a larger table with the same entries.
LEMMA Rehash ==
    ASSUME Table(maps)
    PROVE  /\ Table(Rehashed) /\ Len(Rehashed) > Len(maps)
           /\ Cardinality(Used(Rehashed)) = Cardinality(Used(maps))
           /\ \A x \in Entry : x.key # 0 => (Holds(Rehashed, x) <=> Holds(maps, x))
<1> DEFINE L == Len(maps)
           C == ((L + Pad) * 3) \div 2
           F == create(C)
           Def(v, i) == IF maps[i].key = 0 THEN v
                        ELSE [v EXCEPT ![Slot(v, maps[i].key)] = maps[i]]
           M == CHOOSE g : g = [i \in 0 .. L |-> IF i = 0 THEN F ELSE Def(g[i - 1], i)]
<1>1. Rehashed = M[L]
  BY Zenon DEF Rehashed
<1>2. L \in Nat /\ C \in Nat /\ C > L
  BY KvDbAssumption DEF Table
<1>3. M = [i \in 0 .. L |-> IF i = 0 THEN F ELSE Def(M[i - 1], i)]
  <2>1. FiniteNatInductiveDefHypothesis(M, F, Def, 0, L)
    BY Zenon DEF FiniteNatInductiveDefHypothesis
  <2> HIDE DEF M, F, Def, L
  <2>2. FiniteNatInductiveDefConclusion(M, F, Def, 0, L)
    BY <1>2, <2>1, FiniteNatInductiveDef
  <2> QED  BY <2>2, Zenon DEF FiniteNatInductiveDefConclusion
<1> DEFINE In(i) == {j \in 1 .. i : maps[j].key # 0}
           Good(i) ==
             /\ Table(M[i]) /\ Len(M[i]) = C
             /\ Cardinality(Used(M[i])) = Cardinality(In(i))
             /\ \A e \in Used(M[i]) : \E j \in 1 .. i : M[i][e] = maps[j]
             /\ \A j \in In(i) : Holds(M[i], maps[j])
<1>4. /\ M[0] = F
      /\ \A i \in 1 .. L : M[i] = Def(M[i - 1], i)
  <2> HIDE DEF M, F, Def, L
  <2>1. \A i \in 0 .. L : M[i] = IF i = 0 THEN F ELSE Def(M[i - 1], i)
    BY <1>3, Zenon
  <2> QED  BY <1>2, <2>1
<1> HIDE DEF M
<1>5. Good(0)
  <2>1. F \in Seq(Entry) /\ Len(F) = C /\ \A e \in 1 .. C : F[e].key = 0 /\ F[e].off = 0
    <3>1. F = [j \in 1 .. C |-> [key |-> 0, off |-> 0]]
      BY DEF create
    <3> HIDE DEF F, C
    <3> QED  BY <1>2, <3>1 DEF Entry
  <2> HIDE DEF F, C
  <2>2. Used(F) = {} /\ In(0) = {}
    BY <2>1 DEF Used
  <2>3. Table(F)
    BY <2>1 DEF Table
  <2> QED  BY <1>4, <2>1, <2>2, <2>3
<1>6. \A i \in 1 .. L : maps[i] \in Entry
  BY DEF Table
<1>7. ASSUME NEW i \in 1 .. L, Good(i - 1) PROVE Good(i)
  <2> DEFINE v == M[i - 1]
             h == maps[i].key
  <2>1. M[i] = IF h = 0 THEN v ELSE [v EXCEPT ![Slot(v, h)] = maps[i]]
    BY <1>4
  <2>2. h \in Nat /\ i - 1 \in Nat
    BY <1>2, <1>6 DEF Entry
  <2>3. CASE h = 0
    <3>1. In(i) = In(i - 1)
      BY <1>2, <2>3
    <3>2. M[i] = M[i - 1]
      BY <2>1, <2>3
    <3>3. 1 .. i - 1 \subseteq 1 .. i
      BY <1>2
    <3> HIDE DEF In
    <3> QED  BY <1>7, <3>1, <3>2, <3>3
  <2>4. CASE h # 0
    <3> DEFINE s == Slot(v, h)
    <3>1. v \in Seq(Entry) /\ Table(v) /\ Len(v) = C
      BY <1>7 DEF Table
    <3>2. In(i) = In(i - 1) \cup {i} /\ i \notin In(i - 1)
      BY <1>2, <2>4
    <3>3. IsFiniteSet(In(i - 1)) /\ Cardinality(In(i - 1)) \in Nat /\ Cardinality(In(i - 1)) < C
      <4>1. In(i - 1) \subseteq 1 .. i - 1
        OBVIOUS
      <4>2. IsFiniteSet(1 .. i - 1) /\ Cardinality(1 .. i - 1) = i - 1
        <5> DEFINE b == i - 1
        <5>1. b \in Nat
          BY <2>2
        <5> HIDE DEF b
        <5>2. IsFiniteSet(1 .. b) /\ Cardinality(1 .. b) = b
          BY <5>1, FS_Interval
        <5> QED  BY <5>2 DEF b
      <4> HIDE DEF In
      <4>3. IsFiniteSet(In(i - 1)) /\ Cardinality(In(i - 1)) <= i - 1
        BY <4>1, <4>2, FS_Subset
      <4>4. Cardinality(In(i - 1)) \in Nat
        BY <4>3, FS_CardinalityType
      <4> HIDE DEF C, L
      <4> QED  BY <1>2, <4>3, <4>4
    <3>4. s # NoSlot
      <4>1. Cardinality(Used(v)) < Len(v)
        BY <1>7, <3>1, <3>3
      <4>2. PICK e \in 1 .. Len(v) : v[e].key = 0
        BY <3>1, <4>1, UsedFinite
      <4> HIDE DEF v, h
      <4> QED  BY <2>2, <3>1, <4>2, FreeSlot
    <3>5. /\ Table(M[i]) /\ Len(M[i]) = Len(v) /\ s \in 1 .. Len(v)
          /\ M[i][s] = maps[i]
          /\ \A e \in 1 .. Len(v) : e # s => M[i][e] = v[e]
          /\ Used(M[i]) = Used(v) \cup {s}
      <4>1. M[i] = [v EXCEPT ![s] = maps[i]] /\ maps[i] \in Entry /\ h \in Nat \ {0}
        BY <1>6, <2>1, <2>2, <2>4
      <4>2. maps[i].key = h
        OBVIOUS
      <4> HIDE DEF v, h
      <4>3. s # NoSlot /\ s = Slot(v, h)
        BY <3>4
      <4> HIDE DEF s
      <4> DEFINE n == M[i]
                 x == maps[i]
      <4>4. n = [v EXCEPT ![s] = x] /\ x \in Entry /\ x.key = h /\ h \in Nat \ {0}
        BY <4>1, <4>2
      <4> HIDE DEF n, x
      <4>5. s \in 1 .. Len(v)
        BY <3>1, <4>3, <4>4, SlotIn
      <4>6. /\ n \in Seq(Entry) /\ Len(n) = Len(v) /\ n[s] = x
            /\ \A e \in 1 .. Len(v) : e # s => n[e] = v[e]
        BY <3>1, <4>4, <4>5
      <4>7. n[s].key = h
        BY <4>4, <4>6
      <4>8. Table(n) /\ Used(n) = Used(v) \cup {s}
        <5>1. Table(v) /\ h \in Nat \ {0} /\ s = Slot(v, h) /\ s # NoSlot
          BY <3>1, <4>3, <4>4
        <5> HIDE DEF L, C, F, Def, In, Good
        <5> QED  BY <5>1, <4>6, <4>7, Put
      <4> QED  BY <4>5, <4>6, <4>8 DEF n, x
    <3>6. s \notin Used(v)
      <4> SUFFICES ASSUME s \in Used(v) PROVE FALSE
        OBVIOUS
      <4>1. v[s].key = h
        <5>1. v[s].key \in {0, h}
          <6> HIDE DEF v, h
          <6> QED  BY <2>2, <3>1, <3>4, SlotIn
        <5> QED  BY <5>1 DEF Used
      <4>2. PICK j \in 1 .. i - 1 : v[s] = maps[j]
        BY <1>7
      <4>3. maps[j].key = maps[i].key /\ maps[i].key # 0 /\ j \in 1 .. L /\ j # i
        BY <1>2, <2>4, <4>1, <4>2
      <4>4. Slot(maps, maps[j].key) = j /\ Slot(maps, maps[i].key) = i
        BY <4>3 DEF Table
      <4> QED  BY <4>3, <4>4
    <3>7. Cardinality(Used(M[i])) = Cardinality(In(i))
      <4>1. IsFiniteSet(Used(v)) /\ Cardinality(Used(v)) = Cardinality(In(i - 1))
        BY <1>7, <3>1, UsedFinite
      <4>2. Used(M[i]) = Used(v) \cup {s}
        BY <3>5
      <4> HIDE DEF In, v, s
      <4>3. Cardinality(Used(v) \cup {s}) = Cardinality(Used(v)) + 1
        BY <3>6, <4>1, FS_AddElement
      <4>4. Cardinality(In(i - 1) \cup {i}) = Cardinality(In(i - 1)) + 1
        BY <3>2, <3>3, FS_AddElement
      <4> QED  BY <3>2, <4>1, <4>2, <4>3, <4>4
    <3>8. ASSUME NEW e \in Used(M[i]) PROVE \E j \in 1 .. i : M[i][e] = maps[j]
      <4>1. CASE e = s
        BY <3>5, <4>1
      <4>2. CASE e # s
        <5>1. e \in Used(v) /\ e \in 1 .. Len(v) /\ M[i][e] = v[e]
          BY <3>5, <3>8, <4>2 DEF Used
        <5>2. PICK j \in 1 .. i - 1 : v[e] = maps[j]
          BY <1>7, <5>1
        <5>3. j \in 1 .. i
          BY <1>2
        <5> QED  BY <5>1, <5>2, <5>3
      <4> QED  BY <4>1, <4>2
    <3>9. ASSUME NEW j \in In(i) PROVE Holds(M[i], maps[j])
      <4>1. CASE j = i
        BY <3>5, <4>1 DEF Holds
      <4>2. CASE j # i
        <5>1. j \in In(i - 1)
          <6> HIDE DEF In
          <6> QED  BY <3>2, <3>9, <4>2
        <5>2. PICK e \in 1 .. Len(v) : v[e] = maps[j]
          BY <1>7, <5>1 DEF Holds
        <5>3. e \in Used(v)
          BY <5>1, <5>2 DEF Used
        <5>4. M[i][e] = maps[j] /\ e \in 1 .. Len(M[i])
          BY <3>5, <3>6, <5>2, <5>3
        <5> QED  BY <5>4 DEF Holds
      <4> QED  BY <4>1, <4>2
    <3> QED  BY <3>1, <3>5, <3>7, <3>8, <3>9
  <2> QED  BY <2>3, <2>4
<1>8. Good(L)
  <2> DEFINE Bad == {i \in 0 .. L : ~Good(i)}
  <2> HIDE DEF Good, L
  <2> SUFFICES ASSUME Bad # {} PROVE FALSE
    BY <1>2
  <2>1. Bad \in SUBSET Nat
    BY <1>2
  <2>2. PICK i \in Bad : \A j \in Bad : i <= j
    <3> HIDE DEF Bad
    <3> QED  BY <2>1, Least
  <2>3. i \in 0 .. L /\ ~Good(i)
    OBVIOUS
  <2>4. i \in 1 .. L
    BY <1>2, <1>5, <2>3
  <2>5. i - 1 \in 0 .. L /\ i - 1 \notin Bad
    <3>1. i - 1 \in 0 .. L /\ ~(i <= i - 1)
      BY <1>2, <2>4
    <3> HIDE DEF Bad
    <3> QED  BY <2>2, <3>1
  <2>6. Good(i - 1)
    BY <2>5
  <2> QED  BY <1>7, <2>3, <2>4, <2>6
<1>9. In(L) = Used(maps)
  BY DEF Used
<1>10. ASSUME NEW x \in Entry, x.key # 0 PROVE Holds(M[L], x) <=> Holds(maps, x)
  <2>1. ASSUME Holds(M[L], x) PROVE Holds(maps, x)
    <3>1. PICK e \in Used(M[L]) : M[L][e] = x
      BY <1>10, <2>1 DEF Holds, Used
    <3>2. PICK j \in 1 .. L : M[L][e] = maps[j]
      BY <1>8
    <3> QED  BY <3>1, <3>2 DEF Holds
  <2>2. ASSUME Holds(maps, x) PROVE Holds(M[L], x)
    <3>1. PICK j \in In(L) : maps[j] = x
      BY <1>10, <2>2 DEF Holds
    <3> QED  BY <1>8, <3>1
  <2> QED  BY <2>1, <2>2
<1> QED  BY <1>1, <1>2, <1>8, <1>9, <1>10

\* 0 is not a hash; it marks a free slot.
LEMMA HashIs ==
    ASSUME NEW k \in Keys
    PROVE  hash(k) \in Nat \ {0}
  BY KvDbAssumption DEF hash

\* The index that grew in time has a slot for every hash.
LEMMA GrownIs ==
    ASSUME Table(maps), isize = Cardinality(Used(maps))
    PROVE  /\ Table(Grown) /\ isize = Cardinality(Used(Grown))
           /\ \A x \in Entry : x.key # 0 => (Holds(Grown, x) <=> Holds(maps, x))
           /\ \A h \in Nat : Slot(Grown, h) # NoSlot
<1>1. maps \in Seq(Entry) /\ Len(maps) \in Nat /\ isize \in 0 .. Len(maps)
  BY UsedFinite DEF Table
<1>2. /\ Table(Grown) /\ isize = Cardinality(Used(Grown)) /\ isize < Len(Grown)
      /\ \A x \in Entry : x.key # 0 => (Holds(Grown, x) <=> Holds(maps, x))
  <2>1. CASE TooFull
    <3>1. Grown = Rehashed
      BY <2>1 DEF Grown
    <3>2. Len(Rehashed) \in Nat
      BY Rehash DEF Table
    <3> QED  BY <1>1, <3>1, <3>2, Rehash
  <2>2. CASE ~TooFull
    <3>1. Grown = maps
      BY <2>2 DEF Grown
    <3>2. Len(maps) # 0 /\ 10 * isize <= 7 * Len(maps)
      BY <1>1, <2>2 DEF TooFull
    <3> QED  BY <1>1, <3>1, <3>2
  <2> QED  BY <2>1, <2>2
<1>3. PICK e \in 1 .. Len(Grown) : Grown[e].key = 0
  BY <1>2, UsedFinite DEF Table
<1>4. ASSUME NEW h \in Nat PROVE Slot(Grown, h) # NoSlot
  BY <1>2, <1>3, FreeSlot DEF Table
<1> QED  BY <1>2, <1>4

\* In other words, what an index says of the records depends on its entries only.
LEMMA IndexedSame ==
    ASSUME NEW m, Table(m), NEW n, Table(n), NEW l, Indexed(m, l), Len(l) \in Nat,
           \A i \in 2 .. Len(l) : hash(l[i].key) # 0,
           \A x \in Entry : x.key # 0 => (Holds(n, x) <=> Holds(m, x))
    PROVE  Indexed(n, l)
<1>1. ASSUME NEW e \in Used(n) PROVE Newest(l, n[e].off, n[e].key, Len(l))
  <2>1. n[e] \in Entry /\ n[e].key # 0 /\ Holds(n, n[e])
    BY DEF Used, Table, Holds
  <2>2. PICK d \in 1 .. Len(m) : m[d] = n[e]
    BY <2>1 DEF Holds
  <2>3. d \in Used(m)
    BY <2>1, <2>2 DEF Used
  <2> QED  BY <2>2, <2>3 DEF Indexed
<1>2. ASSUME NEW i \in 2 .. Len(l)
      PROVE  \E e \in 1 .. Len(n) : n[e].key = hash(l[i].key)
  <2>1. PICK d \in 1 .. Len(m) : m[d].key = hash(l[i].key)
    BY DEF Indexed
  <2>2. m[d] \in Entry /\ m[d].key # 0 /\ Holds(m, m[d])
    BY <2>1 DEF Table, Holds
  <2>3. PICK e \in 1 .. Len(n) : n[e] = m[d]
    BY <2>2 DEF Holds
  <2> QED  BY <2>1, <2>3
<1> QED  BY <1>1, <1>2 DEF Indexed

\* What an index gives for a hash is its newest record.
LEMMA Looked ==
    ASSUME NEW m, Table(m), NEW l, Indexed(m, l), Len(l) \in Nat \ {0},
           NEW g \in Nat \ {0}, NEW s, s = Slot(m, g)
    PROVE  Newest(l, IF s = NoSlot THEN 0 ELSE m[s].off, g, Len(l))
<1>1. CASE s # NoSlot /\ m[s].key = g
  <2>1. s \in 1 .. Len(m)
    BY <1>1, SlotIn DEF Table
  <2>2. s \in Used(m)
    BY <1>1, <2>1 DEF Used
  <2> QED  BY <1>1, <2>2 DEF Indexed
<1>2. CASE s = NoSlot \/ m[s].key # g
  <2>1. (IF s = NoSlot THEN 0 ELSE m[s].off) = 0
    <3>1. CASE s # NoSlot
      <4>1. s \in 1 .. Len(m) /\ m[s].key \in {0, g}
        BY <3>1, SlotIn DEF Table
      <4>2. m[s].off = 0
        BY <1>2, <3>1, <4>1 DEF Table
      <4> QED  BY <3>1, <4>2
    <3> QED  BY <3>1
  <2>2. ASSUME NEW p \in 1 .. Len(l) - 1, hash(l[p + 1].key) = g PROVE FALSE
    <3>1. p + 1 \in 2 .. Len(l)
      OBVIOUS
    <3>2. PICK e \in 1 .. Len(m) : m[e].key = g
      BY <2>2, <3>1 DEF Indexed
    <3>3. Slot(m, g) = e /\ e # NoSlot
      BY <3>2, SlotOfKey DEF NoSlot
    <3> QED  BY <1>2, <3>2, <3>3
  <2>3. Newest(l, 0, g, Len(l))
    BY <2>2 DEF Newest
  <2> QED  BY <2>1, <2>3
<1> QED  BY <1>1, <1>2

\* index_update() leaves a table in which the hash of the key has the entry it
\* refers to, with the newest record of the hash.
LEMMA Updated ==
    ASSUME Table(maps), isize = Cardinality(Used(maps)), Indexed(maps, log),
           Chained(log), NEW k \in Keys, NEW ix, ix = index_update(k)
    PROVE  /\ Table(ix.maps) /\ ix.size = Cardinality(Used(ix.maps))
           /\ Indexed(ix.maps, log)
           /\ ix.ref \in 1 .. Len(ix.maps)
           /\ ix.maps[ix.ref] = [key |-> hash(k), off |-> ix.off]
           /\ Newest(log, ix.off, hash(k), Len(log))
<1> DEFINE m == Grown
           h == hash(k)
           s == Slot(m, h)
           n == update(m, h)
<1>1. ix.maps = n /\ ix.ref = s /\ ix.off = m[s].off
      /\ ix.size = IF m[s].key = 0 THEN isize + 1 ELSE isize
  BY Zenon DEF index_update
<1>2. h \in Nat \ {0} /\ Len(log) \in Nat \ {0}
  BY HashIs DEF Chained, Log
<1>3. /\ Table(m) /\ isize = Cardinality(Used(m)) /\ s # NoSlot
      /\ \A x \in Entry : x.key # 0 => (Holds(m, x) <=> Holds(maps, x))
  <2> HIDE DEF m, h
  <2> QED  BY <1>2, GrownIs DEF m
<1>4. Indexed(m, log)
  <2>1. \A i \in 2 .. Len(log) : hash(log[i].key) # 0
    BY HashIs DEF Chained, Log, Record
  <2> HIDE DEF m
  <2> QED  BY <1>2, <1>3, <2>1, IndexedSame
<1>5. Newest(log, m[s].off, h, Len(log))
  <2> HIDE DEF m, h
  <2> QED  BY <1>2, <1>3, <1>4, Looked
<1> HIDE DEF m, h
<1>6. m \in Seq(Entry) /\ s \in 1 .. Len(m) /\ m[s].key \in {0, h}
  BY <1>2, <1>3, SlotIn DEF Table
<1>7. /\ n \in Seq(Entry) /\ Len(n) = Len(m) /\ n[s] = [key |-> h, off |-> m[s].off]
      /\ \A e \in 1 .. Len(m) : e # s => n[e] = m[e]
  <2>1. n = [m EXCEPT ![s].key = h]
    BY Zenon DEF update
  <2>2. m[s] \in Entry
    BY <1>6
  <2> HIDE DEF n, s
  <2> QED  BY <1>2, <1>6, <2>1, <2>2 DEF Entry
<1> HIDE DEF n
<1>8. Table(n) /\ Used(n) = Used(m) \cup {s}
  <2>1. n[s].key = h
    BY <1>7
  <2> HIDE DEF s
  <2>2. s = Slot(m, h)
    BY DEF s
  <2> QED  BY <1>2, <1>3, <1>7, <2>1, <2>2, Put
<1> HIDE DEF s
<1>9. ix.size = Cardinality(Used(n))
  <2>1. IsFiniteSet(Used(m)) /\ (s \in Used(m) <=> m[s].key # 0)
    BY <1>6, UsedFinite DEF Used
  <2>2. CASE s \in Used(m)
    <3>1. Used(n) = Used(m)
      BY <1>8, <2>2
    <3> QED  BY <1>1, <1>3, <2>1, <2>2, <3>1
  <2>3. CASE s \notin Used(m)
    <3>1. Cardinality(Used(m) \cup {s}) = Cardinality(Used(m)) + 1
      BY <2>1, <2>3, FS_AddElement
    <3> QED  BY <1>1, <1>3, <1>8, <2>1, <2>3, <3>1
  <2> QED  BY <2>2, <2>3
<1>10. Indexed(n, log)
  <2>1. ASSUME NEW e \in Used(n) PROVE Newest(log, n[e].off, n[e].key, Len(log))
    <3>1. CASE e = s
      BY <1>5, <1>7, <3>1
    <3>2. CASE e # s
      <4>1. e \in Used(m) /\ n[e] = m[e]
        BY <1>7, <1>8, <3>2 DEF Used
      <4> QED  BY <1>4, <4>1 DEF Indexed
    <3> QED  BY <3>1, <3>2
  <2>2. ASSUME NEW i \in 2 .. Len(log)
        PROVE  \E e \in 1 .. Len(n) : n[e].key = hash(log[i].key)
    <3>1. PICK e \in 1 .. Len(m) : m[e].key = hash(log[i].key)
      BY <1>4 DEF Indexed
    <3>2. hash(log[i].key) # 0
      BY HashIs DEF Chained, Log, Record
    <3>3. n[e].key = m[e].key
      BY <1>6, <1>7, <3>1, <3>2
    <3> QED  BY <1>7, <3>1, <3>3
  <2> QED  BY <2>1, <2>2 DEF Indexed
<1> QED  BY <1>1, <1>5, <1>6, <1>7, <1>8, <1>9, <1>10 DEF h
-----------------------------------------------------------------------------
(***************************************************************************)
(* Chains.                                                                 *)
(***************************************************************************)
\* A link leads to an older record.
LEMMA Linked ==
    ASSUME Chained(log)
    PROVE  /\ Links = 0 .. Len(log) - 1 /\ Len(log) \in Nat \ {0}
           /\ \A o \in Links : o # 0 =>
                 /\ At(o) \in Record /\ At(o).off \in 0 .. o - 1
                 /\ Newest(log, At(o).off, hash(At(o).key), o)
<1>1. Len(log) \in Nat \ {0}
  BY DEF Chained, Log
<1>2. Links = 0 .. Len(log) - 1
  <2>1. DOMAIN log = 1 .. Len(log)
    BY <1>1 DEF Chained, Log
  <2>2. {i - 1 : i \in DOMAIN log} = 0 .. Len(log) - 1
    <3>1. ASSUME NEW o \in 0 .. Len(log) - 1 PROVE o \in {i - 1 : i \in DOMAIN log}
      <4>1. o + 1 \in DOMAIN log /\ o = o + 1 - 1
        BY <1>1, <2>1
      <4> QED  BY <4>1
    <3> QED  BY <1>1, <2>1, <3>1
  <2> QED  BY <1>1, <2>2 DEF Links
<1>3. ASSUME NEW o \in Links, o # 0
      PROVE  /\ At(o) \in Record /\ At(o).off \in 0 .. o - 1
             /\ Newest(log, At(o).off, hash(At(o).key), o)
  <2> DEFINE i == o + 1
  <2>1. i \in 2 .. Len(log) /\ i - 1 = o
    BY <1>1, <1>2, <1>3
  <2> HIDE DEF i
  <2>2. log[i] \in Record /\ Newest(log, log[i].off, hash(log[i].key), i - 1)
    BY <2>1 DEF Chained, Log
  <2>3. log[i] \in Record /\ Newest(log, log[i].off, hash(log[i].key), o)
    BY <2>1, <2>2
  <2> QED  BY <2>3 DEF At, Newest, i
<1> QED  BY <1>1, <1>2, <1>3

\* The greatest of a set of offsets, 0 if there is none.
Latest(S) == IF S = {} THEN 0 ELSE CHOOSE x \in S : \A y \in S : y <= x

\* A finite set of offsets has a greatest one.
LEMMA LatestIs ==
    ASSUME NEW n \in Nat, NEW S \in SUBSET (1 .. n)
    PROVE  /\ S = {} => Latest(S) = 0
           /\ S # {} => Latest(S) \in S /\ \A y \in S : y <= Latest(S)
<1>1. ASSUME S # {} PROVE Latest(S) \in S /\ \A y \in S : y <= Latest(S)
  <2> DEFINE T == {n - x : x \in S}
  <2>1. T \in SUBSET Nat /\ T # {}
    <3>1. \A x \in S : n - x \in Nat
      OBVIOUS
    <3> QED  BY <1>1, <3>1
  <2>2. PICK t \in T : \A y \in T : t <= y
    <3> HIDE DEF T
    <3> QED  BY <2>1, Least
  <2>3. PICK x \in S : t = n - x
    OBVIOUS
  <2>4. \A y \in S : y <= x
    <3> TAKE y \in S
    <3>1. n - y \in T
      OBVIOUS
    <3>2. n - x <= n - y
      BY <2>2, <2>3, <3>1
    <3> QED  BY <3>2
  <2>5. \E z \in S : \A y \in S : y <= z
    BY <2>4
  <2> QED  BY <1>1, <2>5 DEF Latest
<1> QED  BY <1>1 DEF Latest

\* The records of key k up to offset o.
Upto(k, o) == {p \in 1 .. o : At(p).key = k}

\* The search from a newest record of the hash finds the newest of the key.
LEMMA Searched ==
    ASSUME Chained(log), NEW k \in Keys, NEW from, Newest(log, from, hash(k), Len(log))
    PROVE  chain_lookup(k, from) = Latest(Upto(k, Len(log) - 1))
<1> DEFINE F(o) == IF o = 0 \/ hash(At(o).key) # hash(k) THEN 0 ELSE Latest(Upto(k, o))
           Eq(f) == f = [o \in Links |-> IF o = 0 \/ At(o).key = k THEN o ELSE f[At(o).off]]
           f == CHOOSE g : Eq(g)
           all == [o \in Links |-> F(o)]
<1>1. chain_lookup(k, from) = f[from]
  BY Zenon DEF chain_lookup
<1>2. ASSUME NEW n \in Nat, NEW o \in 0 .. n, \A p \in o + 1 .. n : At(p).key # k
      PROVE  Upto(k, n) = Upto(k, o)
  BY <1>2 DEF Upto
<1>3. ASSUME NEW o \in Links
      PROVE  F(o) = IF o = 0 \/ At(o).key = k THEN o ELSE F(At(o).off)
  <2>1. CASE o # 0 /\ At(o).key = k
    <3>1. o \in Nat /\ o \in Upto(k, o) /\ Upto(k, o) \in SUBSET (1 .. o)
      BY <2>1, Linked DEF Upto
    <3>2. Latest(Upto(k, o)) \in Upto(k, o) /\ o <= Latest(Upto(k, o))
      BY <3>1, LatestIs
    <3>3. Latest(Upto(k, o)) = o
      BY <3>1, <3>2
    <3> QED  BY <2>1, <3>3
  <2>2. CASE o # 0 /\ At(o).key # k
    <3> DEFINE p == At(o).off
    <3>1. p \in 0 .. o - 1 /\ o \in Nat /\ p \in Links /\ Newest(log, p, hash(At(o).key), o)
      BY <2>2, Linked
    <3> HIDE DEF p
    <3>2. p # 0 => hash(At(p).key) = hash(At(o).key)
      BY <3>1 DEF Newest, At
    <3>3. CASE hash(At(o).key) # hash(k)
      BY <2>2, <3>2, <3>3 DEF p
    <3>4. CASE hash(At(o).key) = hash(k)
      <4>1. \A q \in p + 1 .. o : At(q).key # k
        <5> TAKE q \in p + 1 .. o
        <5>1. CASE q = o
          BY <2>2, <5>1
        <5>2. CASE q # o
          <6>1. q \in p + 1 .. o - 1
            BY <3>1, <5>2
          <6> QED  BY <3>1, <3>4, <6>1 DEF Newest, At
        <5> QED  BY <5>1, <5>2
      <4>2. Upto(k, o) = Upto(k, p)
        BY <1>2, <3>1, <4>1
      <4>3. F(o) = Latest(Upto(k, p))
        BY <2>2, <3>4, <4>2
      <4>4. F(p) = Latest(Upto(k, p))
        <5>1. CASE p = 0
          <6>1. Upto(k, p) = {}
            BY <5>1 DEF Upto
          <6> QED  BY <5>1, <6>1 DEF Latest
        <5>2. CASE p # 0
          BY <3>2, <3>4, <5>2
        <5> QED  BY <5>1, <5>2
      <4> QED  BY <2>2, <4>3, <4>4 DEF p
    <3> QED  BY <3>3, <3>4
  <2> QED  BY <2>1, <2>2
<1>4. \A o \in Links : o # 0 => At(o).off \in Links /\ At(o).off < o /\ o \in Nat
  BY Linked
<1>5. Eq(f)
  <2>1. Eq(all)
    <3>1. ASSUME NEW o \in Links
          PROVE  all[o] = IF o = 0 \/ At(o).key = k THEN o ELSE all[At(o).off]
      <4> HIDE DEF F
      <4> QED  BY <1>3, <1>4
    <3>2. all = [o \in Links |-> all[o]]
      OBVIOUS
    <3> HIDE DEF all
    <3> QED  BY <3>1, <3>2
  <2> HIDE DEF Eq, all
  <2> QED  BY <2>1
<1> HIDE DEF F, f
<1>6. \A o \in Links : f[o] = IF o = 0 \/ At(o).key = k THEN o ELSE f[At(o).off]
  BY <1>5, Zenon
<1>7. \A o \in Links : f[o] = F(o)
  <2> DEFINE Bad == {o \in Links : f[o] # F(o)}
  <2> SUFFICES ASSUME Bad # {} PROVE FALSE
    OBVIOUS
  <2>1. Bad \in SUBSET Nat
    BY Linked
  <2>2. PICK o \in Bad : \A p \in Bad : o <= p
    <3> HIDE DEF Bad
    <3> QED  BY <2>1, Least
  <2>3. CASE o = 0 \/ At(o).key = k
    BY <1>3, <1>6, <2>3
  <2>4. CASE ~(o = 0 \/ At(o).key = k)
    <3>1. At(o).off \in Links /\ At(o).off < o /\ o \in Nat
      BY <1>4, <2>4
    <3>2. At(o).off \in Nat
      BY <3>1, Linked
    <3>3. At(o).off \notin Bad
      <4> HIDE DEF Bad
      <4> QED  BY <2>2, <3>1, <3>2
    <3>4. f[At(o).off] = F(At(o).off)
      BY <3>1, <3>3
    <3> QED  BY <1>3, <1>6, <2>4, <3>4
  <2> QED  BY <2>3, <2>4
<1>8. F(from) = Latest(Upto(k, Len(log) - 1))
  <2> DEFINE n == Len(log) - 1
  <2>1. from \in 0 .. n /\ n \in Nat /\ (from # 0 => hash(At(from).key) = hash(k))
    BY Linked DEF Newest, At
  <2>2. \A p \in from + 1 .. n : At(p).key # k
    BY DEF Newest, At
  <2> HIDE DEF n
  <2>3. Upto(k, n) = Upto(k, from)
    BY <1>2, <2>1, <2>2
  <2>4. from = 0 => Upto(k, from) = {}
    BY DEF Upto
  <2>5. F(from) = Latest(Upto(k, from))
    <3>1. CASE from = 0
      <4>1. Latest(Upto(k, from)) = 0
        BY <2>4, <3>1 DEF Latest
      <4> QED  BY <3>1, <4>1 DEF F
    <3>2. CASE from # 0
      BY <2>1, <3>2 DEF F
    <3> QED  BY <3>1, <3>2
  <2> QED  BY <2>3, <2>5 DEF n
<1>9. from \in Links
  BY Linked DEF Newest
<1> QED  BY <1>1, <1>7, <1>8, <1>9

\* The chain from an offset holds the records of its hash up to it.
LEMMA ChainIs ==
    ASSUME Chained(log), NEW f,
           f = CHOOSE g : g = [off \in Links |->
                                 IF off = 0 THEN {} ELSE {off} \cup g[At(off).off]],
           NEW o \in Links
    PROVE  f[o] = IF o = 0 THEN {} ELSE {p \in 1 .. o : hash(At(p).key) = hash(At(o).key)}
<1> DEFINE F(x) == IF x = 0 THEN {} ELSE {p \in 1 .. x : hash(At(p).key) = hash(At(x).key)}
           Eq(g) == g = [x \in Links |-> IF x = 0 THEN {} ELSE {x} \cup g[At(x).off]]
           all == [x \in Links |-> F(x)]
<1>1. f = CHOOSE g : Eq(g)
  BY Zenon
<1>2. \A x \in Links : x # 0 => At(x).off \in Links /\ At(x).off < x /\ x \in Nat
  BY Linked
<1>3. ASSUME NEW x \in Links
      PROVE  F(x) = IF x = 0 THEN {} ELSE {x} \cup F(At(x).off)
  <2>1. CASE x # 0
    <3> DEFINE y == At(x).off
               g == hash(At(x).key)
               Of(n) == {p \in 1 .. n : hash(At(p).key) = g}
    <3>1. y \in 0 .. x - 1 /\ x \in Nat /\ Newest(log, y, g, x)
      BY <2>1, Linked
    <3>2. F(x) = Of(x)
      BY <2>1
    <3>3. F(y) = Of(y)
      <4>1. CASE y # 0
        <5>1. hash(At(y).key) = g
          BY <3>1, <4>1 DEF Newest, At
        <5> QED  BY <4>1, <5>1
      <4>2. CASE y = 0
        <5>1. Of(y) = {}
          <6> HIDE DEF y, g
          <6> QED  BY <4>2
        <5> QED  BY <4>2, <5>1
      <4> QED  BY <4>1, <4>2
    <3>4. \A p \in y + 1 .. x - 1 : hash(At(p).key) # g
      <4> HIDE DEF y, g
      <4> QED  BY <3>1 DEF Newest, At
    <3>5. g = hash(At(x).key)
      OBVIOUS
    <3>6. Of(x) = {x} \cup Of(y)
      <4> HIDE DEF y, g
      <4> QED  BY <2>1, <3>1, <3>4, <3>5
    <3> QED  BY <2>1, <3>2, <3>3, <3>6
  <2>2. CASE x = 0
    BY <2>2
  <2> QED  BY <2>1, <2>2
<1>4. Eq(f)
  <2>1. Eq(all)
    <3>1. ASSUME NEW x \in Links
          PROVE  all[x] = IF x = 0 THEN {} ELSE {x} \cup all[At(x).off]
      <4> HIDE DEF F
      <4> QED  BY <1>2, <1>3
    <3>2. all = [x \in Links |-> all[x]]
      OBVIOUS
    <3> HIDE DEF all
    <3> QED  BY <3>1, <3>2
  <2> HIDE DEF Eq, all
  <2> QED  BY <1>1, <2>1
<1> HIDE DEF F
<1>5. \A x \in Links : f[x] = IF x = 0 THEN {} ELSE {x} \cup f[At(x).off]
  BY <1>4, Zenon
<1>6. \A x \in Links : f[x] = F(x)
  <2> DEFINE Bad == {x \in Links : f[x] # F(x)}
  <2> SUFFICES ASSUME Bad # {} PROVE FALSE
    OBVIOUS
  <2>1. Bad \in SUBSET Nat
    BY Linked
  <2>2. PICK x \in Bad : \A y \in Bad : x <= y
    <3> HIDE DEF Bad
    <3> QED  BY <2>1, Least
  <2>3. CASE x = 0
    BY <1>3, <1>5, <2>3
  <2>4. CASE x # 0
    <3>1. At(x).off \in Links /\ At(x).off < x /\ x \in Nat
      BY <1>2, <2>4
    <3>2. At(x).off \in Nat
      BY <3>1, Linked
    <3>3. At(x).off \notin Bad
      <4> HIDE DEF Bad
      <4> QED  BY <2>2, <3>1, <3>2
    <3>4. f[At(x).off] = F(At(x).off)
      BY <3>1, <3>3
    <3> QED  BY <1>3, <1>5, <2>4, <3>4
  <2> QED  BY <2>3, <2>4
<1> QED  BY <1>6 DEF F

\* All records but the first one are records of a key.
LEMMA RecordsAre ==
    ASSUME Chained(log)
    PROVE  Records = 2 .. Len(log)
<1>1. Sentinel.key = NoKey /\ \A r \in Record : r.key # NoKey
  BY KvDbAssumption DEF Sentinel, Record
<1>2. Len(log) \in Nat
  BY DEF Chained, Log
<1>3. log[1].key = NoKey /\ \A i \in 2 .. Len(log) : log[i].key # NoKey
  BY <1>1 DEF Chained, Log
<1> QED  BY <1>2, <1>3 DEF Records

\* With LogInv and IndexInv no record is missing in the chain of its hash.
LEMMA ChainsComplete ==
    ASSUME LogInv, Table(maps), Indexed(maps, log)
    PROVE  ChainsAreComplete
<1> DEFINE f == CHOOSE g : g = [off \in Links |->
                                  IF off = 0 THEN {} ELSE {off} \cup g[At(off).off]]
<1> SUFFICES ASSUME NEW j \in 1 .. Len(maps), maps[j].key # 0
             PROVE  /\ f[maps[j].off] =
                         {i - 1 : i \in {i \in Records : hash(log[i].key) = maps[j].key}}
                    /\ \A off \in f[maps[j].off] : At(off).off < off
  BY Zenon DEF ChainsAreComplete
<1> DEFINE o == maps[j].off
           g == maps[j].key
           n == Len(log)
<1>1. Newest(log, o, g, n)
  BY DEF Indexed, Used
<1>2. Chained(log) /\ n \in Nat
  <2>1. CASE status = "open"
    BY <2>1 DEF LogInv, Chained, Log
  <2>2. CASE status # "open"
    <3>1. log = <<>>
      BY <2>2 DEF LogInv
    <3>2. n = 0
      BY <3>1
    <3> HIDE DEF n, o, g
    <3>3. FALSE
      BY <1>1, <3>2 DEF Newest
    <3> QED  BY <3>3
  <2> QED  BY <2>1, <2>2
<1>3. o \in Links /\ o \in 0 .. n - 1
  BY <1>1, <1>2, Linked DEF Newest
<1>4. f[o] = IF o = 0 THEN {} ELSE {p \in 1 .. o : hash(At(p).key) = hash(At(o).key)}
  <2> HIDE DEF o
  <2> QED  BY <1>2, <1>3, ChainIs
<1>5. f[o] = {p \in 1 .. o : hash(At(p).key) = g}
  <2>1. o # 0 => hash(At(o).key) = g
    BY <1>1 DEF Newest, At
  <2> HIDE DEF f, o, g
  <2> QED  BY <1>4, <2>1
<1> HIDE DEF f, o, g
<1>6. f[o] = {p \in 1 .. n - 1 : hash(At(p).key) = g}
  <2>1. \A p \in o + 1 .. n - 1 : hash(At(p).key) # g
    BY <1>1 DEF Newest, At
  <2> HIDE DEF n
  <2> QED  BY <1>2, <1>3, <1>5, <2>1
<1>7. {p \in 1 .. n - 1 : hash(At(p).key) = g} =
        {i - 1 : i \in {i \in 2 .. n : hash(log[i].key) = g}}
  <2> DEFINE P == {p \in 1 .. n - 1 : hash(At(p).key) = g}
             I == {i \in 2 .. n : hash(log[i].key) = g}
  <2>1. ASSUME NEW p \in P PROVE p \in {i - 1 : i \in I}
    <3>1. p + 1 \in I /\ p = p + 1 - 1
      BY DEF At
    <3> HIDE DEF I
    <3> QED  BY <3>1
  <2>2. ASSUME NEW i \in I PROVE i - 1 \in P
    <3>1. i - 1 \in 1 .. n - 1 /\ i - 1 + 1 = i
      BY <1>2
    <3> QED  BY <3>1 DEF At
  <2> HIDE DEF P, I
  <2>3. P = {i - 1 : i \in I}
    BY <2>1, <2>2
  <2> QED  BY <2>3 DEF P, I
<1>8. \A off \in f[o] : At(off).off < off
  <2> TAKE p \in f[o]
  <2>1. p \in Links /\ p # 0
    BY <1>2, <1>6, Linked
  <2>2. p \in Nat /\ At(p).off \in 0 .. p - 1
    BY <1>2, <2>1, Linked
  <2> QED  BY <2>2
<1>9. Records = 2 .. n
  BY <1>2, RecordsAre
<1> QED  BY <1>6, <1>7, <1>8, <1>9 DEF o, g
-----------------------------------------------------------------------------
(***************************************************************************)
(* What the log says of a key.                                             *)
(***************************************************************************)
\* Current(k), Records with a value, and Present of the log l.
CurrentIn(l, k) ==
    LET R == {i \in {i \in 1 .. Len(l) : l[i].key # NoKey} : l[i].key = k}
    IN  IF R = {} THEN NoVal ELSE l[CHOOSE i \in R : \A j \in R : j <= i].val

ValuesIn(l) == {i \in {i \in 1 .. Len(l) : l[i].key # NoKey} : l[i].val # NoVal}

\* CurrentIn is Current, of any log.
LEMMA CurrentOf ==
    ASSUME NEW k
    PROVE  Current(k) = CurrentIn(log, k)
  BY Zenon DEF Current, RecordsOf, Records, CurrentIn

\* It is what the newest record of the key says.
LEMMA CurrentIs ==
    ASSUME Chained(log), NEW k \in Keys
    PROVE  Current(k) = Found(Latest(Upto(k, Len(log) - 1)))
<1> DEFINE n == Len(log) - 1
           R == RecordsOf(k)
           U == Upto(k, n)
           i == CHOOSE x \in R : \A j \in R : j <= x
<1>1. n \in Nat /\ Len(log) = n + 1
  BY Linked
<1>2. Records = 2 .. n + 1
  BY <1>1, RecordsAre
<1> HIDE DEF n
<1>3. R \subseteq 2 .. n + 1 /\ \A x \in 2 .. n + 1 : x \in R <=> x - 1 \in U
  <2>1. ASSUME NEW x \in 2 .. n + 1 PROVE x \in R <=> x - 1 \in U
    <3>1. x - 1 \in 1 .. n /\ x - 1 + 1 = x
      BY <1>1
    <3> QED  BY <1>2, <3>1 DEF RecordsOf, Upto, At
  <2> QED  BY <1>2, <2>1 DEF RecordsOf
<1>4. U \in SUBSET (1 .. n)
  BY DEF Upto
<1> HIDE DEF R, U
<1>5. \A p \in U : p + 1 \in R /\ p \in 1 .. n
  <2> TAKE p \in U
  <2>1. p \in 1 .. n /\ p + 1 \in 2 .. n + 1 /\ p + 1 - 1 = p
    BY <1>1, <1>4
  <2> QED  BY <1>3, <2>1
<1>6. CASE U = {}
  <2>1. R = {}
    BY <1>3, <1>6
  <2>2. Latest(U) = 0
    BY <1>6 DEF Latest
  <2> QED  BY <2>1, <2>2 DEF Current, Found, R, U, n
<1>7. CASE U # {}
  <2> DEFINE p == Latest(U)
  <2>1. p \in U /\ \A q \in U : q <= p
    BY <1>1, <1>4, <1>7, LatestIs
  <2> HIDE DEF p
  <2>2. p + 1 \in R /\ \A j \in R : j <= p + 1
    <3>1. ASSUME NEW j \in R PROVE j <= p + 1
      <4>1. j - 1 \in U /\ j \in Nat
        BY <1>1, <1>3
      <4>2. j - 1 <= p
        BY <2>1, <4>1
      <4> QED  BY <1>4, <2>1, <4>1, <4>2
    <3> QED  BY <1>5, <2>1, <3>1
  <2>3. i \in R /\ \A j \in R : j <= i
    BY <2>2
  <2>4. i = p + 1
    <3>1. i <= p + 1 /\ p + 1 <= i
      BY <2>2, <2>3
    <3> HIDE DEF i
    <3>2. i \in Nat /\ p \in Nat
      BY <1>1, <1>3, <1>4, <2>1, <2>3
    <3> QED  BY <3>1, <3>2
  <2>5. Current(k) = log[i].val
    <3>1. R # {}
      BY <2>2
    <3> QED  BY <3>1, Zenon DEF Current, R
  <2>6. Found(p) = log[p + 1].val
    <3>1. p # 0
      BY <1>4, <2>1
    <3> QED  BY <3>1 DEF Found, At
  <2> QED  BY <2>4, <2>5, <2>6 DEF p, U, n
<1> QED  BY <1>6, <1>7

\* A record that is appended speaks for its key.
LEMMA CurrentAppended ==
    ASSUME NEW l \in Log, NEW r \in Record, NEW k \in Keys
    PROVE  CurrentIn(Append(l, r), k) = IF r.key = k THEN r.val ELSE CurrentIn(l, k)
<1> DEFINE m == Append(l, r)
           n == Len(l)
           R == {i \in {i \in 1 .. Len(l) : l[i].key # NoKey} : l[i].key = k}
           S == {i \in {i \in 1 .. Len(m) : m[i].key # NoKey} : m[i].key = k}
<1>1. n \in Nat /\ Len(m) = n + 1 /\ m[n + 1] = r /\ \A i \in 1 .. n : m[i] = l[i]
  BY DEF Log
<1>2. r.key # NoKey
  BY KvDbAssumption DEF Record
<1>3. CurrentIn(l, k) = IF R = {} THEN NoVal
                        ELSE l[CHOOSE i \in R : \A j \in R : j <= i].val
  BY Zenon DEF CurrentIn
<1>4. CurrentIn(m, k) = IF S = {} THEN NoVal
                        ELSE m[CHOOSE i \in S : \A j \in S : j <= i].val
  BY Zenon DEF CurrentIn
<1>5. R \subseteq 1 .. n
  OBVIOUS
<1> HIDE DEF m
<1>6. CASE r.key = k
  <2>1. n + 1 \in S /\ \A j \in S : j <= n + 1
    BY <1>1, <1>2, <1>6
  <2>2. S \subseteq Nat
    OBVIOUS
  <2> HIDE DEF S
  <2> DEFINE i == CHOOSE i \in S : \A j \in S : j <= i
  <2>3. i \in S /\ \A j \in S : j <= i
    BY <2>1
  <2>4. i <= n + 1 /\ n + 1 <= i /\ i \in Nat
    BY <2>1, <2>2, <2>3
  <2> HIDE DEF i
  <2>5. i = n + 1
    BY <1>1, <2>4
  <2>6. S # {}
    BY <2>1
  <2> QED  BY <1>1, <1>4, <1>6, <2>5, <2>6 DEF i, m
<1>7. CASE r.key # k
  <2>1. S = R
    BY <1>1, <1>7
  <2> DEFINE i == CHOOSE i \in R : \A j \in R : j <= i
  <2>2. ASSUME R # {} PROVE m[i] = l[i]
    <3>1. R \in SUBSET (1 .. n)
      BY <1>5
    <3> HIDE DEF R
    <3>2. Latest(R) \in R /\ \A y \in R : y <= Latest(R)
      BY <1>1, <2>2, <3>1, LatestIs
    <3>3. i \in R
      BY <3>2
    <3> HIDE DEF i
    <3> QED  BY <1>1, <3>1, <3>3
  <2> HIDE DEF R, S
  <2> QED  BY <1>3, <1>4, <1>7, <2>1, <2>2 DEF m
<1> QED  BY <1>6, <1>7

\* And counts as a value unless it is a tombstone.
LEMMA ValuesAppended ==
    ASSUME NEW l \in Log, NEW r \in Record
    PROVE  /\ Cardinality(ValuesIn(l)) \in Nat
           /\ Cardinality(ValuesIn(Append(l, r))) =
                Cardinality(ValuesIn(l)) + IF r.val = NoVal THEN 0 ELSE 1
<1> DEFINE m == Append(l, r)
           n == Len(l)
<1>1. n \in Nat /\ Len(m) = n + 1 /\ m[n + 1] = r /\ \A i \in 1 .. n : m[i] = l[i]
  BY DEF Log
<1>2. r.key # NoKey
  BY KvDbAssumption DEF Record
<1>3. IsFiniteSet(ValuesIn(l)) /\ Cardinality(ValuesIn(l)) \in Nat
  <2>1. ValuesIn(l) \subseteq 1 .. n
    BY DEF ValuesIn
  <2>2. IsFiniteSet(1 .. n)
    BY <1>1, FS_Interval
  <2>3. IsFiniteSet(ValuesIn(l))
    BY <2>1, <2>2, FS_Subset
  <2> QED  BY <2>3, FS_CardinalityType
<1> HIDE DEF m
<1>4. CASE r.val = NoVal
  <2>1. ValuesIn(m) = ValuesIn(l)
    BY <1>1, <1>4 DEF ValuesIn
  <2> QED  BY <1>3, <1>4, <2>1 DEF m
<1>5. CASE r.val # NoVal
  <2>1. ValuesIn(m) = ValuesIn(l) \cup {n + 1} /\ n + 1 \notin ValuesIn(l)
    BY <1>1, <1>2, <1>5 DEF ValuesIn
  <2>2. Cardinality(ValuesIn(l) \cup {n + 1}) = Cardinality(ValuesIn(l)) + 1
    BY <1>3, <2>1, FS_AddElement
  <2> QED  BY <1>3, <1>5, <2>1, <2>2 DEF m
<1> QED  BY <1>4, <1>5
-----------------------------------------------------------------------------
(***************************************************************************)
(* The steps.                                                              *)
(***************************************************************************)
LEMMA CurrentType ==
    ASSUME LogInv, NEW k \in Keys
    PROVE  Current(k) \in Vals \cup {NoVal}
<1>1. CASE status = "open"
  <2> DEFINE n == Len(log) - 1
             o == Latest(Upto(k, n))
  <2>1. Chained(log) /\ n \in Nat /\ Links = 0 .. n
    BY <1>1, Linked DEF LogInv
  <2>2. Current(k) = Found(o)
    BY <2>1, CurrentIs
  <2>3. o # 0 => At(o) \in Record
    <3>1. Upto(k, n) \in SUBSET (1 .. n)
      BY DEF Upto
    <3> HIDE DEF n
    <3>2. o # 0 => o \in 1 .. n
      BY <2>1, <3>1, LatestIs
    <3> HIDE DEF o
    <3>3. o # 0 => o \in Links
      BY <2>1, <3>2
    <3> QED  BY <2>1, <3>3, Linked
  <2> HIDE DEF o
  <2> QED  BY <2>2, <2>3 DEF Found, Record
<1>2. CASE status # "open"
  <2>1. log = <<>>
    BY <1>2 DEF LogInv
  <2>2. RecordsOf(k) = {}
    BY <2>1 DEF RecordsOf, Records
  <2> QED  BY <2>2 DEF Current
<1> QED  BY <1>1, <1>2

\* The types of the log and the table follow from the rest.
LEMMA Types ==
    ASSUME NEW l, l = <<>> \/ Chained(l), Len(l) <= MaxLog + 1,
           NEW m, Table(m), Indexed(m, l)
    PROVE  /\ l \in Seq([key : Keys \cup {NoKey}, val : Vals \cup {NoVal}, off : Offsets])
           /\ m \in Seq([key : Nat, off : Offsets])
<1> DEFINE R == [key : Keys \cup {NoKey}, val : Vals \cup {NoVal}, off : Offsets]
           E == [key : Nat, off : Offsets]
<1>1. MaxLog \in Nat
  BY KvDbAssumption
<1>2. l \in Log /\ Len(l) \in Nat
  <2>1. CASE l = <<>>
    BY <2>1 DEF Log
  <2>2. CASE Chained(l)
    BY <2>2 DEF Chained, Log
  <2> QED  BY <2>1, <2>2
<1>3. ASSUME NEW i \in 1 .. Len(l) PROVE l[i] \in R
  <2>1. Chained(l)
    BY <1>3
  <2>2. CASE i = 1
    <3>1. l[i] = Sentinel
      BY <2>1, <2>2 DEF Chained
    <3> QED  BY <1>1, <3>1 DEF Sentinel, Offsets
  <2>3. CASE i # 1
    <3>1. i \in 2 .. Len(l)
      BY <1>2, <2>3
    <3>2. l[i] \in Record /\ l[i].off \in 0 .. i - 2
      BY <2>1, <3>1 DEF Chained, Newest
    <3>3. l[i].off \in Offsets
      BY <1>1, <1>2, <3>1, <3>2 DEF Offsets
    <3> QED  BY <3>2, <3>3 DEF Record
  <2> QED  BY <2>2, <2>3
<1>4. ASSUME NEW e \in 1 .. Len(m) PROVE m[e] \in E
  <2>1. m[e] \in Entry
    BY DEF Table
  <2>2. m[e].off \in Offsets
    <3>1. CASE m[e].key = 0
      BY <1>1, <3>1 DEF Table, Offsets
    <3>2. CASE m[e].key # 0
      <4>1. m[e].off \in 0 .. Len(l) - 1
        BY <3>2 DEF Indexed, Used, Newest
      <4> QED  BY <1>1, <1>2, <4>1 DEF Offsets
    <3> QED  BY <3>1, <3>2
  <2> QED  BY <2>1, <2>2 DEF Entry
<1>5. m \in Seq(Entry)
  BY DEF Table
<1> HIDE DEF R, E
<1>6. l \in Seq(R)
  BY <1>2, <1>3 DEF Log
<1>7. m \in Seq(E)
  BY <1>4, <1>5
<1> QED  BY <1>6, <1>7 DEF R, E

\* mutate() finds the current value of the key, and so does a lookup.
LEMMA OldIs ==
    ASSUME Inv, status = "open", NEW k \in Keys, NEW ix, ix = index_update(k)
    PROVE  Old(ix, k) = Current(k)
<1>1. Chained(log) /\ Table(maps) /\ isize = Cardinality(Used(maps)) /\ Indexed(maps, log)
  BY DEF Inv, LogInv, IndexInv
<1>2. Newest(log, ix.off, hash(k), Len(log))
  BY <1>1, Updated
<1>3. chain_lookup(k, ix.off) = Latest(Upto(k, Len(log) - 1))
  BY <1>1, <1>2, Searched
<1> QED  BY <1>1, <1>3, CurrentIs DEF Old

\* kvdb_lookup() finds the current value of the key.
LEMMA LookupIs ==
    ASSUME Inv, status = "open", NEW k \in Keys
    PROVE  Found(chain_lookup(k, index_lookup(k))) = Current(k)
<1>1. Chained(log) /\ Table(maps) /\ Indexed(maps, log)
  BY DEF Inv, LogInv, IndexInv
<1>2. Len(log) \in Nat \ {0}
  BY <1>1, Linked
<1> DEFINE s == Slot(maps, hash(k))
           o == index_lookup(k)
<1>3. o = IF s = NoSlot THEN 0 ELSE maps[s].off
  BY Zenon DEF index_lookup
<1>4. Newest(log, o, hash(k), Len(log))
  <2> HIDE DEF o
  <2> DEFINE g == hash(k)
  <2>1. g \in Nat \ {0}
    BY HashIs
  <2> HIDE DEF g
  <2>2. Newest(log, IF s = NoSlot THEN 0 ELSE maps[s].off, g, Len(log))
    BY <1>1, <1>2, <2>1, Looked DEF g
  <2> HIDE DEF s
  <2> QED  BY <1>3, <2>2 DEF g
<1>5. chain_lookup(k, o) = Latest(Upto(k, Len(log) - 1))
  <2> HIDE DEF o
  <2> QED  BY <1>1, <1>4, Searched
<1> QED  BY <1>1, <1>5, CurrentIs

\* A record that is appended is linked to the newest one of its hash, and the
\* index to the record.
LEMMA Changed ==
    ASSUME Inv, CanMutate, NEW k \in Keys, NEW v \in Vals \cup {NoVal}, NEW ans,
           NEW ix, ix = index_update(k), Change(ix, k, v, ans)
    PROVE  /\ Chained(log') /\ Len(log') <= MaxLog + 1
           /\ Table(maps') /\ isize' = Cardinality(Used(maps')) /\ Indexed(maps', log')
           /\ \A j \in Keys : Current(j)' = IF j = k THEN v ELSE Current(j)
           /\ Cardinality(ValuesIn(log)) \in Nat
           /\ Cardinality(ValuesIn(log')) =
                Cardinality(ValuesIn(log)) + IF v = NoVal THEN 0 ELSE 1
<1> DEFINE n == Len(log)
           h == hash(k)
           r == [key |-> k, val |-> v, off |-> ix.off]
           m == ix.maps
           s == ix.ref
<1>1. Chained(log) /\ Table(maps) /\ isize = Cardinality(Used(maps)) /\ Indexed(maps, log)
  BY DEF Inv, LogInv, IndexInv, CanMutate
<1>2. /\ Table(m) /\ ix.size = Cardinality(Used(m)) /\ Indexed(m, log)
      /\ s \in 1 .. Len(m) /\ m[s] = [key |-> h, off |-> ix.off]
      /\ Newest(log, ix.off, h, n)
  BY <1>1, Updated
<1>3. log' = Append(log, r) /\ maps' = [m EXCEPT ![s].off = n] /\ isize' = ix.size
  BY DEF Change, kvraw_append
<1>4. log \in Log /\ n \in Nat \ {0} /\ h \in Nat \ {0} /\ n <= MaxLog /\ MaxLog \in Nat
  BY <1>1, HashIs, Linked, KvDbAssumption DEF Chained, CanMutate
<1>5. r \in Record
  BY <1>2 DEF Newest, Record
<1> HIDE DEF h, m, s, r
<1>6. /\ log' \in Log /\ Len(log') = n + 1 /\ log'[n + 1] = r
      /\ \A i \in 1 .. n : log'[i] = log[i]
  BY <1>3, <1>4, <1>5 DEF Log
<1> HIDE DEF n
<1>7. ASSUME NEW o, NEW g, NEW c \in 0 .. n, Newest(log, o, g, c)
      PROVE  Newest(log', o, g, c)
  BY <1>4, <1>6, <1>7 DEF Newest
<1>8. Chained(log')
  <2>1. log'[1] = Sentinel
    BY <1>1, <1>4, <1>6 DEF Chained
  <2>2. ASSUME NEW i \in 2 .. n + 1
        PROVE  log'[i] \in Record /\ Newest(log', log'[i].off, hash(log'[i].key), i - 1)
    <3>1. CASE i = n + 1
      <4>1. log'[i] = r /\ i - 1 = n /\ n \in 0 .. n
        BY <1>4, <1>6, <3>1
      <4>2. r.off = ix.off /\ hash(r.key) = h
        BY DEF r, h
      <4>3. Newest(log', ix.off, h, n)
        BY <1>2, <1>7, <4>1 DEF n
      <4> QED  BY <1>5, <4>1, <4>2, <4>3
    <3>2. CASE i # n + 1
      <4>1. i \in 2 .. n /\ log'[i] = log[i] /\ i - 1 \in 0 .. n
        BY <1>4, <1>6, <3>2
      <4>2. log[i] \in Record /\ Newest(log, log[i].off, hash(log[i].key), i - 1)
        BY <1>1, <4>1 DEF Chained, n
      <4> QED  BY <1>7, <4>1, <4>2
    <3> QED  BY <3>1, <3>2
  <2> QED  BY <1>4, <1>6, <2>1, <2>2 DEF Chained
<1>9. /\ maps' \in Seq(Entry) /\ Len(maps') = Len(m)
      /\ maps'[s] = [key |-> h, off |-> n]
      /\ \A e \in 1 .. Len(m) : e # s => maps'[e] = m[e]
  <2>1. m \in Seq(Entry) /\ n \in Nat
    BY <1>2, <1>4 DEF Table
  <2> QED  BY <1>2, <1>3, <1>4, <2>1 DEF Entry
<1>10. Slot(m, h) = s /\ s # NoSlot /\ s \in Used(m)
  BY <1>2, <1>4, SlotOfKey DEF NoSlot, Used
<1>11. Table(maps') /\ Used(maps') = Used(m)
  <2> DEFINE t == maps'
  <2>1. t[s].key = h
    BY <1>9
  <2>2. t \in Seq(Entry) /\ Len(t) = Len(m) /\ \A e \in 1 .. Len(m) : e # s => t[e] = m[e]
    BY <1>9
  <2> HIDE DEF t
  <2>3. Table(t) /\ Used(t) = Used(m) \cup {s}
    BY <1>2, <1>4, <1>10, <2>1, <2>2, Put
  <2> QED  BY <1>10, <2>3 DEF t
<1>12. Indexed(maps', log')
  <2>1. ASSUME NEW e \in Used(maps')
        PROVE  Newest(log', maps'[e].off, maps'[e].key, n + 1)
    <3>1. CASE e = s
      <4>1. maps'[e].off = n /\ maps'[e].key = h
        BY <1>9, <3>1
      <4>2. hash(log'[n + 1].key) = h
        BY <1>6 DEF r, h
      <4> QED  BY <1>4, <4>1, <4>2 DEF Newest
    <3>2. CASE e # s
      <4>1. e \in 1 .. Len(m) /\ maps'[e] = m[e] /\ m[e].key # 0 /\ Newest(log, m[e].off, m[e].key, n)
        BY <1>2, <1>9, <1>11, <3>2 DEF Used, Indexed, n
      <4>2. m[e].key # h
        <5>1. Slot(m, m[e].key) = e
          BY <1>2, <4>1, SlotOfKey
        <5> QED  BY <1>10, <3>2, <5>1
      <4>3. Newest(log', m[e].off, m[e].key, n)
        BY <1>4, <1>7, <4>1
      <4>4. hash(log'[n + 1].key) = h
        BY <1>6 DEF r, h
      <4> QED  BY <1>4, <4>1, <4>2, <4>3, <4>4 DEF Newest
    <3> QED  BY <3>1, <3>2
  <2>2. ASSUME NEW i \in 2 .. n + 1
        PROVE  \E e \in 1 .. Len(maps') : maps'[e].key = hash(log'[i].key)
    <3>1. CASE i = n + 1
      <4>1. hash(log'[i].key) = h
        BY <1>6, <3>1 DEF r, h
      <4> QED  BY <1>2, <1>9, <4>1
    <3>2. CASE i # n + 1
      <4>1. i \in 2 .. n /\ log'[i] = log[i]
        BY <1>4, <1>6, <3>2
      <4>2. PICK e \in 1 .. Len(m) : m[e].key = hash(log[i].key)
        BY <1>2, <4>1 DEF Indexed, n
      <4>3. maps'[e].key = m[e].key
        BY <1>2, <1>9
      <4> QED  BY <1>9, <4>1, <4>2, <4>3
    <3> QED  BY <3>1, <3>2
  <2> QED  BY <1>6, <2>1, <2>2 DEF Indexed
<1>13. ASSUME NEW j \in Keys PROVE Current(j)' = IF j = k THEN v ELSE Current(j)
  <2>1. Current(j)' = CurrentIn(log', j)
    BY Zenon DEF Current, RecordsOf, Records, CurrentIn
  <2>2. CurrentIn(log', j) = IF r.key = j THEN r.val ELSE CurrentIn(log, j)
    BY <1>3, <1>4, <1>5, CurrentAppended
  <2>3. r.key = k /\ r.val = v
    BY DEF r
  <2> QED  BY <2>1, <2>2, <2>3, CurrentOf
<1>14. /\ Cardinality(ValuesIn(log)) \in Nat
       /\ Cardinality(ValuesIn(log')) =
            Cardinality(ValuesIn(log)) + IF v = NoVal THEN 0 ELSE 1
  <2>1. r.val = v
    BY DEF r
  <2> QED  BY <1>3, <1>4, <1>5, <2>1, ValuesAppended
<1>15. Len(log') <= MaxLog + 1
  BY <1>4, <1>6
<1> QED  BY <1>2, <1>3, <1>8, <1>11, <1>12, <1>13, <1>14, <1>15

One(v) == IF v = NoVal THEN 0 ELSE 1

\* Writing one key changes the number of keys that have a value.
LEMMA PresentChanged ==
    ASSUME IsFiniteSet(Present), NEW k \in Keys, NEW v,
           \A j \in Keys : Current(j)' = IF j = k THEN v ELSE Current(j)
    PROVE  /\ IsFiniteSet(Present') /\ Cardinality(Present') \in Nat
           /\ Cardinality(Present) \in Nat
           /\ Cardinality(Present') = Cardinality(Present) + One(v) - One(Current(k))
<1> DEFINE P == Present
           Q == Present'
<1>1. Q = {j \in Keys : Current(j)' # NoVal} /\ P = {j \in Keys : Current(j) # NoVal}
  BY DEF Present
<1>2. (k \in P <=> Current(k) # NoVal) /\ Q = IF v = NoVal THEN P \ {k} ELSE P \cup {k}
  BY <1>1
<1> HIDE DEF P, Q
<1>3. IsFiniteSet(P) /\ Cardinality(P) \in Nat
  BY FS_CardinalityType DEF P
<1>4. IsFiniteSet(P \cup {k}) /\ Cardinality(P \cup {k}) = Cardinality(P) + IF k \in P THEN 0 ELSE 1
  BY <1>3, FS_AddElement
<1>5. IsFiniteSet(P \ {k}) /\ Cardinality(P \ {k}) = Cardinality(P) - IF k \in P THEN 1 ELSE 0
  BY <1>3, FS_RemoveElement
<1>6. IsFiniteSet(Q) /\ Cardinality(Q) \in Nat
  <2>1. IsFiniteSet(Q)
    BY <1>2, <1>4, <1>5
  <2> QED  BY <2>1, FS_CardinalityType
<1>7. CASE v = NoVal
  <2>1. Q = P \ {k}
    BY <1>2, <1>7
  <2>2. One(v) = 0 /\ One(Current(k)) = IF k \in P THEN 1 ELSE 0
    BY <1>2, <1>7 DEF One
  <2>3. Cardinality(Q) = Cardinality(P) + One(v) - One(Current(k))
    BY <1>3, <1>5, <2>1, <2>2
  <2> QED  BY <1>3, <1>6, <2>3 DEF P, Q
<1>8. CASE v # NoVal
  <2>1. Q = P \cup {k}
    BY <1>2, <1>8
  <2>2. One(v) = 1 /\ One(Current(k)) = IF k \in P THEN 1 ELSE 0
    BY <1>2, <1>8 DEF One
  <2>3. Cardinality(Q) = Cardinality(P) + One(v) - One(Current(k))
    BY <1>3, <1>4, <2>1, <2>2
  <2> QED  BY <1>3, <1>6, <2>3 DEF P, Q
<1> QED  BY <1>7, <1>8

\* What the client sees of a step that appends a record for k.
Wrote(k, v) ==
    /\ \A j \in Keys : Current(j)' = IF j = k THEN v ELSE Current(j)
    /\ size' = Cardinality(Present')

\* mutate() appends a record; the counts follow the value that was there.
LEMMA ChangeStep ==
    ASSUME Inv, CanMutate, NEW k \in Keys, NEW v \in Vals \cup {NoVal}, NEW ans \in Reply,
           Change(index_update(k), k, v, ans),
           size' = size + One(v) - One(Current(k)), waste' = waste + One(Current(k))
    PROVE  Inv' /\ Wrote(k, v)
<1> DEFINE ix == index_update(k)
           n == Cardinality(ValuesIn(log))
<1>1. /\ Chained(log') /\ Len(log') <= MaxLog + 1
      /\ Table(maps') /\ isize' = Cardinality(Used(maps')) /\ Indexed(maps', log')
      /\ \A j \in Keys : Current(j)' = IF j = k THEN v ELSE Current(j)
      /\ n \in Nat /\ Cardinality(ValuesIn(log')) = n + One(v)
  <2>1. Change(ix, k, v, ans)
    OBVIOUS
  <2> HIDE DEF ix
  <2>2. ix = index_update(k)
    BY DEF ix
  <2> QED  BY <2>1, <2>2, Changed DEF One
<1>2. reply' \in Reply /\ status' = status /\ status = "open"
  BY DEF Change, CanMutate
<1>3. /\ log' \in Seq([key : Keys \cup {NoKey}, val : Vals \cup {NoVal}, off : Offsets])
      /\ maps' \in Seq([key : Nat, off : Offsets])
  <2> DEFINE l == log'
             m == maps'
  <2>1. Chained(l) /\ Len(l) <= MaxLog + 1 /\ Table(m) /\ Indexed(m, l)
    BY <1>1
  <2> HIDE DEF l, m
  <2>2. /\ l \in Seq([key : Keys \cup {NoKey}, val : Vals \cup {NoVal}, off : Offsets])
        /\ m \in Seq([key : Nat, off : Offsets])
    BY <2>1, Types
  <2> QED  BY <2>2 DEF l, m
<1>4. isize' \in 0 .. Len(maps')
  BY <1>1, UsedFinite DEF Table
<1>5. /\ IsFiniteSet(Present') /\ Cardinality(Present') \in Nat
      /\ Cardinality(Present) \in Nat
      /\ Cardinality(Present') = Cardinality(Present) + One(v) - One(Current(k))
  BY <1>1, PresentChanged DEF Inv, CountInv
<1>6. size = Cardinality(Present) /\ waste = n - size /\ waste \in Nat
  BY DEF Inv, CountInv, WasteIsExact, ValuesIn, Records, TypeOK
<1>7. One(v) \in {0, 1} /\ One(Current(k)) \in {0, 1}
  BY DEF One
<1>8. size' = Cardinality(Present') /\ size' \in Nat /\ waste' \in Nat
  BY <1>5, <1>6, <1>7
<1>9. waste' = Cardinality(ValuesIn(log')) - size'
  BY <1>1, <1>5, <1>6, <1>7
<1>10. CountInv'
  BY <1>5, <1>8, <1>9 DEF CountInv, WasteIsExact, ValuesIn, Records
<1>11. TypeOK'
  BY <1>1, <1>2, <1>3, <1>4, <1>8 DEF TypeOK
<1>12. LogInv' /\ IndexInv'
  BY <1>1, <1>2 DEF LogInv, IndexInv
<1> QED  BY <1>1, <1>8, <1>10, <1>11, <1>12 DEF Inv, Wrote

\* A step that appends nothing changes nothing the client sees.
Kept ==
    /\ \A j \in Keys : Current(j)' = Current(j)
    /\ size' = Cardinality(Present')

\* The index may change without a record being appended.
LEMMA KeepStep ==
    ASSUME Inv, Table(maps'), isize' = Cardinality(Used(maps')), Indexed(maps', log),
           reply' \in Reply, UNCHANGED <<log, size, waste, status>>
    PROVE  Inv' /\ Kept
<1>1. \A j \in Keys : Current(j)' = Current(j)
  BY DEF Current, RecordsOf, Records
<1>2. Present' = Present
  BY <1>1 DEF Present
<1>3. CountInv' /\ size' = Cardinality(Present')
  <2>1. IsFiniteSet(Present) /\ size = Cardinality(Present) /\ WasteIsExact
    BY DEF Inv, CountInv
  <2>2. WasteIsExact'
    BY <2>1 DEF WasteIsExact, Records
  <2> QED  BY <1>2, <2>1, <2>2 DEF CountInv
<1>4. LogInv' /\ IndexInv'
  BY DEF Inv, LogInv, IndexInv
<1>5. maps' \in Seq([key : Nat, off : Offsets])
  <2> DEFINE m == maps'
  <2>1. log = <<>> \/ Chained(log)
    BY DEF Inv, LogInv
  <2>2. Len(log) <= MaxLog + 1 /\ Table(m) /\ Indexed(m, log)
    BY DEF Inv, TypeOK
  <2> HIDE DEF m
  <2>3. m \in Seq([key : Nat, off : Offsets])
    BY <2>1, <2>2, Types
  <2> QED  BY <2>3 DEF m
<1>6. isize' \in 0 .. Len(maps')
  BY UsedFinite DEF Table
<1>7. TypeOK'
  BY <1>5, <1>6 DEF Inv, TypeOK
<1> QED  BY <1>1, <1>3, <1>4, <1>7 DEF Inv, Kept

\* mutate() refuses the call, or a read of the log fails.
LEMMA RefuseStep ==
    ASSUME Inv, CanMutate, NEW k \in Keys, NEW ans \in Reply, Refuse(index_update(k), ans)
    PROVE  Inv' /\ Kept
<1> DEFINE ix == index_update(k)
<1>1. Refuse(ix, ans)
  OBVIOUS
<1> HIDE DEF ix
<1>2. ix = index_update(k)
  BY DEF ix
<1>3. Table(ix.maps) /\ ix.size = Cardinality(Used(ix.maps)) /\ Indexed(ix.maps, log)
  BY <1>2, Updated DEF Inv, LogInv, IndexInv, CanMutate
<1> QED  BY <1>1, <1>3, KeepStep DEF Refuse

\* Only the reply changes.
LEMMA StillStep ==
    ASSUME Inv, reply' \in Reply, UNCHANGED <<log, maps, isize, size, waste, status>>
    PROVE  Inv' /\ Kept
<1>1. Table(maps) /\ isize = Cardinality(Used(maps)) /\ Indexed(maps, log)
  BY DEF Inv, IndexInv
<1> QED  BY <1>1, KeepStep

\* A store that is opened or closed is empty.
Emptied ==
    /\ \A j \in Keys : Current(j)' = NoVal
    /\ size' = 0 /\ Cardinality(Present') = 0

\* kvdb_open() and kvdb_close() start over.
LEMMA ResetStep ==
    ASSUME Reset, \/ log' = <<Sentinel>> /\ status' = "open"
                  \/ log' = <<>> /\ status' = "closed"
    PROVE  Inv' /\ Emptied
<1>1. Records' = {}
  <2>1. CASE log' = <<Sentinel>>
    BY <2>1 DEF Records, Sentinel
  <2>2. CASE log' = <<>>
    BY <2>2 DEF Records
  <2> QED  BY <2>1, <2>2
<1>2. \A j \in Keys : Current(j)' = NoVal
  BY <1>1 DEF Current, RecordsOf
<1>3. Present' = {} /\ IsFiniteSet({}) /\ Cardinality({}) = 0
  BY <1>2, FS_EmptySet DEF Present
<1>4. CountInv'
  <2>1. ValuesIn(log') = {}
    BY <1>1 DEF ValuesIn, Records
  <2>2. size' = 0 /\ waste' = 0
    BY DEF Reset
  <2>3. WasteIsExact'
    <3>1. waste' = Cardinality(ValuesIn(log')) - size'
      BY <1>3, <2>1, <2>2
    <3> QED  BY <3>1 DEF WasteIsExact, ValuesIn, Records
  <2> QED  BY <1>3, <2>2, <2>3 DEF CountInv
<1>5. LogInv'
  <2>1. CASE log' = <<Sentinel>> /\ status' = "open"
    <3> DEFINE l == <<Sentinel>>
    <3>1. l \in Log /\ Len(l) = 1 /\ l[1] = Sentinel
      BY DEF Log
    <3>2. Chained(l)
      BY <3>1 DEF Chained
    <3> QED  BY <2>1, <3>2 DEF LogInv
  <2>2. CASE log' = <<>> /\ status' = "closed"
    BY <2>2 DEF LogInv
  <2> QED  BY <2>1, <2>2
<1>6. IndexInv'
  <2>1. Table(<<>>) /\ Used(<<>>) = {}
    BY DEF Table, Used
  <2>2. Len(log') \in {0, 1}
    <3>1. Len(<<Sentinel>>) = 1 /\ Len(<<>>) = 0
      OBVIOUS
    <3>2. log' = <<Sentinel>> \/ log' = <<>>
      OBVIOUS
    <3> QED  BY <3>1, <3>2
  <2>3. Indexed(<<>>, log')
    BY <2>1, <2>2 DEF Indexed
  <2> QED  BY <1>3, <2>1, <2>3 DEF IndexInv, Reset
<1>7. TypeOK'
  <2>1. Sentinel \in [key : Keys \cup {NoKey}, val : Vals \cup {NoVal}, off : Offsets]
        /\ MaxLog \in Nat
    BY KvDbAssumption DEF Sentinel, Offsets
  <2>2. /\ log' \in Seq([key : Keys \cup {NoKey}, val : Vals \cup {NoVal}, off : Offsets])
        /\ Len(log') <= MaxLog + 1
    <3> DEFINE R == [key : Keys \cup {NoKey}, val : Vals \cup {NoVal}, off : Offsets]
    <3>1. Sentinel \in R
      BY <2>1
    <3> HIDE DEF R
    <3>2. <<Sentinel>> \in Seq(R) /\ <<>> \in Seq(R) /\ Len(<<Sentinel>>) = 1 /\ Len(<<>>) = 0
      BY <3>1
    <3>3. log' = <<Sentinel>> \/ log' = <<>>
      OBVIOUS
    <3>4. log' \in Seq(R) /\ Len(log') \in {0, 1}
      BY <3>2, <3>3
    <3>5. Len(log') <= MaxLog + 1
      <4>1. MaxLog \in Nat
        BY <2>1
      <4> HIDE DEF R
      <4> QED  BY <3>4, <4>1
    <3> QED  BY <3>4, <3>5 DEF R
  <2>3. reply' \in Reply
    BY DEF Reset, Opened, Ok, Reply, Calls
  <2> QED  BY <2>2, <2>3 DEF TypeOK, Reset
<1> QED  BY <1>2, <1>3, <1>4, <1>5, <1>6, <1>7 DEF Inv, Emptied, Reset
-----------------------------------------------------------------------------
(***************************************************************************)
(* The map the client sees.                                                *)
(***************************************************************************)
View == [k \in Keys |-> Current(k)]

Sized == size' = Cardinality({k \in Keys : View'[k] # NoVal})

\* The map of the client after each kind of step.
LEMMA ViewWritten ==
    ASSUME NEW k \in Keys, NEW v, Wrote(k, v)
    PROVE  View' = [View EXCEPT ![k] = v] /\ Sized
<1>1. \A j \in Keys : View'[j] = Current(j)' /\ View[j] = Current(j)
  BY DEF View
<1>2. {j \in Keys : View'[j] # NoVal} = Present'
  BY <1>1 DEF Present
<1>3. View' = [View EXCEPT ![k] = v]
  BY DEF Wrote, View
<1> QED  BY <1>2, <1>3 DEF Wrote, Sized

\* ... nothing is appended,
LEMMA ViewKept ==
    ASSUME Kept
    PROVE  View' = View /\ Sized
<1>1. \A j \in Keys : View'[j] = Current(j)'
  BY DEF View
<1>2. {j \in Keys : View'[j] # NoVal} = Present'
  BY <1>1 DEF Present
<1>3. View' = View
  BY DEF Kept, View
<1> QED  BY <1>2, <1>3 DEF Kept, Sized

\* ... and the store starts over.
LEMMA ViewEmptied ==
    ASSUME Emptied
    PROVE  View' = Map!Empty /\ Sized
<1>1. \A j \in Keys : View'[j] = Current(j)'
  BY DEF View
<1>2. {j \in Keys : View'[j] # NoVal} = Present'
  BY <1>1 DEF Present
<1>3. View' = Map!Empty
  BY DEF Emptied, View, Map!Empty
<1> QED  BY <1>2, <1>3 DEF Emptied, Sized

\* A step of the store is a step of the map and keeps the invariant.
Good == Inv' /\ Map!Next

\* The replies have their types.
LEMMA Replies ==
    ASSUME NEW call \in Calls, NEW k \in Keys, NEW v \in Vals \cup {NoVal}
    PROVE  Ok(call, k, v) \in Reply /\ No(call, k) \in Reply /\ Failed \in Reply
  BY DEF Reply, Ok, No, Failed, Calls

\* A step of the map is one of its calls, and its size is counted.
LEMMA NextIs ==
    ASSUME Sized, \/ \E k \in Keys : Map!Lookup(k) \/ Map!Remove(k)
                  \/ \E k \in Keys, v \in Vals :
                        Map!Insert(k, v) \/ Map!Update(k, v) \/ Map!Replace(k, v)
                  \/ Map!Fail
                  \/ Map!Reopen
    PROVE  Map!Next
  BY Zenon DEF Map!Next, Sized, View, Map!Cardinality, Cardinality

\* kvdb_insert(): refused if the key has a value.
LEMMA InsertGood ==
    ASSUME Inv, NEW k \in Keys, NEW v \in Vals, kvdb_insert(k, v)
    PROVE  Good
<1> DEFINE ix == index_update(k)
           old == Old(ix, k)
<1>1. CanMutate /\ status = "open"
  BY DEF kvdb_insert, CanMutate
<1>2. old = Current(k) /\ View[k] = Current(k)
  BY <1>1, OldIs DEF View
<1>3. v \in Vals \cup {NoVal} /\ v # NoVal
  BY KvDbAssumption
<1>4. Ok("insert", k, v) \in Reply /\ No("insert", k) \in Reply
  BY Replies DEF Calls
<1>5. CASE old # NoVal /\ Refuse(ix, No("insert", k))
  <2>1. Inv' /\ Kept /\ reply' = No("insert", k)
    BY <1>1, <1>4, <1>5, RefuseStep DEF Refuse
  <2>2. View' = View /\ Sized
    BY <2>1, ViewKept
  <2>3. Map!Insert(k, v)
    BY <1>2, <1>5, <2>1, <2>2 DEF Map!Insert, Map!Write, Map!Has, Map!No, No, View
  <2> QED  BY <2>1, <2>2, <2>3, NextIs DEF Good
<1>6. CASE old = NoVal /\ Change(ix, k, v, Ok("insert", k, v)) /\ size' = size + 1 /\ UNCHANGED waste
  <2> HIDE DEF ix
  <2>1. size' = size + One(v) - One(Current(k)) /\ waste' = waste + One(Current(k))
    BY <1>2, <1>3, <1>6 DEF One, Inv, TypeOK
  <2>2. Inv' /\ Wrote(k, v) /\ reply' = Ok("insert", k, v)
    BY <1>1, <1>3, <1>4, <1>6, <2>1, ChangeStep DEF Change, ix
  <2>3. View' = [View EXCEPT ![k] = v] /\ Sized
    BY <2>2, ViewWritten
  <2>4. Map!Insert(k, v)
    BY <1>2, <1>6, <2>2, <2>3 DEF Map!Insert, Map!Write, Map!Has, Map!Ok, Ok, View
  <2> QED  BY <2>2, <2>3, <2>4, NextIs DEF Good
<1> QED  BY <1>5, <1>6 DEF kvdb_insert

\* kvdb_update(): inserts or replaces.
LEMMA UpdateGood ==
    ASSUME Inv, NEW k \in Keys, NEW v \in Vals, kvdb_update(k, v)
    PROVE  Good
<1> DEFINE ix == index_update(k)
           old == Old(ix, k)
<1>1. CanMutate /\ status = "open"
  BY DEF kvdb_update, CanMutate
<1>2. old = Current(k)
  BY <1>1, OldIs
<1>3. v \in Vals \cup {NoVal} /\ v # NoVal
  BY KvDbAssumption
<1>4. Ok("update", k, v) \in Reply
  BY Replies DEF Calls
<1>5. /\ Change(ix, k, v, Ok("update", k, v))
      /\ \/ old = NoVal /\ size' = size + 1 /\ UNCHANGED waste
         \/ old # NoVal /\ waste' = waste + 1 /\ UNCHANGED size
  BY Zenon DEF kvdb_update
<1> HIDE DEF ix
<1>6. size' = size + One(v) - One(Current(k)) /\ waste' = waste + One(Current(k))
  BY <1>2, <1>3, <1>5 DEF One, Inv, TypeOK
<1>7. Inv' /\ Wrote(k, v) /\ reply' = Ok("update", k, v)
  BY <1>1, <1>3, <1>4, <1>5, <1>6, ChangeStep DEF Change, ix
<1>8. View' = [View EXCEPT ![k] = v] /\ Sized
  BY <1>7, ViewWritten
<1>9. Map!Update(k, v)
  BY <1>7, <1>8 DEF Map!Update, Map!Write, Map!Ok, Ok, View
<1> QED  BY <1>7, <1>8, <1>9, NextIs DEF Good

\* kvdb_replace(): refused if the key has no value.
LEMMA ReplaceGood ==
    ASSUME Inv, NEW k \in Keys, NEW v \in Vals, kvdb_replace(k, v)
    PROVE  Good
<1> DEFINE ix == index_update(k)
           old == Old(ix, k)
<1>1. CanMutate /\ status = "open"
  BY DEF kvdb_replace, CanMutate
<1>2. old = Current(k) /\ View[k] = Current(k)
  BY <1>1, OldIs DEF View
<1>3. v \in Vals \cup {NoVal} /\ v # NoVal
  BY KvDbAssumption
<1>4. Ok("replace", k, v) \in Reply /\ No("replace", k) \in Reply
  BY Replies DEF Calls
<1>5. CASE old = NoVal /\ Refuse(ix, No("replace", k))
  <2>1. Inv' /\ Kept /\ reply' = No("replace", k)
    BY <1>1, <1>4, <1>5, RefuseStep DEF Refuse
  <2>2. View' = View /\ Sized
    BY <2>1, ViewKept
  <2>3. Map!Replace(k, v)
    BY <1>2, <1>5, <2>1, <2>2 DEF Map!Replace, Map!Write, Map!Has, Map!No, No, View
  <2> QED  BY <2>1, <2>2, <2>3, NextIs DEF Good
<1>6. CASE old # NoVal /\ Change(ix, k, v, Ok("replace", k, v)) /\ waste' = waste + 1 /\ UNCHANGED size
  <2> HIDE DEF ix
  <2>1. size' = size + One(v) - One(Current(k)) /\ waste' = waste + One(Current(k))
    BY <1>2, <1>3, <1>6 DEF One, Inv, TypeOK
  <2>2. Inv' /\ Wrote(k, v) /\ reply' = Ok("replace", k, v)
    BY <1>1, <1>3, <1>4, <1>6, <2>1, ChangeStep DEF Change, ix
  <2>3. View' = [View EXCEPT ![k] = v] /\ Sized
    BY <2>2, ViewWritten
  <2>4. Map!Replace(k, v)
    BY <1>2, <1>6, <2>2, <2>3 DEF Map!Replace, Map!Write, Map!Has, Map!Ok, Ok, View
  <2> QED  BY <2>2, <2>3, <2>4, NextIs DEF Good
<1> QED  BY <1>5, <1>6 DEF kvdb_replace

\* kvdb_remove(): a tombstone, refused if the key has no value.
LEMMA RemoveGood ==
    ASSUME Inv, NEW k \in Keys, kvdb_remove(k)
    PROVE  Good
<1> DEFINE ix == index_update(k)
           old == Old(ix, k)
<1>1. CanMutate /\ status = "open"
  BY DEF kvdb_remove, CanMutate
<1>2. old = Current(k) /\ View[k] = Current(k) /\ Current(k) \in Vals \cup {NoVal}
  BY <1>1, OldIs, CurrentType DEF View, Inv
<1>3. Ok("remove", k, old) \in Reply /\ No("remove", k) \in Reply
  BY <1>2, Replies DEF Calls
<1>4. CASE old = NoVal /\ Refuse(ix, No("remove", k))
  <2>1. Inv' /\ Kept /\ reply' = No("remove", k)
    BY <1>1, <1>3, <1>4, RefuseStep DEF Refuse
  <2>2. View' = View /\ Sized
    BY <2>1, ViewKept
  <2>3. Map!Remove(k)
    BY <1>2, <1>4, <2>1, <2>2 DEF Map!Remove, Map!Has, Map!No, No, View
  <2> QED  BY <2>1, <2>2, <2>3, NextIs DEF Good
<1>5. CASE /\ old # NoVal /\ Change(ix, k, NoVal, Ok("remove", k, old))
           /\ size' = size - 1 /\ waste' = waste + 1
  <2>1. size' = size + One(NoVal) - One(Current(k)) /\ waste' = waste + One(Current(k))
    BY <1>2, <1>5 DEF One, Inv, TypeOK
  <2> HIDE DEF ix
  <2>2. Inv' /\ Wrote(k, NoVal) /\ reply' = Ok("remove", k, old)
    BY <1>1, <1>3, <1>5, <2>1, ChangeStep DEF Change, ix
  <2>3. View' = [View EXCEPT ![k] = NoVal] /\ Sized
    BY <2>2, ViewWritten
  <2>4. Map!Remove(k)
    BY <1>2, <1>5, <2>2, <2>3 DEF Map!Remove, Map!Has, Map!Ok, Ok, View
  <2> QED  BY <2>2, <2>3, <2>4, NextIs DEF Good
<1> QED  BY <1>4, <1>5 DEF kvdb_remove

\* kvdb_lookup(): changes nothing but the reply.
LEMMA LookupGood ==
    ASSUME Inv, NEW k \in Keys, kvdb_lookup(k)
    PROVE  Good
<1> DEFINE v == Current(k)
<1>1. v \in Vals \cup {NoVal} /\ View[k] = v
  BY CurrentType DEF View, Inv
<1>2. reply' = IF v = NoVal THEN No("lookup", k) ELSE Ok("lookup", k, v)
  BY LookupIs DEF kvdb_lookup
<1>3. No("lookup", k) \in Reply /\ Ok("lookup", k, v) \in Reply
  BY <1>1, Replies DEF Calls
<1>4. Inv' /\ Kept
  BY <1>2, <1>3, StillStep DEF kvdb_lookup
<1>5. View' = View /\ Sized
  BY <1>4, ViewKept
<1>6. Map!Lookup(k)
  <2> HIDE DEF v
  <2> QED  BY <1>1, <1>2, <1>5 DEF Map!Lookup, Map!Has, Map!Ok, Map!No, Ok, No, View
<1> QED  BY <1>4, <1>5, <1>6, NextIs DEF Good

\* A call that fails.
LEMMA FailGood ==
    ASSUME Inv, \/ \E k \in Keys : ReadFails(k) \/ LookupFails(k)
                \/ GrowFails
    PROVE  Good
<1>1. Failed \in Reply
  BY DEF Failed, Reply, Calls
<1>2. Inv' /\ Kept /\ reply' = Failed
  <2>1. ASSUME NEW k \in Keys, ReadFails(k) PROVE Inv' /\ Kept /\ reply' = Failed
    BY <1>1, <2>1, RefuseStep DEF ReadFails, Refuse
  <2>2. ASSUME (\E k \in Keys : LookupFails(k)) \/ GrowFails
        PROVE  Inv' /\ Kept /\ reply' = Failed
    BY <1>1, <2>2, StillStep DEF LookupFails, GrowFails
  <2> QED  BY <2>1, <2>2
<1>3. View' = View /\ Sized
  BY <1>2, ViewKept
<1>4. Map!Fail
  BY <1>2, <1>3 DEF Map!Fail, Map!Failed, Failed, View
<1> QED  BY <1>2, <1>3, <1>4, NextIs DEF Good

\* kvdb_open() and kvdb_close().
LEMMA ReopenGood ==
    ASSUME kvdb_open \/ kvdb_close
    PROVE  Good
<1>1. Inv' /\ Emptied /\ reply' = Opened
  BY ResetStep DEF kvdb_open, kvdb_close, Reset
<1>2. View' = Map!Empty /\ Sized
  BY <1>1, ViewEmptied
<1>3. Map!Reopen
  BY <1>1, <1>2 DEF Map!Reopen, Map!Ok, Ok, Opened, View
<1> QED  BY <1>1, <1>2, <1>3, NextIs DEF Good

\* Every step keeps the invariant and is a step of the map or changes nothing in it.
LEMMA NextGood ==
    ASSUME Inv, [Next]_vars
    PROVE  Inv' /\ [Map!Next]_(Map!vars)
<1>1. CASE Next
  <2>1. Good
    BY <1>1, InsertGood, UpdateGood, ReplaceGood, RemoveGood, LookupGood, FailGood,
       ReopenGood DEF Next
  <2> QED  BY <2>1 DEF Good
<1>2. CASE UNCHANGED vars
  <2>1. Inv' /\ Kept
    <3>1. reply' \in Reply
      BY <1>2 DEF vars, Inv, TypeOK
    <3> QED  BY <1>2, <3>1, StillStep DEF vars
  <2>2. View' = View
    BY <2>1, ViewKept
  <2>3. UNCHANGED Map!vars
    BY <1>2, <2>2 DEF Map!vars, vars, View
  <2> QED  BY <2>1, <2>3
<1> QED  BY <1>1, <1>2

\* No store yet, and an empty map.
LEMMA InitGood ==
    ASSUME Init
    PROVE  Inv /\ Map!Init
<1>1. Records = {} /\ Present = {} /\ IsFiniteSet({}) /\ Cardinality({}) = 0
  <2>1. Records = {}
    BY DEF Init, Records
  <2>2. Present = {}
    BY <2>1 DEF Present, Current, RecordsOf
  <2> QED  BY <2>1, <2>2, FS_EmptySet
<1>2. CountInv
  <2>1. {i \in Records : log[i].val # NoVal} = {}
    BY <1>1
  <2>2. size = 0 /\ waste = 0
    BY DEF Init
  <2>3. WasteIsExact
    BY <1>1, <2>1, <2>2 DEF WasteIsExact
  <2> QED  BY <1>1, <2>2, <2>3 DEF CountInv
<1>3. LogInv
  BY DEF Init, LogInv
<1>4. IndexInv
  <2>1. Table(<<>>) /\ Used(<<>>) = {}
    BY DEF Table, Used
  <2>2. Indexed(<<>>, <<>>)
    BY <2>1 DEF Indexed
  <2> QED  BY <1>1, <2>1, <2>2 DEF IndexInv, Init
<1>5. TypeOK
  <2>1. MaxLog \in Nat /\ reply \in Reply
    BY KvDbAssumption DEF Init, Opened, Ok, Reply, Calls
  <2> QED  BY <2>1 DEF TypeOK, Init
<1>6. Map!Init
  <2>1. [k \in Keys |-> Current(k)] = Map!Empty
    BY <1>1 DEF Current, RecordsOf, Map!Empty
  <2> QED  BY <2>1 DEF Init, Map!Init, Opened, Map!Ok, Ok
<1> QED  BY <1>2, <1>3, <1>4, <1>5, <1>6 DEF Inv
-----------------------------------------------------------------------------
(***************************************************************************)
(* The theorems.                                                           *)
(***************************************************************************)
\* The records, the index and the two counts fit together in every state of
\* the store, whichever calls were made and failed.
THEOREM InvHolds == Spec => []Inv
<1>1. Inv /\ [Next]_vars => Inv'
  BY NextGood
<1> QED  BY InitGood, <1>1, PTL DEF Spec

\* The fields of struct kvdb, kvraw and index have their types; offsets are
\* those of records of the log.
THEOREM TypeCorrect == Spec => []TypeOK
<1>1. Inv => TypeOK
  BY DEF Inv
<1> QED  BY <1>1, InvHolds, PTL

\* kvdb_waste() is the number of values in the log that are not current, through
\* insert, update, replace and remove, with whichever key, and their failures.
THEOREM WasteCorrect == Spec => []WasteIsExact
<1>1. Inv => WasteIsExact
  BY DEF Inv, CountInv
<1> QED  BY <1>1, InvHolds, PTL

\* index.c: every search ends at the one slot of its hash, size counts the
\* slots in use, and a slot is there for every key, for every hash function.
THEOREM IndexCorrect == Spec => []IndexIsSound
<1>1. ASSUME Inv PROVE IndexIsSound
  <2>1. Table(maps) /\ isize = Cardinality(Used(maps))
    BY <1>1 DEF Inv, IndexInv
  <2>2. \A k \in Keys : Slot(Grown, hash(k)) # NoSlot
    BY <2>1, GrownIs, HashIs
  <2> QED  BY <2>1, <2>2 DEF IndexIsSound, Table, Used
<1> QED  BY <1>1, InvHolds, PTL

\* chain_lookup() follows links that lead to older records only, and the chain of a
\* hash holds every record with it.
THEOREM ChainsCorrect == Spec => []ChainsAreComplete
<1>1. Inv => ChainsAreComplete
  BY ChainsComplete DEF Inv, IndexInv
<1> QED  BY <1>1, InvHolds, PTL

\* kvdb.c implements a map from keys to values: every call returns what the map
\* returns and leaves what the map leaves.
THEOREM MapImplemented == Spec => ImplementsMap
<1>1. Inv /\ [Next]_vars => [Map!Next]_(Map!vars)
  BY NextGood
<1>2. Init => Map!Init
  BY InitGood
<1> QED  BY <1>1, <1>2, InvHolds, PTL DEF Spec, ImplementsMap, Map!Spec
=============================================================================
