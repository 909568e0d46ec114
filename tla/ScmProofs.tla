----------------------------- MODULE ScmProofs -----------------------------
(***************************************************************************)
(* Proofs about the allocator of project-3.                                *)
(*                                                                         *)
(* The inductive invariant Inv says that the file holds, whenever the      *)
(* process may be killed, a row S of chunks that tile the region from 0 to *)
(* size_info[1]: the first begins at 0, each ends where the next one       *)
(* begins, the last one at size_info[1].  The chunks of the client are in  *)
(* the row and in use, and while nothing was reused or killed the counters *)
(* are the sum of the lengths in use.                                      *)
(*                                                                         *)
(* scm_malloc() finds the chunks by walking from header to header.  The    *)
(* walk is a recursive function: its equation has a solution (WalkExists), *)
(* and in any solution the walk from 0 visits just the row (WalkVisits),   *)
(* as there is no last chunk from which it does not visit the rest.  The   *)
(* sum of the lengths is a fold over a finite set that takes the elements  *)
(* in an order CHOOSE fixes; that every order gives the same sum is shown  *)
(* with a minimal subset for which it would not (AddsUnique, AddsAny).     *)
(***************************************************************************)
EXTENDS Scm, FiniteSetTheorems, WellFoundedInduction, TLAPS

Header == [inuse : {0, 1}, len : Nat]

\* Where the chunk at o ends.
End(h, o) == o + h[o].len + AddrInfo

\* S are the offsets of a row of chunks that begins at 0 and ends at u.
Tiles(S, u, h) ==
    /\ S \subseteq 0 .. u - 1
    /\ u > 0 => 0 \in S
    /\ \A o \in S : End(h, o) = u \/ End(h, o) \in S
    /\ \A o, c \in S : o < c => End(h, o) <= c
-----------------------------------------------------------------------------
(***************************************************************************)
(* The walk.                                                               *)
(***************************************************************************)
\* A set of naturals has a greatest element if it is bounded.
LEMMA Greatest ==
    ASSUME NEW n \in Nat, NEW S \in SUBSET (0 .. n), S # {}
    PROVE  \E x \in S : \A y \in S : y <= x
<1> DEFINE R == OpToRel(<, Nat)
           T == {n - x : x \in S}
<1>1. R = {p \in Nat \X Nat : p[1] < p[2]}
  BY Zenon DEF OpToRel
<1>2. IsWellFoundedOn(R, Nat)
  BY Zenon, NatLessThanWellFounded
<1>3. T \subseteq Nat /\ T # {}
  <2>1. \A x \in S : n - x \in Nat
    OBVIOUS
  <2> QED  BY <2>1
<1>4. PICK t \in T : \A y \in T : <<y, t>> \notin R
  <2> HIDE DEF R, T
  <2> QED  BY <1>2, <1>3, WFMin
<1>5. PICK x \in S : t = n - x
  OBVIOUS
<1>6. ASSUME NEW y \in S PROVE y <= x
  <2>1. n - y \in T
    OBVIOUS
  <2>2. <<n - y, n - x>> \notin R
    <3> HIDE DEF R, T
    <3> QED  BY <1>4, <1>5, <2>1
  <2>3. n - y \in Nat /\ n - x \in Nat
    OBVIOUS
  <2>4. ~(n - y < n - x)
    <3> HIDE DEF R, T
    <3> QED  BY <1>1, <2>2, <2>3
  <2> QED  BY <2>4
<1> QED  BY <1>6

\* The equation that defines the walk from an offset.
Walk(f, u, h) ==
    f = [o \in Nat |-> IF o >= u THEN {} ELSE {o} \cup f[o + h[o].len + AddrInfo]]

\* It has a solution: what can be reached from the offset.
LEMMA WalkExists ==
    ASSUME NEW u \in Nat, NEW h,
           \A o \in 0 .. u - 1 : h[o].len \in Nat
    PROVE  \E f : Walk(f, u, h)
<1> DEFINE Onward(T) == \A x \in T : x < u => End(h, x) \in T
           Reach(o, c) == \A T \in SUBSET Nat : o \in T /\ Onward(T) => c \in T
           f == [o \in Nat |-> {c \in Nat : c < u /\ Reach(o, c)}]
<1>1. ASSUME NEW o \in Nat, o >= u PROVE f[o] = {}
  <2> DEFINE T == {x \in Nat : x >= u}
  <2>1. o \in T /\ T \in SUBSET Nat /\ Onward(T)
    BY <1>1
  <2>2. ASSUME NEW c \in f[o] PROVE FALSE
    <3>1. c \in T
      BY <2>1, <2>2
    <3> QED  BY <2>2, <3>1
  <2> QED  BY <2>2
<1>2. ASSUME NEW o \in Nat, o < u PROVE f[o] = {o} \cup f[End(h, o)]
  <2>0. End(h, o) \in Nat
    BY <1>2, ScmAssumption DEF End
  <2>1. ASSUME NEW c \in f[o], c # o PROVE c \in f[End(h, o)]
    <3>1. ASSUME NEW T \in SUBSET Nat, End(h, o) \in T, Onward(T) PROVE c \in T
      <4>1. T \cup {o} \in SUBSET Nat /\ o \in T \cup {o} /\ Onward(T \cup {o})
        BY <3>1
      <4>2. Reach(o, c)
        BY <2>1
      <4>3. c \in T \cup {o}
        <5> HIDE DEF Onward
        <5> QED  BY <4>1, <4>2
      <4> QED  BY <2>1, <4>3
    <3>2. Reach(End(h, o), c)
      <4> HIDE DEF Onward
      <4> QED  BY <3>1
    <3>3. c \in Nat /\ c < u
      BY <2>1
    <3> HIDE DEF Reach
    <3> QED  BY <2>0, <3>2, <3>3
  <2>2. ASSUME NEW c \in f[End(h, o)] PROVE c \in f[o]
    <3>1. Reach(End(h, o), c) /\ c \in Nat /\ c < u
      <4> HIDE DEF Reach
      <4> QED  BY <2>0, <2>2
    <3>2. Reach(o, c)
      BY <1>2, <3>1
    <3> HIDE DEF Reach
    <3> QED  BY <3>1, <3>2
  <2>3. o \in f[o]
    BY <1>2
  <2> HIDE DEF f
  <2> QED  BY <2>1, <2>2, <2>3
<1>3. f = [o \in Nat |-> IF o >= u THEN {} ELSE {o} \cup f[End(h, o)]]
  <2> HIDE DEF Reach
  <2>1. ASSUME NEW o \in Nat PROVE f[o] = IF o >= u THEN {} ELSE {o} \cup f[End(h, o)]
    <3> HIDE DEF f
    <3>1. o < u \/ o >= u
      OBVIOUS
    <3> QED  BY <1>1, <1>2, <3>1
  <2>2. f = [o \in Nat |-> f[o]]
    OBVIOUS
  <2> HIDE DEF f
  <2> QED  BY <2>1, <2>2
<1> HIDE DEF f
<1> QED  BY <1>3 DEF Walk, End

\* The chunks of a row are those the walk visits.
LEMMA WalkVisits ==
    ASSUME NEW u \in Nat, NEW h, NEW S, Tiles(S, u, h), NEW f, Walk(f, u, h),
           \A o \in S : h[o].len \in Nat
    PROVE  f[0] = S
<1> DEFINE From(o) == {c \in S : c >= o}
           Bad == {o \in S : f[o] # From(o)}
<1>1. S \subseteq Nat /\ \A o \in S : o < u
  BY DEF Tiles
<1>2. f[u] = {} /\ \A o \in S : f[o] = {o} \cup f[End(h, o)]
  <2>1. \A o \in Nat : f[o] = IF o >= u THEN {} ELSE {o} \cup f[End(h, o)]
    BY Zenon DEF Walk, End
  <2>2. u >= u /\ \A o \in S : o \in Nat /\ ~(o >= u)
    BY <1>1
  <2> QED  BY <2>1, <2>2, Zenon
<1>3. Bad = {}
  <2> SUFFICES ASSUME Bad # {} PROVE FALSE
    OBVIOUS
  <2>1. PICK o \in Bad : \A y \in Bad : y <= o
    <3>1. Bad \subseteq S
      BY Zenon
    <3>2. S \subseteq 0 .. u
      BY <1>1
    <3> HIDE DEF Bad
    <3> QED  BY <3>1, <3>2, Greatest
  <2>2. o \in S /\ f[o] # From(o)
    <3> HIDE DEF From
    <3> QED  BY Zenon
  <2>3. o \in Nat /\ End(h, o) \in Nat /\ o < End(h, o)
    BY <1>1, <2>2, ScmAssumption DEF End
  <2>4. From(o) = {o} \cup From(End(h, o))
    <3>1. \A c \in S : o < c => End(h, o) <= c
      BY <2>2 DEF Tiles
    <3>2. o \in From(o)
      BY <2>2, <2>3
    <3>3. ASSUME NEW c PROVE c \in From(o) <=> c = o \/ c \in From(End(h, o))
      <4>1. o \in S
        BY <2>2
      <4>2. c \in S => c \in Nat
        BY <1>1
      <4>3. c \in S /\ c >= o <=> c = o \/ (c \in S /\ c >= End(h, o))
        BY <2>3, <3>1, <4>1, <4>2
      <4> QED  BY <4>3, Zenon
    <3> HIDE DEF From
    <3> QED  BY <3>3
  <2>5. f[End(h, o)] = From(End(h, o))
    <3>1. CASE End(h, o) = u
      <4>1. From(u) = {}
        <5>1. \A c \in S : ~(c >= u)
          BY <1>1
        <5> QED  BY <5>1, Zenon
      <4> HIDE DEF From
      <4> QED  BY <1>2, <3>1, <4>1
    <3>2. CASE End(h, o) \in S
      <4>1. ~(End(h, o) <= o)
        BY <2>3
      <4>2. End(h, o) \notin Bad
        <5> HIDE DEF Bad
        <5> QED  BY <2>1, <4>1
      <4> HIDE DEF From
      <4> QED  BY <3>2, <4>2, Zenon
    <3> QED  BY <2>2, <3>1, <3>2 DEF Tiles
  <2> HIDE DEF From, Bad
  <2> QED  BY <1>2, <2>2, <2>4, <2>5, Zenon
<1>4. CASE u = 0
  <2>1. S = {}
    BY <1>1, <1>4
  <2> QED  BY <1>2, <1>4, <2>1, Zenon
<1>5. CASE u > 0
  <2>1. 0 \in S /\ From(0) = S
    <3>1. 0 \in S
      BY <1>5 DEF Tiles
    <3>2. \A c \in S : c >= 0
      BY <1>1
    <3> QED  BY <3>1, <3>2, Zenon
  <2>2. f[0] = From(0)
    <3> HIDE DEF From
    <3> QED  BY <1>3, <2>1, Zenon
  <2> QED  BY <2>1, <2>2
<1> QED  BY <1>4, <1>5

\* The walk of scm_malloc() visits the chunks of the row that ends at used.
LEMMA ChunksAre ==
    used \in Offsets /\ hdr \in [Offsets -> Header] =>
        \A S : Tiles(S, used, hdr) => Chunks = S
<1> SUFFICES ASSUME used \in Offsets, hdr \in [Offsets -> Header],
                    NEW S, Tiles(S, used, hdr)
             PROVE  Chunks = S
  OBVIOUS
<1>1. used \in Nat /\ \A o \in 0 .. used - 1 : o \in Offsets /\ hdr[o].len \in Nat
  BY ScmAssumption DEF Offsets, Header
<1>2. \A o \in S : hdr[o].len \in Nat
  BY <1>1 DEF Tiles
<1> DEFINE f == CHOOSE g : g = [o \in Nat |-> IF o >= used THEN {}
                                              ELSE {o} \cup g[o + hdr[o].len + AddrInfo]]
<1>3. Walk(f, used, hdr)
  <2>1. \E g : Walk(g, used, hdr)
    BY <1>1, WalkExists
  <2> QED  BY <2>1 DEF Walk
<1>4. f[0] = S
  <2> HIDE DEF f
  <2> QED  BY <1>1, <1>2, <1>3, WalkVisits
<1> QED  BY <1>4 DEF Chunks, After
-----------------------------------------------------------------------------
(***************************************************************************)
(* Sums of lengths.                                                        *)
(***************************************************************************)
Pick(s) == CHOOSE x \in s : TRUE
\* The sum of the lengths of the chunks in T.
Lengths(h, T) == MapThenSumSet(LAMBDA o : h[o].len, T)

\* The equation that defines the sum over each subset of T.
Adds(g, h, T) ==
    g = [s \in SUBSET T |-> IF s = {} THEN 0 ELSE h[Pick(s)].len + g[s \ {Pick(s)}]]

\* It has a solution, which is what FiniteSetsExt computes.
LEMMA LengthsIs ==
    ASSUME NEW h, NEW T, IsFiniteSet(T)
    PROVE  \E g : Adds(g, h, T) /\ Lengths(h, T) = g[T]
<1> DEFINE Def(g, s) == IF s = {} THEN 0 ELSE h[Pick(s)].len + g[s \ {Pick(s)}]
           f == CHOOSE g : g = [s \in SUBSET T |-> Def(g, s)]
           R == StrictSubsetOrdering(T)
<1>1. IsWellFoundedOn(R, SUBSET T)
  BY FS_StrictSubsetOrderingWellFounded, FS_FiniteSubsetsOfFinite
<1>2. WFDefOn(R, SUBSET T, Def)
  <2>1. ASSUME NEW g, NEW k, NEW s \in SUBSET T,
               \A y \in SetLessThan(s, R, SUBSET T) : g[y] = k[y]
        PROVE  Def(g, s) = Def(k, s)
    <3>1. CASE s = {}
      BY <3>1
    <3>2. CASE s # {}
      <4>1. Pick(s) \in s
        BY <3>2 DEF Pick
      <4>2. s \ {Pick(s)} \in SetLessThan(s, R, SUBSET T)
        BY <4>1 DEF SetLessThan, StrictSubsetOrdering
      <4> QED  BY <2>1, <3>2, <4>2
    <3> QED  BY <3>1, <3>2
  <2> HIDE DEF Def, R
  <2> QED  BY <2>1 DEF WFDefOn
<1>3. OpDefinesFcn(f, SUBSET T, Def)
  BY DEF OpDefinesFcn
<1>4. WFInductiveDefines(f, SUBSET T, Def)
  <2> HIDE DEF Def, f, R
  <2> QED  BY <1>1, <1>2, <1>3, WFInductiveDef
<1>5. Adds(f, h, T)
  <2> HIDE DEF f
  <2> QED  BY <1>4 DEF WFInductiveDefines, Adds
<1>6. Lengths(h, T) = f[T]
  BY DEF Lengths, MapThenSumSet, MapThenFoldSet, Pick
<1> HIDE DEF f
<1> QED  BY <1>5, <1>6

\* A set of subsets of a finite set has a minimal element.
LEMMA Minimal ==
    ASSUME NEW T, IsFiniteSet(T), NEW B \in SUBSET SUBSET T, B # {}
    PROVE  \E s \in B : \A t \in B : t \subseteq s => t = s
<1> DEFINE R == StrictSubsetOrdering(T)
<1>1. IsWellFoundedOn(R, SUBSET T)
  BY FS_StrictSubsetOrderingWellFounded, FS_FiniteSubsetsOfFinite
<1>2. PICK s \in B : \A t \in B : <<t, s>> \notin R
  <2> HIDE DEF R
  <2> QED  BY <1>1, WFMin
<1> QED  BY <1>2 DEF StrictSubsetOrdering

\* It has no other.
LEMMA AddsUnique ==
    ASSUME NEW T, IsFiniteSet(T), NEW U, T \subseteq U, NEW g, NEW h, NEW k, NEW i,
           Adds(g, h, T), Adds(k, i, U),
           \A x \in T : h[x].len = i[x].len
    PROVE  g[T] = k[T]
<1> DEFINE B == {s \in SUBSET T : g[s] # k[s]}
<1>1. ASSUME NEW s \in SUBSET T, s # {}
      PROVE  /\ Pick(s) \in s
             /\ g[s] = h[Pick(s)].len + g[s \ {Pick(s)}]
             /\ k[s] = h[Pick(s)].len + k[s \ {Pick(s)}]
  <2>1. Pick(s) \in s
    BY <1>1 DEF Pick
  <2>2. s \in SUBSET U /\ i[Pick(s)].len = h[Pick(s)].len
    BY <2>1
  <2> QED  BY <1>1, <2>1, <2>2, Zenon DEF Adds
<1>2. g[{}] = 0 /\ k[{}] = 0
  BY Zenon DEF Adds
<1>3. B = {}
  <2> SUFFICES ASSUME B # {} PROVE FALSE
    OBVIOUS
  <2>1. PICK s \in B : \A t \in B : t \subseteq s => t = s
    <3>1. B \in SUBSET SUBSET T
      OBVIOUS
    <3> HIDE DEF B
    <3> QED  BY <3>1, Minimal
  <2>2. s \in SUBSET T /\ g[s] # k[s] /\ s # {}
    BY <1>2
  <2>3. s \ {Pick(s)} \notin B
    <3> HIDE DEF B
    <3> QED  BY <1>1, <2>1, <2>2
  <2> QED  BY <1>1, <2>2, <2>3
<1> QED  BY <1>3

\* It takes the elements of a set in any order.
LEMMA AddsAny ==
    ASSUME NEW T, IsFiniteSet(T), NEW g, NEW h, Adds(g, h, T),
           \A x \in T : h[x].len \in Nat
    PROVE  \A s \in SUBSET T : /\ g[s] \in Nat
                              /\ \A x \in s : g[s] = h[x].len + g[s \ {x}]
<1> DEFINE Good(s) == g[s] \in Nat /\ \A x \in s : g[s] = h[x].len + g[s \ {x}]
           B == {s \in SUBSET T : ~Good(s)}
<1>1. ASSUME NEW s \in SUBSET T, s # {}
      PROVE  /\ Pick(s) \in s
             /\ g[s] = h[Pick(s)].len + g[s \ {Pick(s)}]
  <2>1. Pick(s) \in s
    BY <1>1 DEF Pick
  <2> QED  BY <1>1, <2>1, Zenon DEF Adds
<1>2. g[{}] = 0
  BY Zenon DEF Adds
<1>3. B = {}
  <2> SUFFICES ASSUME B # {} PROVE FALSE
    OBVIOUS
  <2>1. PICK s \in B : \A t \in B : t \subseteq s => t = s
    <3>1. B \in SUBSET SUBSET T
      OBVIOUS
    <3> HIDE DEF B
    <3> QED  BY <3>1, Minimal
  <2>2. s \in SUBSET T /\ ~Good(s)
    OBVIOUS
  <2>3. \A t \in SUBSET T : t \subseteq s /\ t # s => Good(t)
    <3> HIDE DEF Good
    <3> QED  BY <2>1
  <2>4. CASE s = {}
    BY <1>2, <2>2, <2>4
  <2>5. CASE s # {}
    <3> DEFINE y == Pick(s)
    <3>1. y \in s /\ g[s] = h[y].len + g[s \ {y}] /\ h[y].len \in Nat
      BY <1>1, <2>2, <2>5
    <3> HIDE DEF y
    <3>2. Good(s \ {y})
      <4> HIDE DEF Good
      <4> QED  BY <2>2, <2>3, <3>1
    <3>3. g[s] \in Nat
      BY <3>1, <3>2
    <3>4. ASSUME NEW x \in s, x # y PROVE g[s] = h[x].len + g[s \ {x}]
      <4>1. Good(s \ {x})
        <5> HIDE DEF Good
        <5> QED  BY <2>2, <2>3, <3>4
      <4>2. (s \ {x}) \ {y} = (s \ {y}) \ {x}
        OBVIOUS
      <4>3. g[s \ {x}] = h[y].len + g[(s \ {x}) \ {y}]
        BY <3>1, <3>4, <4>1
      <4>4. g[s \ {y}] = h[x].len + g[(s \ {x}) \ {y}]
        BY <3>2, <3>4, <4>2
      <4>5. Good((s \ {x}) \ {y})
        <5> HIDE DEF Good
        <5> QED  BY <2>2, <2>3, <3>1
      <4>6. h[x].len \in Nat /\ h[y].len \in Nat /\ g[(s \ {x}) \ {y}] \in Nat
        BY <2>2, <3>1, <4>5
      <4> QED  BY <3>1, <4>3, <4>4, <4>6
    <3>5. Good(s)
      BY <3>1, <3>3, <3>4
    <3> QED  BY <2>2, <3>5
  <2> QED  BY <2>4, <2>5
<1> QED  BY <1>3

\* No chunk adds nothing.
LEMMA LengthsEmpty ==
    ASSUME NEW h
    PROVE  Lengths(h, {}) = 0
<1>1. IsFiniteSet({})
  BY FS_EmptySet
<1>2. PICK g : Adds(g, h, {}) /\ Lengths(h, {}) = g[{}]
  BY <1>1, LengthsIs
<1>3. g[{}] = 0
  BY <1>2, Zenon DEF Adds
<1> QED  BY <1>2, <1>3

\* Only the lengths of the chunks in T count.
LEMMA LengthsSame ==
    ASSUME NEW T, IsFiniteSet(T), NEW h, NEW i, \A x \in T : h[x].len = i[x].len
    PROVE  Lengths(h, T) = Lengths(i, T)
<1>1. PICK g : Adds(g, h, T) /\ Lengths(h, T) = g[T]
  BY LengthsIs
<1>2. PICK k : Adds(k, i, T) /\ Lengths(i, T) = k[T]
  BY LengthsIs
<1>3. T \subseteq T
  OBVIOUS
<1>4. g[T] = k[T]
  BY <1>1, <1>2, <1>3, AddsUnique
<1> QED  BY <1>1, <1>2, <1>4

\* A chunk more adds its length.
LEMMA LengthsAdd ==
    ASSUME NEW T, IsFiniteSet(T), NEW x, x \notin T, NEW h,
           \A y \in T \cup {x} : h[y].len \in Nat
    PROVE  /\ Lengths(h, T) \in Nat
           /\ Lengths(h, T \cup {x}) = h[x].len + Lengths(h, T)
<1> DEFINE U == T \cup {x}
<1>1. IsFiniteSet(U)
  BY FS_AddElement
<1>2. PICK g : Adds(g, h, T) /\ Lengths(h, T) = g[T]
  BY LengthsIs
<1>3. PICK k : Adds(k, h, U) /\ Lengths(h, U) = k[U]
  BY <1>1, LengthsIs
<1>4. g[T] = k[T] /\ g[T] \in Nat
  <2>1. T \subseteq U
    OBVIOUS
  <2> HIDE DEF U
  <2>2. g[T] = k[T]
    BY <1>2, <1>3, <2>1, AddsUnique
  <2>3. g[T] \in Nat
    BY <1>2, AddsAny
  <2> QED  BY <2>2, <2>3
<1>5. k[U] = h[x].len + k[U \ {x}]
  <2>1. \A y \in U : h[y].len \in Nat
    OBVIOUS
  <2>2. \A s \in SUBSET U : \A y \in s : k[s] = h[y].len + k[s \ {y}]
    <3> HIDE DEF U
    <3>1. Adds(k, h, U)
      BY <1>3
    <3>2. \A s \in SUBSET U : /\ k[s] \in Nat
                              /\ \A y \in s : k[s] = h[y].len + k[s \ {y}]
      BY <1>1, <2>1, <3>1, AddsAny
    <3> QED  BY <3>2
  <2>3. U \in SUBSET U /\ x \in U
    OBVIOUS
  <2> HIDE DEF U
  <2> QED  BY <2>2, <2>3
<1>6. U \ {x} = T
  OBVIOUS
<1> QED  BY <1>2, <1>3, <1>4, <1>5, <1>6
-----------------------------------------------------------------------------
(***************************************************************************)
(* Rows of chunks.                                                         *)
(***************************************************************************)
LEMMA EmptyRow == \A h : Tiles({}, 0, h)
BY DEF Tiles

\* Marking chunks as free or in use leaves the row.
LEMMA RowKept ==
    ASSUME NEW S, NEW u, NEW h, Tiles(S, u, h), NEW i, \A o \in S : i[o].len = h[o].len
    PROVE  Tiles(S, u, i)
BY DEF Tiles, End

\* A chunk at the end makes the row longer.
LEMMA RowExtended ==
    ASSUME NEW S, NEW u \in Nat, NEW h, Tiles(S, u, h), NEW n \in Nat, NEW i,
           i[u].len = n, \A o \in S : i[o].len = h[o].len
    PROVE  u \notin S /\ Tiles(S \cup {u}, u + n + AddrInfo, i)
<1> DEFINE v == u + n + AddrInfo
<1>1. v \in Nat /\ u < v /\ S \subseteq 0 .. u - 1
  BY ScmAssumption DEF Tiles
<1>2. End(i, u) = v /\ \A o \in S : End(i, o) = End(h, o)
  BY DEF End
<1> HIDE DEF v
<1>3. u \notin S /\ S \cup {u} \subseteq 0 .. v - 1
  BY <1>1
<1>4. 0 \in S \cup {u}
  <2>1. CASE u = 0
    BY <2>1
  <2>2. CASE u > 0
    BY <2>2 DEF Tiles
  <2> QED  BY <2>1, <2>2
<1>5. ASSUME NEW o \in S \cup {u} PROVE End(i, o) = v \/ End(i, o) \in S \cup {u}
  BY <1>2 DEF Tiles
<1>6. ASSUME NEW o \in S \cup {u}, NEW c \in S \cup {u}, o < c PROVE End(i, o) <= c
  <2>1. o \in S
    BY <1>1, <1>6
  <2>2. CASE c \in S
    BY <1>2, <1>6, <2>1, <2>2 DEF Tiles
  <2>3. CASE c = u
    <3>1. End(h, o) = u \/ End(h, o) \in S
      BY <2>1 DEF Tiles
    <3>2. End(h, o) = u \/ End(h, o) \in 0 .. u - 1
      BY <1>1, <3>1
    <3>3. End(h, o) <= u
      BY <3>2
    <3> QED  BY <1>2, <2>1, <2>3, <3>3
  <2> QED  BY <2>2, <2>3
<1>7. Tiles(S \cup {u}, v, i)
  BY <1>3, <1>4, <1>5, <1>6 DEF Tiles
<1> QED  BY <1>3, <1>7 DEF v
-----------------------------------------------------------------------------
(***************************************************************************)
(* The inductive invariant.                                                *)
(***************************************************************************)
InUseOf(S, h) == {o \in S : h[o].inuse = 1}

\* struct scm agrees with the file while it is open.
UsedInv == used = IF Open THEN info.used ELSE 0

LifeInv ==
    /\ ~info.id => pc = "closed" /\ info.used = 0
    /\ pc = "opening" => info.used = 0
    /\ pc # "account" => result = NoChunk

\* What the client owns, and the new chunk it is about to get, are in use.
OwnedInv(S) ==
    /\ \A o \in DOMAIN live : o \in S /\ hdr[o].inuse = 1 /\ hdr[o].len >= live[o]
    /\ result # NoChunk => result \in S /\ result \notin DOMAIN live /\ hdr[result].inuse = 1

\* The counters are the sum of the lengths in use; size_info[2] lags behind one step.
CountedInv(S) ==
    ~reused /\ kills = 0 =>
        /\ Lengths(hdr, InUseOf(S, hdr)) \in 0 .. info.used
        /\ pc \in {"idle", "account"} => user = Lengths(hdr, InUseOf(S, hdr))
        /\ pc \in {"closed", "idle"} => info.user = Lengths(hdr, InUseOf(S, hdr))

\* The file holds a row of chunks at any time.
RowInv == \E S \in SUBSET Offsets : Tiles(S, info.used, hdr) /\ OwnedInv(S) /\ CountedInv(S)

LiveInv == owned = Cardinality(DOMAIN live)

Inv == TypeOK /\ UsedInv /\ LifeInv /\ RowInv /\ LiveInv
-----------------------------------------------------------------------------
\* A chunk begins at one of finitely many offsets.
LEMMA OffsetsFinite == IsFiniteSet(Offsets) /\ Offsets \subseteq Nat /\ 0 \in Offsets
BY FS_Interval, ScmAssumption DEF Offsets

\* The client owns finitely many chunks.
LEMMA LiveFinite == TypeOK => IsFiniteSet(DOMAIN live)
BY OffsetsFinite, FS_Subset DEF TypeOK

\* The headers have their types.
LEMMA HeaderType == TypeOK => hdr \in [Offsets -> Header]
BY DEF TypeOK, Header

\* The chunks in use are finitely many.
LEMMA InUseFinite ==
    ASSUME NEW S \in SUBSET Offsets, NEW h
    PROVE  IsFiniteSet(InUseOf(S, h)) /\ InUseOf(S, h) \subseteq S
<1>1. InUseOf(S, h) \subseteq S
  BY DEF InUseOf
<1>2. InUseOf(S, h) \in SUBSET Offsets
  BY <1>1
<1> QED  BY <1>1, <1>2, OffsetsFinite, FS_Subset

\* While the region is open the walk visits the row.
LEMMA OpenChunks ==
    Inv /\ Open => \A S \in SUBSET Offsets : Tiles(S, info.used, hdr) => Chunks = S
BY HeaderType, ChunksAre DEF Inv, UsedInv, TypeOK

\* No file yet.
LEMMA InitInv == Init => Inv
<1> SUFFICES ASSUME Init PROVE Inv
  OBVIOUS
<1> USE DEF Init
<1>1. TypeOK
  BY ScmAssumption DEF TypeOK, Offsets, NoChunk
<1>2. UsedInv /\ LifeInv
  BY DEF UsedInv, LifeInv, Open
<1>3. RowInv
  <2>1. InUseOf({}, hdr) = {}
    BY DEF InUseOf
  <2>2. Lengths(hdr, InUseOf({}, hdr)) = 0
    BY <2>1, LengthsEmpty
  <2>3. CountedInv({})
    BY <2>2 DEF CountedInv
  <2>4. OwnedInv({})
    BY DEF OwnedInv
  <2>5. Tiles({}, info.used, hdr) /\ {} \in SUBSET Offsets
    BY EmptyRow
  <2> QED  BY <2>3, <2>4, <2>5 DEF RowInv
<1>4. LiveInv
  BY FS_EmptySet DEF LiveInv
<1> QED  BY <1>1, <1>2, <1>3, <1>4 DEF Inv
-----------------------------------------------------------------------------
(***************************************************************************)
(* The steps.                                                              *)
(***************************************************************************)
\* Opening a file that is empty or to be truncated, and one with contents.
LEMMA OpenInv == Inv /\ (\E truncate \in BOOLEAN : scm_open(truncate)) => Inv'
<1> SUFFICES ASSUME Inv, NEW truncate \in BOOLEAN, scm_open(truncate) PROVE Inv'
  OBVIOUS
<1>1. /\ pc = "closed" /\ UNCHANGED <<hdr, result, kills>> /\ result = NoChunk
      /\ TypeOK /\ used = 0
  BY DEF scm_open, Inv, LifeInv, UsedInv, Open
<1>2. CASE ~info.id \/ truncate
  <2>1. CASE ~(info.id /\ ~truncate)
    <3>1. /\ info' = [info EXCEPT !.id = TRUE, !.used = 0] /\ pc' = "opening"
          /\ UNCHANGED <<used, user>>
          /\ live' = [c \in {} |-> 0] /\ owned' = 0 /\ reused' = FALSE
      BY <2>1 DEF scm_open
    <3>2. TypeOK'
      BY <1>1, <3>1, OffsetsFinite DEF TypeOK
    <3>3. info'.used = 0 /\ UsedInv' /\ LifeInv'
      BY <1>1, <3>1 DEF UsedInv, LifeInv, Open, TypeOK
    <3>4. LiveInv'
      BY <3>1, FS_EmptySet DEF LiveInv
    <3>5. Lengths(hdr', InUseOf({}, hdr')) = 0
      <4>1. InUseOf({}, hdr') = {}
        BY DEF InUseOf
      <4> QED  BY <4>1, LengthsEmpty
    <3>6. OwnedInv({})' /\ CountedInv({})'
      BY <1>1, <3>1, <3>3, <3>5 DEF OwnedInv, CountedInv
    <3>7. Tiles({}, info'.used, hdr')
      BY <3>3, EmptyRow
    <3>8. RowInv'
      BY <3>6, <3>7 DEF RowInv
    <3> QED  BY <3>2, <3>3, <3>4, <3>8 DEF Inv
  <2> QED  BY <1>2, <2>1
<1>3. CASE info.id /\ ~truncate
  <2>1. /\ used' = info.used /\ user' = info.user /\ pc' = "idle"
        /\ UNCHANGED <<info, live, owned, reused>>
    BY <1>3 DEF scm_open
  <2>2. TypeOK'
    BY <1>1, <2>1 DEF TypeOK
  <2>3. UsedInv' /\ LifeInv' /\ LiveInv'
    BY <1>1, <1>3, <2>1 DEF Inv, UsedInv, LifeInv, LiveInv, Open
  <2>4. PICK S \in SUBSET Offsets : Tiles(S, info.used, hdr) /\ OwnedInv(S) /\ CountedInv(S)
    BY DEF Inv, RowInv
  <2>5. Tiles(S, info'.used, hdr') /\ OwnedInv(S)'
    BY <1>1, <2>1, <2>4 DEF OwnedInv
  <2>6. CountedInv(S)'
    BY <1>1, <2>1, <2>4 DEF CountedInv
  <2> QED  BY <2>2, <2>3, <2>5, <2>6 DEF Inv, RowInv
<1> QED  BY <1>2, <1>3

\* scm_open(), once the size information is read or written.
LEMMA OpenedInv == Inv /\ Opened => Inv'
<1> SUFFICES ASSUME Inv, Opened PROVE Inv'
  OBVIOUS
<1>1. /\ pc = "opening" /\ info.used = 0 /\ info.id
      /\ info' = [info EXCEPT !.user = 0]
      /\ used' = info.used /\ user' = 0 /\ pc' = "idle"
      /\ UNCHANGED <<hdr, result, live, owned, reused, kills>>
      /\ TypeOK
  BY DEF Opened, Inv, LifeInv
<1>2. info'.used = info.used /\ info'.user = 0 /\ info'.id = info.id
  BY <1>1 DEF TypeOK
<1>3. TypeOK'
  BY <1>1, ScmAssumption DEF TypeOK
<1>4. UsedInv' /\ LifeInv' /\ LiveInv'
  BY <1>1, <1>2 DEF Inv, UsedInv, LifeInv, LiveInv, Open
<1>5. PICK S \in SUBSET Offsets : Tiles(S, info.used, hdr) /\ OwnedInv(S) /\ CountedInv(S)
  BY DEF Inv, RowInv
<1>6. Tiles(S, info'.used, hdr') /\ OwnedInv(S)'
  BY <1>1, <1>2, <1>5 DEF OwnedInv
<1>7. CountedInv(S)'
  <2>1. CountedInv(S)
    BY <1>5
  <2> QED  BY <1>1, <1>2, <2>1 DEF CountedInv
<1> QED  BY <1>3, <1>4, <1>6, <1>7 DEF Inv, RowInv

\* The process ends, by EXIT() or because it is killed: the file stays.
LEMMA EndInv ==
    ASSUME Inv, Closed, UNCHANGED <<memory, live, owned, reused>>,
           \/ kills' = kills /\ pc = "idle"
           \/ kills' = kills + 1 /\ kills' <= MaxKills
    PROVE  Inv'
<1>1. /\ pc' = "closed" /\ used' = 0 /\ user' = 0 /\ result' = NoChunk
      /\ UNCHANGED <<info, hdr, live, owned, reused>> /\ TypeOK
  BY DEF Closed, memory, Inv
<1>2. TypeOK'
  BY <1>1, OffsetsFinite, ScmAssumption DEF TypeOK
<1>3. UsedInv' /\ LifeInv' /\ LiveInv'
  BY <1>1 DEF Inv, UsedInv, LifeInv, LiveInv, Open
<1>4. PICK S \in SUBSET Offsets : Tiles(S, info.used, hdr) /\ OwnedInv(S) /\ CountedInv(S)
  BY DEF Inv, RowInv
<1>5. Tiles(S, info'.used, hdr') /\ OwnedInv(S)'
  BY <1>1, <1>4 DEF OwnedInv
<1>6. CountedInv(S)'
  <2>1. CASE kills' = kills /\ pc = "idle"
    BY <1>1, <1>4, <2>1 DEF CountedInv
  <2>2. CASE kills' = kills + 1
    <3>1. kills' # 0
      BY <1>1, <2>2 DEF TypeOK
    <3> QED  BY <3>1 DEF CountedInv
  <2> QED  BY <2>1, <2>2
<1> QED  BY <1>2, <1>3, <1>5, <1>6 DEF Inv, RowInv

\* scm_close() writes the counters to the file.
LEMMA CloseInv == Inv /\ scm_close => Inv'
<1> SUFFICES ASSUME Inv, scm_close PROVE Inv'
  OBVIOUS
<1>1. /\ pc = "idle" /\ info' = [id |-> TRUE, used |-> used, user |-> user]
      /\ pc' = "closed" /\ used' = 0 /\ user' = 0 /\ result' = NoChunk
      /\ UNCHANGED <<hdr, live, owned, reused, kills>> /\ TypeOK /\ result = NoChunk
  BY DEF scm_close, Closed, Inv, LifeInv
<1>2. used = info.used /\ info'.used = info.used /\ info'.user = user /\ info'.id = TRUE
  BY <1>1 DEF Inv, UsedInv, Open
<1>3. TypeOK'
  BY <1>1, OffsetsFinite, ScmAssumption DEF TypeOK
<1>4. UsedInv' /\ LifeInv' /\ LiveInv'
  BY <1>1, <1>2 DEF Inv, UsedInv, LifeInv, LiveInv, Open
<1>5. PICK S \in SUBSET Offsets : Tiles(S, info.used, hdr) /\ OwnedInv(S) /\ CountedInv(S)
  BY DEF Inv, RowInv
<1>6. Tiles(S, info'.used, hdr') /\ OwnedInv(S)'
  BY <1>1, <1>2, <1>5 DEF OwnedInv
<1>7. CountedInv(S)'
  BY <1>1, <1>2, <1>5 DEF CountedInv
<1> QED  BY <1>3, <1>4, <1>6, <1>7 DEF Inv, RowInv

\* The client gets one more chunk, or gives one back.
LEMMA OwnsMore ==
    ASSUME TypeOK, LiveInv, NEW o \in Offsets \ DOMAIN live, NEW n, live' = With(o, n),
           owned' = owned + 1
    PROVE  /\ DOMAIN live' = DOMAIN live \cup {o} /\ live'[o] = n
           /\ \A c \in DOMAIN live : live'[c] = live[c]
           /\ LiveInv' /\ owned' \in Nat
<1>1. /\ DOMAIN live' = DOMAIN live \cup {o} /\ live'[o] = n
      /\ \A c \in DOMAIN live : live'[c] = live[c]
  BY DEF With
<1>2. Cardinality(DOMAIN live \cup {o}) = Cardinality(DOMAIN live) + 1
  BY LiveFinite, FS_AddElement
<1>3. owned' \in Nat
  BY DEF TypeOK
<1> QED  BY <1>1, <1>2, <1>3 DEF LiveInv

\* The client owns a chunk less.
LEMMA OwnsLess ==
    ASSUME TypeOK, LiveInv, NEW o \in DOMAIN live, live' = Without(o), owned' = owned - 1
    PROVE  /\ DOMAIN live' = DOMAIN live \ {o}
           /\ \A c \in DOMAIN live' : live'[c] = live[c]
           /\ LiveInv' /\ owned' \in Nat
<1>1. /\ DOMAIN live' = DOMAIN live \ {o}
      /\ \A c \in DOMAIN live' : live'[c] = live[c]
  BY DEF Without
<1>2. IsFiniteSet(DOMAIN live \ {o}) /\ Cardinality(DOMAIN live \ {o}) = Cardinality(DOMAIN live) - 1
  BY LiveFinite, FS_RemoveElement
<1>3. Cardinality(DOMAIN live \ {o}) \in Nat
  BY <1>2, FS_CardinalityType
<1> QED  BY <1>1, <1>2, <1>3 DEF LiveInv

\* scm_malloc() hands out a free chunk.
LEMMA ReuseInv ==
    ASSUME Inv, NEW n \in Lens, Reuse(n)
    PROVE  Inv'
<1>1. TypeOK /\ pc = "idle" /\ Open /\ result = NoChunk
  BY DEF Reuse, Inv, LifeInv, Open
<1>2. PICK S \in SUBSET Offsets : Tiles(S, info.used, hdr) /\ OwnedInv(S) /\ CountedInv(S)
  BY DEF Inv, RowInv
<1>3. PICK o \in Chunks : /\ FirstFit(o, n)
                          /\ hdr' = [hdr EXCEPT ![o].inuse = 1]
                          /\ live' = With(o, n)
  BY DEF Reuse
<1>4. /\ owned' = owned + 1 /\ reused' = TRUE
      /\ UNCHANGED <<info, used, user, pc, result, kills>>
  BY DEF Reuse
<1>5. o \in S /\ o \in Offsets /\ hdr[o].inuse = 0 /\ hdr[o].len >= n
  BY <1>1, <1>2, <1>3, OpenChunks DEF FirstFit, Fits
<1>6. o \notin DOMAIN live
  BY <1>2, <1>5 DEF OwnedInv
<1>7. /\ hdr' \in [Offsets -> Header] /\ hdr'[o].inuse = 1
      /\ \A c \in Offsets : hdr'[c].len = hdr[c].len
      /\ \A c \in Offsets \ {o} : hdr'[c] = hdr[c]
  BY <1>1, <1>3, <1>5, HeaderType DEF Header
<1>8. /\ DOMAIN live' = DOMAIN live \cup {o} /\ live'[o] = n
      /\ \A c \in DOMAIN live : live'[c] = live[c]
      /\ LiveInv' /\ owned' \in Nat
  BY <1>1, <1>3, <1>4, <1>5, <1>6, OwnsMore DEF Inv
<1>9. TypeOK'
  <2>1. DOMAIN live' \subseteq Offsets
    BY <1>1, <1>5, <1>8 DEF TypeOK
  <2>2. hdr' \in [Offsets -> [inuse : {0, 1}, len : Nat]]
    BY <1>7 DEF Header
  <2> QED  BY <1>1, <1>4, <1>8, <2>1, <2>2 DEF TypeOK
<1>10. UsedInv' /\ LifeInv'
  BY <1>1, <1>4 DEF Inv, UsedInv, LifeInv, Open
<1>11. Tiles(S, info'.used, hdr')
  BY <1>2, <1>4, <1>7, RowKept
<1>12. OwnedInv(S)'
  <2>1. ASSUME NEW c \in DOMAIN live' PROVE c \in S /\ hdr'[c].inuse = 1 /\ hdr'[c].len >= live'[c]
    <3>1. CASE c = o
      BY <1>5, <1>7, <1>8, <3>1
    <3>2. CASE c # o
      BY <1>2, <1>7, <1>8, <3>2 DEF OwnedInv
    <3> QED  BY <3>1, <3>2
  <2> QED  BY <1>1, <1>4, <2>1 DEF OwnedInv
<1>13. CountedInv(S)'
  BY <1>4 DEF CountedInv
<1> QED  BY <1>8, <1>9, <1>10, <1>11, <1>12, <1>13 DEF Inv, RowInv

\* A number that size_t holds is not changed by counting modulo Word.
LEMMA FitsWord == \A x \in 0 .. MaxUsed : x % Word = x
BY ScmAssumption

\* scm_malloc() puts a chunk at the end of the row.
LEMMA ExtendInv ==
    ASSUME Inv, pc = "idle", NEW n \in Nat, used + n + AddrInfo <= MaxUsed, Extend(n)
    PROVE  Inv'
<1>1. TypeOK /\ Open /\ result = NoChunk /\ used = info.used /\ used \in Offsets /\ used \in Nat
  BY OffsetsFinite DEF Inv, LifeInv, Open, UsedInv, TypeOK
<1>2. /\ hdr' = [hdr EXCEPT ![used] = [inuse |-> 1, len |-> n]]
      /\ user' = (user + n) % Word
      /\ used' = used + n + AddrInfo
      /\ info' = [info EXCEPT !.used = used']
      /\ result' = used
      /\ pc' = "account"
      /\ UNCHANGED <<live, owned, reused, kills>>
  BY DEF Extend
<1>3. PICK S \in SUBSET Offsets : Tiles(S, info.used, hdr) /\ OwnedInv(S) /\ CountedInv(S)
  BY DEF Inv, RowInv
<1>0. PICK u \in Nat : u = used
  BY <1>1
<1>4. used' \in Offsets /\ used' \in Nat
  BY <1>1, <1>2, ScmAssumption DEF Offsets
<1>5. info'.used = used' /\ info'.id = info.id /\ info'.user = info.user
  BY <1>1, <1>2 DEF TypeOK
<1>6. /\ hdr' \in [Offsets -> Header]
      /\ hdr'[used] = [inuse |-> 1, len |-> n]
      /\ \A c \in Offsets \ {used} : hdr'[c] = hdr[c]
  BY <1>1, <1>2, HeaderType DEF Header
<1>7. user' \in 0 .. Word - 1
  BY <1>1, <1>2, ScmAssumption DEF TypeOK
<1>8. TypeOK'
  <2>1. hdr' \in [Offsets -> [inuse : {0, 1}, len : Nat]]
    BY <1>6 DEF Header
  <2>2. info' \in [id : BOOLEAN, used : Offsets, user : 0 .. Word - 1]
    BY <1>1, <1>2, <1>4 DEF TypeOK
  <2> QED  BY <1>1, <1>2, <1>4, <1>7, <2>1, <2>2 DEF TypeOK
<1>9. UsedInv' /\ LifeInv' /\ LiveInv'
  BY <1>1, <1>2, <1>5 DEF Inv, UsedInv, LifeInv, LiveInv, Open
<1>10. u \notin S /\ Tiles(S \cup {u}, used', hdr') /\ S \cup {u} \in SUBSET Offsets
  <2>1. u \notin S /\ Tiles(S, u, hdr)
    BY <1>0, <1>1, <1>3 DEF Tiles
  <2>2. \A o \in S : hdr'[o].len = hdr[o].len
    BY <1>0, <1>6, <2>1
  <2>3. hdr'[u].len = n
    BY <1>0, <1>6
  <2>4. Tiles(S \cup {u}, u + n + AddrInfo, hdr')
    BY <2>1, <2>2, <2>3, RowExtended
  <2>5. S \cup {u} \in SUBSET Offsets
    BY <1>0, <1>1
  <2> QED  BY <1>0, <1>2, <2>1, <2>4, <2>5
<1>11. OwnedInv(S \cup {u})'
  <2>1. u \notin DOMAIN live
    BY <1>3, <1>10 DEF OwnedInv
  <2>2. ASSUME NEW c \in DOMAIN live PROVE c \in S /\ hdr'[c].inuse = 1 /\ hdr'[c].len >= live[c]
    <3>1. c \in S /\ c \in Offsets \ {u}
      BY <1>3, <1>10 DEF OwnedInv
    <3> QED  BY <1>0, <1>3, <1>6, <3>1 DEF OwnedInv
  <2> QED  BY <1>0, <1>2, <1>6, <2>1, <2>2 DEF OwnedInv
<1>12. CountedInv(S \cup {u})'
  <2> SUFFICES ASSUME ~reused, kills = 0
               PROVE  LET total == Lengths(hdr', InUseOf(S \cup {u}, hdr'))
                      IN  total \in 0 .. used' /\ user' = total
    BY <1>0, <1>2, <1>5 DEF CountedInv
  <2> DEFINE T == InUseOf(S, hdr)
  <2>1. InUseOf(S \cup {u}, hdr') = T \cup {u}
    BY <1>0, <1>6, <1>10 DEF InUseOf
  <2>2. IsFiniteSet(T) /\ T \subseteq S
    BY InUseFinite
  <2>3. \A x \in T : hdr'[x].len = hdr[x].len /\ hdr'[x].len \in Nat
    BY <1>0, <1>6, <1>10, <2>2 DEF Header
  <2>4. Lengths(hdr, T) \in 0 .. info.used /\ user = Lengths(hdr, T)
    BY <1>3, <2>2 DEF CountedInv
  <2> HIDE DEF T
  <2>5. Lengths(hdr', T) = Lengths(hdr, T)
    BY <2>2, <2>3, LengthsSame
  <2>6. Lengths(hdr', T \cup {u}) = n + Lengths(hdr, T)
    <3>1. u \notin T /\ hdr'[u].len = n
      BY <1>0, <1>6, <1>10, <2>2
    <3>2. \A y \in T \cup {u} : hdr'[y].len \in Nat
      BY <2>3, <3>1
    <3> QED  BY <2>2, <2>5, <3>1, <3>2, LengthsAdd
  <2>7. user + n \in 0 .. used' /\ used' \in 0 .. MaxUsed
    BY <1>0, <1>1, <1>2, <1>4, <2>4, ScmAssumption DEF Offsets
  <2>8. user' = user + n
    BY <1>0, <1>2, <2>7, FitsWord, ScmAssumption
  <2>9. Lengths(hdr', T \cup {u}) = user + n
    BY <1>1, <2>4, <2>6
  <2> QED  BY <2>1, <2>7, <2>8, <2>9
<1> QED  BY <1>5, <1>8, <1>9, <1>10, <1>11, <1>12 DEF Inv, RowInv

\* scm_malloc() counts the chunk and returns it.
LEMMA AccountInv == Inv /\ Account => Inv'
<1> SUFFICES ASSUME Inv, Account PROVE Inv'
  OBVIOUS
<1>1. /\ TypeOK /\ pc = "account" /\ pc' = "idle" /\ result' = NoChunk /\ info.id
      /\ info' = [info EXCEPT !.user = user]
      /\ UNCHANGED <<hdr, used, user, reused, kills>>
  BY DEF Account, Inv, LifeInv
<1>2. info'.used = info.used /\ info'.id = info.id /\ info'.user = user
  BY <1>1 DEF TypeOK
<1>3. PICK S \in SUBSET Offsets : Tiles(S, info.used, hdr) /\ OwnedInv(S) /\ CountedInv(S)
  BY DEF Inv, RowInv
<1>4. UsedInv' /\ LifeInv'
  BY <1>1, <1>2 DEF Inv, UsedInv, LifeInv, Open
<1>5. Tiles(S, info'.used, hdr') /\ CountedInv(S)'
  BY <1>1, <1>2, <1>3 DEF CountedInv
<1>6. info' \in [id : BOOLEAN, used : Offsets, user : 0 .. Word - 1]
  BY <1>1 DEF TypeOK
<1>7. CASE result # NoChunk /\ live' = With(result, hdr[result].len) /\ owned' = owned + 1
  <2>1. result \in S /\ result \in Offsets \ DOMAIN live /\ hdr[result].inuse = 1
    BY <1>3, <1>7 DEF OwnedInv
  <2>2. hdr[result].len \in Nat
    BY <1>1, <2>1 DEF TypeOK
  <2>3. /\ DOMAIN live' = DOMAIN live \cup {result} /\ live'[result] = hdr[result].len
        /\ \A c \in DOMAIN live : live'[c] = live[c]
        /\ LiveInv' /\ owned' \in Nat
    BY <1>1, <1>7, <2>1, OwnsMore DEF Inv
  <2>4. DOMAIN live' \subseteq Offsets
    BY <1>1, <2>1, <2>3 DEF TypeOK
  <2>5. TypeOK'
    BY <1>1, <1>6, <2>3, <2>4 DEF TypeOK
  <2>6. ASSUME NEW c \in DOMAIN live' PROVE c \in S /\ hdr'[c].inuse = 1 /\ hdr'[c].len >= live'[c]
    <3>1. CASE c = result
      BY <1>1, <2>1, <2>2, <2>3, <3>1
    <3>2. CASE c # result
      BY <1>1, <1>3, <2>3, <3>2 DEF OwnedInv
    <3> QED  BY <3>1, <3>2
  <2>7. OwnedInv(S)'
    BY <1>1, <2>6 DEF OwnedInv
  <2> QED  BY <1>4, <1>5, <2>3, <2>5, <2>7 DEF Inv, RowInv
<1>8. CASE result = NoChunk /\ UNCHANGED <<live, owned>>
  <2>1. TypeOK'
    BY <1>1, <1>6, <1>8 DEF TypeOK
  <2>2. LiveInv' /\ OwnedInv(S)'
    BY <1>1, <1>3, <1>8 DEF Inv, LiveInv, OwnedInv
  <2> QED  BY <1>4, <1>5, <2>1, <2>2 DEF Inv, RowInv
<1> QED  BY <1>7, <1>8 DEF Account

\* scm_free() marks the chunk as free.
LEMMA FreeInv ==
    ASSUME Inv, NEW o \in DOMAIN live, scm_free(o)
    PROVE  Inv'
<1>1. /\ TypeOK /\ pc = "idle" /\ Open /\ result = NoChunk /\ o \in Chunks
      /\ hdr' = [hdr EXCEPT ![o].inuse = 0]
      /\ user' = (user - hdr[o].len) % Word
      /\ live' = Without(o)
      /\ owned' = owned - 1
      /\ pc' = "account"
      /\ UNCHANGED <<info, used, result, reused, kills>>
  BY DEF scm_free, Inv, LifeInv, Open
<1>2. PICK S \in SUBSET Offsets : Tiles(S, info.used, hdr) /\ OwnedInv(S) /\ CountedInv(S)
  BY DEF Inv, RowInv
<1>3. o \in S /\ o \in Offsets /\ hdr[o].inuse = 1 /\ hdr[o].len \in Nat
  BY <1>1, <1>2 DEF OwnedInv, TypeOK
<1>4. /\ hdr' \in [Offsets -> Header] /\ hdr'[o].inuse = 0
      /\ \A c \in Offsets : hdr'[c].len = hdr[c].len
      /\ \A c \in Offsets \ {o} : hdr'[c] = hdr[c]
  BY <1>1, <1>3, HeaderType DEF Header
<1>5. /\ DOMAIN live' = DOMAIN live \ {o}
      /\ \A c \in DOMAIN live' : live'[c] = live[c]
      /\ LiveInv' /\ owned' \in Nat
  BY <1>1, OwnsLess DEF Inv
<1>6. TypeOK'
  <2>1. user' \in 0 .. Word - 1
    BY <1>1, <1>3, ScmAssumption DEF TypeOK
  <2>2. hdr' \in [Offsets -> [inuse : {0, 1}, len : Nat]]
    BY <1>4 DEF Header
  <2>3. DOMAIN live' \subseteq Offsets
    BY <1>1, <1>5 DEF TypeOK
  <2> QED  BY <1>1, <1>5, <2>1, <2>2, <2>3 DEF TypeOK
<1>7. UsedInv' /\ LifeInv'
  BY <1>1 DEF Inv, UsedInv, LifeInv, Open
<1>8. Tiles(S, info'.used, hdr')
  BY <1>1, <1>2, <1>4, RowKept
<1>9. OwnedInv(S)'
  <2>1. ASSUME NEW c \in DOMAIN live' PROVE c \in S /\ hdr'[c].inuse = 1 /\ hdr'[c].len >= live'[c]
    <3>1. c \in DOMAIN live /\ c # o
      BY <1>5
    <3>2. c \in S /\ c \in Offsets \ {o} /\ hdr[c].inuse = 1 /\ hdr[c].len >= live[c]
      BY <1>2, <3>1 DEF OwnedInv
    <3> QED  BY <1>4, <1>5, <3>2
  <2> QED  BY <1>1, <2>1 DEF OwnedInv
<1>10. CountedInv(S)'
  <2> SUFFICES ASSUME ~reused, kills = 0
               PROVE  LET total == Lengths(hdr', InUseOf(S, hdr'))
                      IN  total \in 0 .. info.used /\ user' = total
    BY <1>1 DEF CountedInv
  <2> DEFINE T == InUseOf(S, hdr')
  <2>1. InUseOf(S, hdr) = T \cup {o} /\ o \notin T
    BY <1>3, <1>4 DEF InUseOf
  <2>2. IsFiniteSet(T) /\ T \subseteq S
    BY InUseFinite
  <2>3. \A x \in T \cup {o} : hdr'[x].len = hdr[x].len /\ hdr'[x].len \in Nat /\ hdr[x].len \in Nat
    BY <1>3, <1>4, <2>2 DEF Header
  <2>4. Lengths(hdr, T \cup {o}) \in 0 .. info.used /\ user = Lengths(hdr, T \cup {o})
    BY <1>1, <1>2, <2>1 DEF CountedInv
  <2> HIDE DEF T
  <2>5. Lengths(hdr', T) = Lengths(hdr, T)
    BY <2>2, <2>3, LengthsSame
  <2>6. Lengths(hdr, T) \in Nat /\ Lengths(hdr, T \cup {o}) = hdr[o].len + Lengths(hdr, T)
    BY <2>1, <2>2, <2>3, LengthsAdd
  <2>7. info.used \in 0 .. MaxUsed
    BY <1>1 DEF TypeOK, Offsets
  <2>8. user - hdr[o].len = Lengths(hdr, T) /\ Lengths(hdr, T) \in 0 .. info.used
    BY <1>3, <2>4, <2>6, <2>7
  <2>9. user' = Lengths(hdr, T)
    BY <1>1, <2>7, <2>8, FitsWord, ScmAssumption
  <2> QED  BY <2>5, <2>8, <2>9 DEF T
<1> QED  BY <1>5, <1>6, <1>7, <1>8, <1>9, <1>10 DEF Inv, RowInv

\* Every step keeps the invariant.
LEMMA NextInv == Inv /\ [Next]_vars => Inv'
<1> SUFFICES ASSUME Inv, [Next]_vars PROVE Inv'
  OBVIOUS
<1>1. ASSUME NEW n \in Lens, Fresh(n) PROVE Inv'
  <2>1. n \in Nat /\ used \in Nat /\ used + n + AddrInfo <= MaxUsed
    BY <1>1, OffsetsFinite, ScmAssumption DEF Fresh, HasRoom, Inv, TypeOK
  <2> QED  BY <1>1, <2>1, ExtendInv DEF Fresh
<1>2. ASSUME NEW n \in Lens, scm_strdup(n) PROVE Inv'
  <2>1. n \in Nat
    BY ScmAssumption
  <2> QED  BY <1>2, <2>1, ExtendInv DEF scm_strdup
<1>3. ASSUME NEW n \in Lens, OutOfMemory(n) PROVE Inv'
  BY <1>3, EndInv DEF OutOfMemory
<1>4. CASE Killed
  <2>1. kills' = kills + 1 /\ kills' <= MaxKills
    BY <1>4, ScmAssumption DEF Killed, Inv, TypeOK
  <2> QED  BY <1>4, <2>1, EndInv DEF Killed
<1>5. CASE UNCHANGED vars
  BY <1>5 DEF Inv, TypeOK, UsedInv, LifeInv, RowInv, OwnedInv, CountedInv, LiveInv, Open,
     vars, memory
<1> QED  BY <1>1, <1>2, <1>3, <1>4, <1>5, OpenInv, OpenedInv, ReuseInv, AccountInv, FreeInv,
            CloseInv DEF Next

\* The file holds one row of chunks up to size_info[1], with the chunks of the client
\* in use in it and counted in size_info[2], in every state that calls and kills lead to.
THEOREM InvHolds == Spec => []Inv
BY InitInv, NextInv, PTL DEF Spec
-----------------------------------------------------------------------------
(***************************************************************************)
(* The properties.                                                         *)
(***************************************************************************)
\* Counters, headers and the client's view have their types.
THEOREM TypeCorrect == Spec => []TypeOK
<1>1. Inv => TypeOK
  BY DEF Inv
<1> QED  BY <1>1, InvHolds, PTL

\* The walk of scm_malloc() ends exactly where the next header will be written, also
\* after any number of kills.
THEOREM TilesCorrect == Spec => []ChunksTile
<1>1. Inv => ChunksTile
  <2> SUFFICES ASSUME Inv, Open, used > 0
               PROVE  \E last \in Chunks : After(last) = used
    BY DEF ChunksTile
  <2>1. PICK S \in SUBSET Offsets : Tiles(S, info.used, hdr)
    BY DEF Inv, RowInv
  <2>2. Chunks = S /\ used = info.used
    BY <2>1, OpenChunks DEF Inv, UsedInv
  <2>3. PICK last \in S : \A y \in S : y <= last
    <3>1. S # {} /\ S \in SUBSET (0 .. MaxUsed) /\ MaxUsed \in Nat
      BY <2>1, <2>2, ScmAssumption DEF Tiles, Offsets
    <3> QED  BY <3>1, Greatest
  <2>4. last \in Nat /\ hdr[last].len \in Nat
    BY OffsetsFinite DEF Inv, TypeOK
  <2>5. End(hdr, last) \notin S
    BY <2>3, <2>4, ScmAssumption DEF End
  <2>6. After(last) = used
    BY <2>1, <2>2, <2>5 DEF Tiles, End, After
  <2> QED  BY <2>2, <2>6
<1> QED  BY <1>1, InvHolds, PTL

\* What the client owns stays its own, in use and long enough, whatever it calls and
\* whenever the process is killed.
THEOREM LiveCorrect == Spec => []LiveIsKept
<1>1. Inv => LiveIsKept
  <2> SUFFICES ASSUME Inv, Open
               PROVE  /\ \A o \in DOMAIN live :
                            o \in Chunks /\ hdr[o].inuse = 1 /\ hdr[o].len >= live[o]
                      /\ Cardinality(DOMAIN live) = owned
    BY DEF LiveIsKept
  <2>1. PICK S \in SUBSET Offsets : Tiles(S, info.used, hdr) /\ OwnedInv(S)
    BY DEF Inv, RowInv
  <2>2. Chunks = S
    BY <2>1, OpenChunks
  <2> QED  BY <2>1, <2>2 DEF OwnedInv, Inv, LiveInv
<1> QED  BY <1>1, InvHolds, PTL

\* scm_utilized() is exact until a freed chunk is handed out again or a call is cut short.
THEOREM UtilizedCorrect == Spec => []UtilizedUntilReuse
<1>1. Inv => UtilizedUntilReuse
  <2> SUFFICES ASSUME Inv, ~reused, kills = 0, pc = "idle"
               PROVE  user = Lengths(hdr, InUse)
    BY DEF UtilizedUntilReuse, UtilizedIsExact, Lengths
  <2>1. PICK S \in SUBSET Offsets : Tiles(S, info.used, hdr) /\ CountedInv(S)
    BY DEF Inv, RowInv
  <2>2. Chunks = S
    BY <2>1, OpenChunks DEF Open
  <2>3. InUse = InUseOf(S, hdr)
    BY <2>2 DEF InUse, InUseOf
  <2> QED  BY <2>1, <2>3 DEF CountedInv
<1> QED  BY <1>1, InvHolds, PTL
=============================================================================
