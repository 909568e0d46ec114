---------------------------- MODULE EditorProofs ----------------------------
(***************************************************************************)
(* Proof that the line editor of module Shell is the one of module         *)
(* LineEditor, for every number and size of slots and every set of         *)
(* characters and commands: what project-3/shell.c does to bytes in its    *)
(* history with memmove(), strncpy() and safe_strtrim() is what a user of  *)
(* a line with a cursor expects, as long as no line fills its slot.        *)
(*                                                                         *)
(* The argument.  The invariant of ShellProofs says where each string in   *)
(* memory ends, so a string is known cell by cell (StringIs), and so are   *)
(* the results of the operators on sequences that LineEditor is made of    *)
(* (Inserted, Removed, TrimmedSeq).  A key writes at most the slot that is *)
(* edited, and the lines before it lie in front of that slot (LinesKept);  *)
(* what remains is to compare, key by key, the two descriptions of the     *)
(* line.                                                                   *)
(***************************************************************************)
EXTENDS ShellProofs, SequenceTheorems

\* What the editor shows, and the lines it goes back to.
line  == IF pc = "reading" THEN String(mem, buf) ELSE <<>>
lines == [k \in 1 .. h |-> String(mem, Slot(k - 1))]

Cells == Chars \cup {Nul, Saved}
-----------------------------------------------------------------------------
(***************************************************************************)
(* Strings and sequences.                                                  *)
(***************************************************************************)
\* A string, cell by cell.
LEMMA StringIs ==
    ASSUME NEW m \in Mem, NEW a, NEW e, Ends(m, a, e)
    PROVE  /\ String(m, a) \in Seq(Cells)
           /\ Len(String(m, a)) = e - a
           /\ \A k \in 1 .. e - a : String(m, a)[k] = m[a + k - 1]
<1>1. a \in Nat /\ e \in a .. Termios /\ Termios \in Nat
  BY Slots DEF Ends
<1>2. safe_strlen(m, a) = e - a
  BY StrLen
<1>3. String(m, a) = [k \in 1 .. e - a |-> m[a + k - 1]]
  BY <1>2 DEF String
<1>4. \A k \in 1 .. e - a : m[a + k - 1] \in Cells
  <2>1. \A k \in 1 .. e - a : a + k - 1 \in 0 .. Termios
    BY <1>1
  <2> QED  BY <2>1 DEF Mem, Cells
<1>5. e - a \in Nat
  BY <1>1
<1> QED  BY <1>3, <1>4, <1>5

\* It is the sequence with these cells.
LEMMA StringEqual ==
    ASSUME NEW m \in Mem, NEW a, NEW e, Ends(m, a, e),
           NEW s \in Seq(Cells), Len(s) = e - a,
           \A k \in 1 .. e - a : s[k] = m[a + k - 1]
    PROVE  String(m, a) = s
<1>1. /\ String(m, a) \in Seq(Cells)
      /\ Len(String(m, a)) = e - a
      /\ \A k \in 1 .. e - a : String(m, a)[k] = m[a + k - 1]
  BY StringIs
<1> HIDE DEF Cells
<1> QED  BY <1>1, SeqEqual

LEMMA Inserted ==
    ASSUME NEW s \in Seq(Cells), NEW p \in 1 .. Len(s) + 1, NEW c \in Cells
    PROVE  LET t == Editor!InsertAt(s, p, c)
           IN  /\ t \in Seq(Cells) /\ Len(t) = Len(s) + 1
               /\ \A k \in 1 .. Len(s) + 1 :
                     t[k] = IF k < p THEN s[k] ELSE IF k = p THEN c ELSE s[k - 1]
<1>1. Editor!InsertAt(s, p, c) = SubSeq(s, 1, p - 1) \o <<c>> \o SubSeq(s, p, Len(s))
  BY DEF Editor!InsertAt
<1> DEFINE u == SubSeq(s, 1, p - 1)
           w == SubSeq(s, p, Len(s))
<1>2. Len(s) \in Nat /\ \A k \in 1 .. Len(s) : s[k] \in Cells
  OBVIOUS
<1>3. u \in Seq(Cells) /\ Len(u) = p - 1 /\ \A k \in 1 .. p - 1 : u[k] = s[k]
  BY <1>2
<1>4. w \in Seq(Cells) /\ Len(w) = Len(s) - p + 1 /\ \A k \in 1 .. Len(s) - p + 1 : w[k] = s[p + k - 1]
  BY <1>2
<1>5. <<c>> \in Seq(Cells) /\ Len(<<c>>) = 1 /\ <<c>>[1] = c
  OBVIOUS
<1> DEFINE one == <<c>>
           v == u \o one
           t == v \o w
<1> HIDE DEF u, w, one
<1>6. v \in Seq(Cells) /\ Len(v) = p /\ v[p] = c /\ \A k \in 1 .. p - 1 : v[k] = s[k]
  BY <1>3, <1>5 DEF one
<1>7. Editor!InsertAt(s, p, c) = t
  BY <1>1 DEF u, w, one
<1> HIDE DEF v, Cells
<1>8. t \in Seq(Cells) /\ Len(t) = Len(v) + Len(w)
      /\ \A k \in 1 .. Len(v) + Len(w) : t[k] = IF k <= Len(v) THEN v[k] ELSE w[k - Len(v)]
  BY <1>4, <1>6, ConcatProperties
<1> HIDE DEF t
<1>9. ASSUME NEW k \in 1 .. Len(s) + 1
      PROVE  t[k] = IF k < p THEN s[k] ELSE IF k = p THEN c ELSE s[k - 1]
  <2>0. k \in 1 .. Len(v) + Len(w) /\ Len(v) = p /\ p \in Nat
    BY <1>2, <1>4, <1>6
  <2>1. CASE k <= p
    <3>1. k \in 1 .. p - 1 \/ k = p
      BY <2>0, <2>1
    <3>2. t[k] = v[k]
      BY <1>8, <2>0, <2>1
    <3> QED  BY <1>6, <2>0, <3>1, <3>2
  <2>2. CASE k > p
    <3>1. k - p \in 1 .. Len(s) - p + 1 /\ p + (k - p) - 1 = k - 1 /\ ~(k <= Len(v))
      BY <1>2, <2>0, <2>2
    <3>2. t[k] = w[k - p]
      BY <1>8, <2>0, <3>1
    <3> QED  BY <1>4, <2>0, <2>2, <3>1, <3>2
  <2> QED  BY <2>1, <2>2
<1>10. Len(t) = Len(s) + 1
  BY <1>2, <1>4, <1>6, <1>8
<1> QED  BY <1>7, <1>8, <1>9, <1>10

LEMMA Removed ==
    ASSUME NEW s \in Seq(Cells), NEW p \in 1 .. Len(s)
    PROVE  LET t == Editor!RemoveAt(s, p)
           IN  /\ t \in Seq(Cells) /\ Len(t) = Len(s) - 1
               /\ \A k \in 1 .. Len(s) - 1 : t[k] = IF k < p THEN s[k] ELSE s[k + 1]
<1>1. Editor!RemoveAt(s, p) = SubSeq(s, 1, p - 1) \o SubSeq(s, p + 1, Len(s))
  BY DEF Editor!RemoveAt
<1> DEFINE u == SubSeq(s, 1, p - 1)
           w == SubSeq(s, p + 1, Len(s))
           t == u \o w
<1>2. Len(s) \in Nat /\ \A k \in 1 .. Len(s) : s[k] \in Cells
  OBVIOUS
<1>3. u \in Seq(Cells) /\ Len(u) = p - 1 /\ \A k \in 1 .. p - 1 : u[k] = s[k]
  BY <1>2
<1>4. w \in Seq(Cells) /\ Len(w) = Len(s) - p /\ \A k \in 1 .. Len(s) - p : w[k] = s[p + k]
  BY <1>2
<1> HIDE DEF u, w, Cells
<1>5. t \in Seq(Cells) /\ Len(t) = Len(u) + Len(w)
      /\ \A k \in 1 .. Len(u) + Len(w) : t[k] = IF k <= Len(u) THEN u[k] ELSE w[k - Len(u)]
  BY <1>3, <1>4, ConcatProperties
<1>6. Editor!RemoveAt(s, p) = t
  BY <1>1 DEF u, w
<1> HIDE DEF t
<1>7. ASSUME NEW k \in 1 .. Len(s) - 1
      PROVE  t[k] = IF k < p THEN s[k] ELSE s[k + 1]
  <2>0. k \in 1 .. Len(u) + Len(w) /\ Len(u) = p - 1 /\ p \in Nat
    BY <1>2, <1>3, <1>4
  <2>1. CASE k < p
    <3>1. k \in 1 .. p - 1 /\ k <= Len(u)
      BY <2>0, <2>1
    <3>2. t[k] = u[k]
      BY <1>5, <2>0, <3>1
    <3> QED  BY <1>3, <2>1, <3>1, <3>2
  <2>2. CASE k >= p
    <3>1. k - (p - 1) \in 1 .. Len(s) - p /\ p + (k - (p - 1)) = k + 1 /\ ~(k <= Len(u))
      BY <1>2, <2>0, <2>2
    <3>2. t[k] = w[k - (p - 1)]
      BY <1>5, <2>0, <3>1
    <3> QED  BY <1>4, <2>2, <3>1, <3>2
  <2> QED  BY <2>1, <2>2
<1>8. Len(t) = Len(s) - 1
  BY <1>2, <1>3, <1>4, <1>5
<1> QED  BY <1>5, <1>6, <1>7, <1>8

\* Without a visible character nothing is left of a line.
LEMMA TrimmedEmpty ==
    ASSUME NEW s \in Seq(Cells), \A k \in 1 .. Len(s) : s[k] = Blank
    PROVE  Editor!Trim(s) = <<>>
<1>1. Editor!Visible(s) = {}
  BY DEF Editor!Visible
<1> QED  BY <1>1 DEF Editor!Trim

\* Else what lies between the first and the last of them.
LEMMA TrimmedSeq ==
    ASSUME NEW s \in Seq(Cells), NEW lo \in 1 .. Len(s), NEW hi \in 1 .. Len(s),
           s[lo] # Blank, s[hi] # Blank,
           \A k \in 1 .. Len(s) : s[k] # Blank => k \in lo .. hi
    PROVE  Editor!Trim(s) = SubSeq(s, lo, hi)
<1> DEFINE V == Editor!Visible(s)
<1>1. V = {k \in 1 .. Len(s) : s[k] # Blank}
  BY DEF Editor!Visible
<1>2. lo \in V /\ hi \in V /\ \A y \in V : lo <= y /\ y <= hi
  BY <1>1
<1>3. \A x \in V : x \in Int
  BY <1>1
<1> HIDE DEF V
<1>4. (CHOOSE x \in V : \A y \in V : x <= y) = lo
  <2>1. ASSUME NEW x \in V, \A y \in V : x <= y PROVE x = lo
    BY <1>2, <1>3, <2>1
  <2> QED  BY <1>2, <2>1
<1>5. (CHOOSE x \in V : \A y \in V : x >= y) = hi
  <2>1. ASSUME NEW x \in V, \A y \in V : x >= y PROVE x = hi
    BY <1>2, <1>3, <2>1
  <2>2. \A y \in V : hi >= y
    BY <1>2, <1>3
  <2> QED  BY <1>2, <2>1, <2>2
<1>6. V # {}
  BY <1>2
<1> QED  BY <1>4, <1>5, <1>6 DEF Editor!Trim, V, Editor!Min, Editor!Max

\* shell_strtrim() is what LineEditor means by it.
LEMMA TrimmedString ==
    ASSUME NEW m \in Mem, NEW s, NEW e, Ends(m, s, e)
    PROVE  String(shell_strtrim(m, s), s) = Editor!Trim(String(m, s))
<1> DEFINE t == shell_strtrim(m, s)
           w == String(m, s)
<1>1. /\ s \in Nat /\ e \in s .. Termios /\ Termios \in Nat
      /\ m[e] = Nul /\ \A x \in s .. e - 1 : m[x] # Nul
  BY Slots DEF Ends
<1>2. w \in Seq(Cells) /\ Len(w) = e - s /\ \A k \in 1 .. e - s : w[k] = m[s + k - 1]
  BY StringIs
<1>3. TrimmedIs(m, s, e, t) /\ t \in Mem
  BY TrimIs, TrimKeeps
<1> HIDE DEF t, w, Cells
<1>4. CASE /\ \A x \in s .. e - 1 : m[x] = Blank
           /\ t = [x \in 0 .. Termios |-> IF x = s THEN Nul ELSE m[x]]
  <2>1. Editor!Trim(w) = <<>>
    <3>1. \A k \in 1 .. Len(w) : w[k] = Blank
      BY <1>1, <1>2, <1>4
    <3> QED  BY <1>2, <3>1, TrimmedEmpty
  <2>2. Ends(t, s, s)
    BY <1>1, <1>4 DEF Ends
  <2>3. String(t, s) \in Seq(Cells) /\ Len(String(t, s)) = s - s
    BY <1>3, <2>2, StringIs
  <2>4. String(t, s) = <<>>
    BY <1>1, <2>3
  <2> QED  BY <2>1, <2>4 DEF t, w
<1>5. ASSUME NEW lo \in s .. e - 1, NEW hi \in lo .. e - 1,
             m[lo] # Blank, m[hi] # Blank,
             \A x \in s .. e - 1 : m[x] # Blank => x \in lo .. hi,
             t = [x \in 0 .. Termios |->
                     IF x = s + (hi - lo + 1) THEN Nul
                     ELSE IF x \in s .. s + (hi - lo) THEN m[x - s + lo] ELSE m[x]]
      PROVE  String(t, s) = Editor!Trim(w)
  <2> DEFINE l == lo - s + 1
             r == hi - s + 1
             f == s + (hi - lo + 1)
  <2>1. /\ l \in 1 .. Len(w) /\ r \in 1 .. Len(w) /\ l <= r
        /\ s + l - 1 = lo /\ s + r - 1 = hi /\ f \in s + 1 .. e /\ f - s = r - l + 1
        /\ lo \in Nat /\ hi \in Nat
    BY <1>1, <1>2
  <2>2. w[l] # Blank /\ w[r] # Blank
    BY <1>1, <1>2, <1>5, <2>1
  <2>3. \A k \in 1 .. Len(w) : w[k] # Blank => k \in l .. r
    <3> SUFFICES ASSUME NEW k \in 1 .. Len(w), w[k] # Blank PROVE k \in l .. r
      OBVIOUS
    <3>1. s + k - 1 \in s .. e - 1 /\ m[s + k - 1] # Blank
      BY <1>1, <1>2
    <3>2. s + k - 1 \in lo .. hi
      BY <1>5, <3>1
    <3> QED  BY <1>1, <3>2
  <2>4. t[f] = Nul /\ \A x \in s .. f - 1 : x - s + lo \in s .. e - 1 /\ t[x] = m[x - s + lo]
    BY <1>1, <1>5, <2>1
  <2> HIDE DEF l, r, f
  <2>5. Editor!Trim(w) = SubSeq(w, l, r)
    BY <1>2, <2>1, <2>2, <2>3, TrimmedSeq
  <2>6. Ends(t, s, f)
    BY <1>1, <2>1, <2>4 DEF Ends
  <2> DEFINE v == SubSeq(w, l, r)
  <2>7. v \in Seq(Cells) /\ Len(v) = r - l + 1 /\ \A k \in 1 .. r - l + 1 : v[k] = w[l + k - 1]
    <3>1. \A k \in l .. r : w[k] \in Cells
      BY <1>2, <2>1
    <3> QED  BY <2>1, <3>1
  <2>8. \A k \in 1 .. f - s : v[k] = t[s + k - 1]
    <3> SUFFICES ASSUME NEW k \in 1 .. f - s PROVE v[k] = t[s + k - 1]
      OBVIOUS
    <3> HIDE DEF v
    <3>1. v[k] = w[l + k - 1] /\ l + k - 1 \in 1 .. e - s
      BY <1>1, <1>2, <2>1, <2>7
    <3>2. w[l + k - 1] = m[s + (l + k - 1) - 1]
      BY <1>2, <3>1
    <3>3. s + k - 1 \in s .. f - 1 /\ (s + k - 1) - s + lo = s + (l + k - 1) - 1
      BY <1>1, <2>1
    <3>4. t[s + k - 1] = m[(s + k - 1) - s + lo]
      BY <2>4, <3>3
    <3> QED  BY <3>1, <3>2, <3>3, <3>4
  <2> HIDE DEF v
  <2>9. String(t, s) = v
    <3>1. v \in Seq(Cells) /\ Len(v) = f - s
      BY <2>1, <2>7
    <3> QED  BY <1>3, <2>6, <2>8, <3>1, StringEqual, Zenon
  <2> QED  BY <2>5, <2>9 DEF v
<1> QED  BY <1>3, <1>4, <1>5 DEF TrimmedIs, t, w
-----------------------------------------------------------------------------
(***************************************************************************)
(* The line that is edited, and the lines before it.                       *)
(***************************************************************************)
NoneFull == \A k \in DOMAIN entered : ~entered[k].full

LEMMA LineIs ==
    ASSUME Inv, pc = "reading"
    PROVE  /\ line = String(mem, buf)
           /\ line \in Seq(Cells) /\ Len(line) = n
           /\ \A k \in 1 .. n : line[k] = mem[buf + k - 1]
<1>1. Ends(mem, buf, buf + n) /\ mem \in Mem /\ buf \in Nat /\ n \in Nat
  BY Line DEF Inv, ReadInv
<1> DEFINE e == buf + n
           w == String(mem, buf)
<1>2. e - buf = n
  BY <1>1
<1>3. w \in Seq(Cells) /\ Len(w) = e - buf /\ \A k \in 1 .. e - buf : w[k] = mem[buf + k - 1]
  <2> HIDE DEF e
  <2>1. Ends(mem, buf, e)
    BY <1>1 DEF e
  <2> QED  BY <1>1, <2>1, StringIs
<1>4. line = w
  BY DEF line
<1> HIDE DEF w, e
<1> QED  BY <1>2, <1>3, <1>4 DEF w

\* After a key, the line is what its cells are.
LEMMA LineBecomes ==
    ASSUME Inv', pc' = "reading", buf' = buf,
           NEW s \in Seq(Cells), Len(s) = n',
           \A k \in 1 .. n' : s[k] = mem'[buf + k - 1]
    PROVE  line' = s
<1> DEFINE l == line'
           c == n'
<1>1. l \in Seq(Cells) /\ Len(l) = c /\ \A k \in 1 .. c : l[k] = mem'[buf' + k - 1]
  <2>1. (Inv /\ pc = "reading" =>
           /\ line \in Seq(Cells) /\ Len(line) = n
           /\ \A k \in 1 .. n : line[k] = mem[buf + k - 1])'
    BY LineIs, PTL
  <2> QED  BY <2>1
<1> HIDE DEF l, c, Cells
<1> QED  BY <1>1, SeqEqual DEF l, c

\* The lines before keep their ends, and their text, when only cells behind them
\* change.
LEMMA LineEnds ==
    ASSUME Inv, pc = "reading", NoneFull, NEW k \in 1 .. h
    PROVE  /\ Slot(k - 1) \in Nat /\ Slot(k - 1) + N <= buf
           /\ \E e \in Slot(k - 1) .. Slot(k - 1) + N - 1 :
                 \A m \in Mem : (\A x \in 0 .. Termios : x < buf => m[x] = mem[x])
                                  => Ends(m, Slot(k - 1), e)
<1>1. /\ h \in 0 .. H - 1 /\ H \in Nat /\ N \in Nat \ {0} /\ buf = Slot(h)
      /\ buf \in Nat /\ buf <= Termios /\ Termios \in Nat
  BY Slots, Buffer DEF buf
<1>2. DOMAIN entered = 1 .. h
  BY DEF Inv, ReadInv, TypeOK
<1>3. k - 1 \in 0 .. H - 1 /\ k - 1 \in 0 .. H /\ h \in 0 .. H /\ k - 1 < h /\ (k - 1) + 1 = k
  BY <1>1
<1>4. Slot(k - 1) \in Nat /\ Slot(k) = Slot(k - 1) + N /\ Slot(k - 1) + N <= buf
  <2> DEFINE r == k - 1
  <2>1. r \in 0 .. H - 1 /\ r \in 0 .. H /\ r < h /\ r + 1 = k
    BY <1>3
  <2> HIDE DEF r
  <2>2. Slot(r) \in Nat /\ Slot(k) = Slot(r) + N /\ Slot(r) + N <= Slot(h)
    BY <1>3, <2>1, Slots
  <2> QED  BY <1>1, <2>2 DEF r
<1> DEFINE s == Slot(k - 1)
<1>5. PICK e \in s .. Slot(k) - 1 : Settled(mem, s, e)
  BY <1>2 DEF Inv, RecallInv, NoneFull
<1> HIDE DEF s
<1>6. s \in Nat /\ Slot(k) = s + N /\ s + N <= buf
  BY <1>4 DEF s
<1>7. ASSUME NEW m \in Mem, \A x \in 0 .. Termios : x < buf => m[x] = mem[x]
      PROVE  Ends(m, s, e)
  <2>1. \A x \in s .. e : m[x] = mem[x]
    BY <1>1, <1>5, <1>6, <1>7
  <2>2. Settled(m, s, e)
    BY <1>5, <2>1, SettledKept
  <2> QED  BY <2>2 DEF Settled
<1>8. e \in s .. s + N - 1
  BY <1>1, <1>5, <1>6
<1> QED  BY <1>6, <1>7, <1>8 DEF s

LEMMA LineKept ==
    ASSUME Inv, pc = "reading", NoneFull, NEW k \in 1 .. h,
           NEW m \in Mem, \A x \in 0 .. Termios : x < buf => m[x] = mem[x]
    PROVE  String(m, Slot(k - 1)) = String(mem, Slot(k - 1))
<1> DEFINE s == Slot(k - 1)
<1>1. mem \in Mem /\ buf \in Nat /\ Termios \in Nat /\ N \in Nat
  BY Line
<1>2. s \in Nat /\ s + N <= buf /\ buf <= Termios
  BY LineEnds, Buffer, Slots
<1>3. PICK e \in s .. s + N - 1 : Ends(m, s, e) /\ Ends(mem, s, e)
  BY <1>1, LineEnds
<1> HIDE DEF s
<1>4. /\ String(m, s) \in Seq(Cells) /\ Len(String(m, s)) = e - s
      /\ \A x \in 1 .. e - s : String(m, s)[x] = m[s + x - 1]
  BY <1>3, StringIs
<1>5. \A x \in 1 .. e - s : m[s + x - 1] = mem[s + x - 1]
  <2>1. \A x \in 1 .. e - s : s + x - 1 \in 0 .. Termios /\ s + x - 1 < buf
    BY <1>1, <1>2, <1>3
  <2> QED  BY <2>1
<1>6. \A x \in 1 .. e - s : String(m, s)[x] = mem[s + x - 1]
  BY <1>4, <1>5
<1>7. String(mem, s) = String(m, s)
  BY <1>1, <1>3, <1>4, <1>6, StringEqual, Zenon
<1> QED  BY <1>7 DEF s

LEMMA LinesKept ==
    ASSUME Inv, Inv', pc = "reading", NoneFull, h' = h,
           \A x \in 0 .. Termios : x < buf => mem'[x] = mem[x]
    PROVE  lines' = lines
<1> DEFINE m == mem'
<1>1. m \in Mem
  BY DEF Inv, TypeOK, Mem
<1> HIDE DEF m
<1>2. \A x \in 0 .. Termios : x < buf => m[x] = mem[x]
  BY DEF m
<1>3. \A k \in 1 .. h : String(m, Slot(k - 1)) = String(mem, Slot(k - 1))
  BY <1>1, <1>2, LineKept
<1>4. [k \in 1 .. h |-> String(m, Slot(k - 1))] = [k \in 1 .. h |-> String(mem, Slot(k - 1))]
  BY <1>3
<1>5. lines' = [k \in 1 .. h |-> String(m, Slot(k - 1))]
  BY DEF lines, m, String, safe_strlen
<1> QED  BY <1>4, <1>5 DEF lines
-----------------------------------------------------------------------------
(***************************************************************************)
(* The keys.                                                               *)
(***************************************************************************)
\* A character is inserted before the cursor.
LEMMA Typed ==
    ASSUME Inv, Inv', NoneFull, NEW c \in Chars,
           (c # Blank /\ Printable(c)) \/ (c = Blank /\ Space)
    PROVE  Editor!Type(c)
<1>1. /\ pc = "reading" /\ i' = i + 1 /\ n' = n + 1 /\ UNCHANGED <<pc, h, j, entered>>
      /\ n < (IF c = Blank THEN N ELSE N - 1)
  <2>1. n \in Nat /\ N \in Nat
    BY ShellAssumption DEF Inv, TypeOK
  <2> QED  BY <2>1 DEF Printable, Space
<1>2. /\ buf \in Nat /\ n \in 0 .. N /\ i \in 0 .. n /\ buf + N <= Termios
      /\ N \in Nat /\ Termios \in Nat /\ mem \in Mem /\ j \in 0 .. h
  BY <1>1, Line
<1>3. /\ \A x \in 0 .. Termios : x < buf => mem'[x] = mem[x]
      /\ \A x \in buf .. buf + n :
            mem'[x] = IF x < buf + i THEN mem[x] ELSE IF x = buf + i THEN c ELSE mem[x - 1]
  <2>1. CASE c # Blank
    <3>1. mem' = [x \in 0 .. Termios |->
                     IF x = buf + n + 1 THEN Nul
                     ELSE IF x = buf + i THEN c
                     ELSE IF x \in buf + i + 1 .. buf + n THEN mem[x - 1] ELSE mem[x]]
      BY <2>1, PrintableIs
    <3> QED  BY <1>1, <1>2, <3>1
  <2>2. CASE c = Blank
    <3>1. mem' = [x \in 0 .. Termios |->
                     IF x = buf + i THEN Blank
                     ELSE IF x \in buf + i + 1 .. buf + n + 1 THEN mem[x - 1] ELSE mem[x]]
      BY <2>2, SpaceIs
    <3> QED  BY <1>1, <1>2, <2>2, <3>1
  <2> QED  BY <2>1, <2>2
<1>4. lines' = lines
  BY <1>1, <1>3, LinesKept
<1> DEFINE s == Editor!InsertAt(line, i + 1, c)
<1>5. line \in Seq(Cells) /\ Len(line) = n /\ \A k \in 1 .. n : line[k] = mem[buf + k - 1]
  BY <1>1, LineIs
<1>6. /\ s \in Seq(Cells) /\ Len(s) = n + 1
      /\ \A k \in 1 .. n + 1 :
            s[k] = IF k < i + 1 THEN line[k] ELSE IF k = i + 1 THEN c ELSE line[k - 1]
  <2>1. i + 1 \in 1 .. Len(line) + 1 /\ c \in Cells
    BY <1>2, <1>5 DEF Cells
  <2> DEFINE p == i + 1
  <2> HIDE DEF p
  <2>2. p \in 1 .. Len(line) + 1
    BY <2>1 DEF p
  <2>3. /\ Editor!InsertAt(line, p, c) \in Seq(Cells)
        /\ Len(Editor!InsertAt(line, p, c)) = Len(line) + 1
        /\ \A k \in 1 .. Len(line) + 1 : Editor!InsertAt(line, p, c)[k] =
              IF k < p THEN line[k] ELSE IF k = p THEN c ELSE line[k - 1]
    BY <1>5, <2>1, <2>2, Inserted
  <2> QED  BY <1>5, <2>3 DEF p
<1> HIDE DEF s
<1>7. \A k \in 1 .. n + 1 : s[k] = mem'[buf + k - 1]
  <2> SUFFICES ASSUME NEW k \in 1 .. n + 1 PROVE s[k] = mem'[buf + k - 1]
    OBVIOUS
  <2>1. buf + k - 1 \in buf .. buf + n
    BY <1>2
  <2>2. CASE k < i + 1
    <3>1. s[k] = mem[buf + k - 1]
      BY <1>2, <1>5, <1>6, <2>2
    <3> QED  BY <1>2, <1>3, <2>1, <2>2, <3>1
  <2>3. CASE k = i + 1
    BY <1>2, <1>3, <1>6, <2>1, <2>3
  <2>4. CASE k > i + 1
    <3>1. k - 1 \in 1 .. n /\ buf + (k - 1) - 1 = (buf + k - 1) - 1
      BY <1>2, <2>4
    <3>2. s[k] = mem[(buf + k - 1) - 1]
      BY <1>2, <1>5, <1>6, <2>4, <3>1
    <3> QED  BY <1>2, <1>3, <2>1, <2>4, <3>2
  <2> QED  BY <1>2, <2>2, <2>3, <2>4
<1>8. line' = s
  <2>1. buf' = buf
    BY <1>1 DEF buf
  <2> QED  BY <1>1, <1>6, <1>7, <2>1, LineBecomes
<1> QED  BY <1>1, <1>4, <1>5, <1>8 DEF Editor!Type, line, lines, s

\* The character at the cursor or before it is removed.
LEMMA Deleted ==
    ASSUME Inv, Inv', NoneFull, DeleteHere \/ Backspace
    PROVE  Editor!Delete \/ Editor!Backspace
<1> DEFINE p == IF DeleteHere THEN i + 1 ELSE i
<1>1. /\ pc = "reading" /\ n' = n - 1 /\ UNCHANGED <<pc, h, j, entered>> /\ buf' = buf
  BY DEF DeleteHere, Backspace, buf
<1>2. /\ buf \in Nat /\ n \in 0 .. N /\ i \in 0 .. n /\ buf + N <= Termios
      /\ N \in Nat /\ Termios \in Nat /\ mem \in Mem /\ j \in 0 .. h
  BY <1>1, Line
<1>3. p \in 1 .. n /\ ((p = i + 1 /\ i' = i) \/ (p = i /\ i' = i - 1))
  <2>1. CASE DeleteHere
    <3>1. p = i + 1
      BY <2>1, Zenon
    <3> HIDE DEF p
    <3>2. n > i /\ i' = i
      BY <2>1 DEF DeleteHere
    <3>3. p \in 1 .. n
      BY <1>2, <3>1, <3>2
    <3> QED  BY <3>1, <3>2, <3>3
  <2>2. CASE ~DeleteHere
    <3>1. p = i
      BY <2>2, Zenon
    <3> HIDE DEF p
    <3>2. i > 0 /\ i' = i - 1
      BY <2>2 DEF Backspace
    <3> QED  BY <1>2, <3>1, <3>2
  <2> QED  BY <2>1, <2>2
<1>4. mem' = [x \in 0 .. Termios |->
                 IF x \in buf + p - 1 .. buf + n - 1 THEN mem[x + 1] ELSE mem[x]]
  <2>1. CASE DeleteHere
    <3>1. buf + p - 1 = buf + i
      BY <1>2, <2>1
    <3> HIDE DEF p
    <3> QED  BY <2>1, <3>1, DeleteHereIs
  <2>2. CASE ~DeleteHere
    <3>1. buf + p - 1 = buf + i - 1 /\ Backspace
      BY <2>2
    <3> HIDE DEF p
    <3> QED  BY <3>1, BackspaceIs
  <2> QED  BY <2>1, <2>2
<1> HIDE DEF p
<1>5. /\ \A x \in 0 .. Termios : x < buf => mem'[x] = mem[x]
      /\ \A x \in buf .. buf + n - 2 : mem'[x] = IF x < buf + p - 1 THEN mem[x] ELSE mem[x + 1]
  BY <1>2, <1>3, <1>4
<1>6. lines' = lines
  BY <1>1, <1>5, LinesKept
<1> DEFINE s == Editor!RemoveAt(line, p)
<1>7. line \in Seq(Cells) /\ Len(line) = n /\ \A k \in 1 .. n : line[k] = mem[buf + k - 1]
  BY <1>1, LineIs
<1>8. /\ s \in Seq(Cells) /\ Len(s) = n - 1
      /\ \A k \in 1 .. n - 1 : s[k] = IF k < p THEN line[k] ELSE line[k + 1]
  BY <1>3, <1>7, Removed
<1> HIDE DEF s
<1>9. \A k \in 1 .. n - 1 : s[k] = mem'[buf + k - 1]
  <2> SUFFICES ASSUME NEW k \in 1 .. n - 1 PROVE s[k] = mem'[buf + k - 1]
    OBVIOUS
  <2>1. buf + k - 1 \in buf .. buf + n - 2
    BY <1>2
  <2>2. CASE k < p
    <3>1. s[k] = mem[buf + k - 1]
      BY <1>2, <1>7, <1>8, <2>2
    <3> QED  BY <1>2, <1>3, <1>5, <2>1, <2>2, <3>1
  <2>3. CASE k >= p
    <3>1. k + 1 \in 1 .. n /\ buf + (k + 1) - 1 = (buf + k - 1) + 1
      BY <1>2
    <3>2. s[k] = mem[(buf + k - 1) + 1]
      <4>1. s[k] = line[k + 1]
        BY <1>2, <1>3, <1>8, <2>3
      <4>2. line[k + 1] = mem[buf + (k + 1) - 1]
        BY <1>7, <3>1
      <4> QED  BY <3>1, <4>1, <4>2
    <3> QED  BY <1>2, <1>3, <1>5, <2>1, <2>3, <3>2
  <2> QED  BY <1>2, <1>3, <2>2, <2>3
<1>10. line' = s
  BY <1>1, <1>8, <1>9, LineBecomes
<1>11. CASE p = i + 1 /\ i' = i
  <2>1. i < Len(line) /\ line' = Editor!RemoveAt(line, i + 1) /\ i' = i
    BY <1>2, <1>3, <1>7, <1>10, <1>11 DEF s
  <2> QED  BY <1>1, <1>6, <2>1 DEF Editor!Delete, line, lines
<1>12. CASE p = i /\ i' = i - 1
  <2>1. i > 0 /\ line' = Editor!RemoveAt(line, i) /\ i' = i - 1
    BY <1>2, <1>3, <1>10, <1>12 DEF s
  <2> QED  BY <1>1, <1>6, <2>1 DEF Editor!Backspace, line, lines
<1> QED  BY <1>3, <1>11, <1>12

\* What follows the cursor is cut off.
LEMMA Cuts ==
    ASSUME Inv, Inv', NoneFull, CutRest
    PROVE  Editor!Cut
<1>1. /\ pc = "reading" /\ UNCHANGED <<pc, h, j, entered>> /\ buf' = buf
  BY DEF CutRest, buf
<1>2. /\ buf \in Nat /\ n \in 0 .. N /\ i \in 0 .. n /\ buf + N <= Termios
      /\ N \in Nat /\ Termios \in Nat /\ mem \in Mem /\ j \in 0 .. h
      /\ \A x \in buf .. buf + n - 1 : mem[x] # Nul
  BY <1>1, Line
<1>3. mem' = [x \in 0 .. Termios |-> IF x = buf + i THEN Nul ELSE mem[x]]
  BY <1>2 DEF CutRest, Put, Mem
<1>4. n' = i /\ i' = i
  <2> DEFINE e == buf + i
  <2>1. Ends(mem', buf, e)
    BY <1>2, <1>3 DEF Ends
  <2> HIDE DEF e
  <2>2. safe_strlen(mem', buf) = e - buf
    BY <2>1, StrLen
  <2> QED  BY <1>2, <2>2 DEF CutRest, e
<1>5. lines' = lines
  BY <1>1, <1>2, <1>3, LinesKept
<1> DEFINE s == SubSeq(line, 1, i)
<1>6. line \in Seq(Cells) /\ Len(line) = n /\ \A k \in 1 .. n : line[k] = mem[buf + k - 1]
  BY <1>1, LineIs
<1>7. s \in Seq(Cells) /\ Len(s) = i /\ \A k \in 1 .. i : s[k] = line[k]
  <2>1. \A k \in 1 .. i : line[k] \in Cells
    BY <1>2, <1>6
  <2> QED  BY <1>2, <2>1
<1> HIDE DEF s
<1>8. \A k \in 1 .. i : s[k] = mem'[buf + k - 1]
  BY <1>2, <1>3, <1>6, <1>7
<1>9. line' = s
  BY <1>1, <1>4, <1>7, <1>8, LineBecomes
<1> QED  BY <1>1, <1>4, <1>5, <1>9 DEF Editor!Cut, line, lines, s

\* The cursor moves.
LEMMA Moves ==
    ASSUME Inv, Inv', NoneFull, Left \/ Right
    PROVE  Editor!Move
<1>1. /\ pc = "reading" /\ UNCHANGED <<pc, mem, h, j, n, entered>>
  BY DEF Left, Right
<1>2. n \in Nat /\ i \in 0 .. n /\ Len(line) = n
  BY <1>1, Line, LineIs
<1>3. i' \in {i - 1, i + 1} \cap (0 .. n)
  BY <1>2 DEF Left, Right
<1>4. line' = line /\ lines' = lines
  BY <1>1 DEF line, lines, String, safe_strlen, buf
<1> QED  BY <1>1, <1>2, <1>3, <1>4 DEF Editor!Move, line, lines

\* A copy of a line that does not fill its slot is that line.
LEMMA CopyText ==
    ASSUME Inv, pc = "reading", NoneFull, NEW k \in 0 .. h - 1
    PROVE  /\ HasEnd(Copied(k), buf)
           /\ String(Copied(k), buf) = String(mem, Slot(k))
           /\ safe_strlen(Copied(k), buf) = Len(String(mem, Slot(k)))
<1> DEFINE s == Slot(k)
           c == Copied(k)
           m == Put(mem, buf, Nul)
<1>1. /\ mem \in Mem /\ buf \in Nat /\ Termios \in Nat /\ N \in Nat \ {0} /\ buf + N <= Termios
      /\ h \in Nat
  BY Line, Buffer, Slots
<1>2. s \in Nat /\ s + N <= buf /\ \E e \in s .. s + N - 1 : Ends(mem, s, e)
  <2> DEFINE k1 == k + 1
  <2>1. k1 \in 1 .. h /\ k1 - 1 = k
    BY <1>1
  <2> HIDE DEF k1
  <2>2. Slot(k1 - 1) \in Nat /\ Slot(k1 - 1) + N <= buf
    BY <2>1, LineEnds
  <2>3. \E e \in Slot(k1 - 1) .. Slot(k1 - 1) + N - 1 : Ends(mem, Slot(k1 - 1), e)
    BY <1>1, <2>1, LineEnds
  <2> QED  BY <2>1, <2>2, <2>3
<1>3. PICK e \in s .. s + N - 1 : Ends(mem, s, e)
  BY <1>2
<1>4. m = [x \in 0 .. Termios |-> IF x = buf THEN Nul ELSE mem[x]]
  BY <1>1 DEF Put, Mem
<1>5. c = [x \in 0 .. Termios |->
             IF x \notin buf .. buf + N - 1 THEN m[x]
             ELSE IF \E y \in s .. x - buf + s : m[y] = Nul THEN Nul
             ELSE m[x - buf + s]]
  <2>1. c = strncpy(m, buf, s)
    BY <1>1 DEF Copied
  <2>2. DOMAIN m = 0 .. Termios
    BY <1>4
  <2> HIDE DEF m, s, c
  <2> QED  BY <2>1, <2>2 DEF strncpy
<1>6. c \in Mem
  BY <1>1, CopiedIs
<1> HIDE DEF m, s, c
<1>7. /\ mem[e] = Nul /\ \A y \in s .. e - 1 : mem[y] # Nul
      /\ \A y \in s .. e : y \in 0 .. Termios /\ y < buf /\ m[y] = mem[y]
  BY <1>1, <1>2, <1>3, <1>4 DEF Ends
<1> DEFINE f == buf + (e - s)
<1>8. f \in buf .. buf + N - 1 /\ f - buf + s = e /\ f - buf = e - s
  BY <1>1, <1>2, <1>3
<1> HIDE DEF f
<1>9. c[f] = Nul
  <2>1. e \in s .. f - buf + s /\ m[e] = Nul /\ f \in 0 .. Termios
    BY <1>1, <1>2, <1>3, <1>7, <1>8
  <2> QED  BY <1>5, <1>8, <2>1
<1>10. \A x \in buf .. f - 1 : x - buf + s \in s .. e - 1 /\ c[x] = mem[x - buf + s]
  <2> SUFFICES ASSUME NEW x \in buf .. f - 1
               PROVE  x - buf + s \in s .. e - 1 /\ c[x] = mem[x - buf + s]
    OBVIOUS
  <2>1. /\ x \in 0 .. Termios /\ x \in buf .. buf + N - 1 /\ x - buf + s \in s .. e - 1
        /\ \A y \in s .. x - buf + s : y \in s .. e - 1
    BY <1>1, <1>2, <1>3, <1>8
  <2>2. ~ \E y \in s .. x - buf + s : m[y] = Nul
    BY <1>2, <1>3, <1>7, <2>1
  <2>3. c[x] = m[x - buf + s]
    BY <1>5, <2>1, <2>2
  <2>4. x - buf + s \in s .. e
    BY <1>2, <1>3, <2>1
  <2> QED  BY <1>7, <2>1, <2>3, <2>4
<1>11. Ends(c, buf, f)
  BY <1>1, <1>7, <1>8, <1>9, <1>10 DEF Ends
<1>12. HasEnd(c, buf)
  BY <1>1, <1>8, <1>9 DEF HasEnd
<1> DEFINE w == String(mem, s)
<1>13. w \in Seq(Cells) /\ Len(w) = e - s /\ \A x \in 1 .. e - s : w[x] = mem[s + x - 1]
  BY <1>1, <1>3, StringIs
<1> HIDE DEF w
<1>14. \A x \in 1 .. f - buf : w[x] = c[buf + x - 1]
  <2> SUFFICES ASSUME NEW x \in 1 .. f - buf PROVE w[x] = c[buf + x - 1]
    OBVIOUS
  <2>1. buf + x - 1 \in buf .. f - 1 /\ (buf + x - 1) - buf + s = s + x - 1
    BY <1>1, <1>2, <1>8
  <2>2. c[buf + x - 1] = mem[(buf + x - 1) - buf + s]
    BY <1>10, <2>1
  <2> QED  BY <1>8, <1>13, <2>1, <2>2
<1>15. String(c, buf) = w
  <2>1. Len(w) = f - buf
    BY <1>8, <1>13
  <2> QED  BY <1>6, <1>11, <1>13, <1>14, <2>1, StringEqual, Zenon
<1>16. safe_strlen(c, buf) = Len(w)
  <2>1. safe_strlen(c, buf) = f - buf
    BY <1>11, StrLen
  <2> QED  BY <1>8, <1>13, <2>1
<1> QED  BY <1>12, <1>15, <1>16 DEF c, s, w

\* The lines, as a sequence.
LEMMA LinesAre ==
    ASSUME Inv
    PROVE  Len(lines) = h /\ DOMAIN lines = 1 .. h
<1>1. h \in Nat
  BY Slots DEF Inv, TypeOK
<1> QED  BY <1>1 DEF lines

\* An earlier line is shown, or a new one.
LEMMA Recalls ==
    ASSUME Inv, Inv', NoneFull, Up \/ Down
    PROVE  Editor!Recall
<1>1. pc = "reading" /\ j \in 0 .. h /\ h \in Nat
  BY Buffer DEF Up, Down
<1>2. PICK k \in {j - 1, j + 1} \cap (0 .. h) : Recall(k)
  BY <1>1 DEF Up, Down
<1>3. /\ mem' = Copied(k) /\ j' = k /\ UNCHANGED <<pc, h, entered>> /\ buf' = buf
      /\ n' = safe_strlen(Copied(k), buf) /\ i' = n'
  BY <1>2, Zenon DEF Recall, buf
<1>4. line' = String(Copied(k), buf)
  BY <1>1, <1>3 DEF line, String, safe_strlen
<1>5. /\ buf \in Nat /\ Termios \in Nat /\ N \in Nat /\ buf + N <= Termios /\ mem \in Mem
  BY <1>1, Line
<1>6. lines' = lines
  <2>1. \A x \in 0 .. Termios : x < buf => mem'[x] = mem[x]
    BY <1>1, <1>3, CopiedIs
  <2> QED  BY <1>1, <1>3, <2>1, LinesKept
<1>7. line' = (IF k + 1 \in DOMAIN lines THEN lines[k + 1] ELSE <<>>) /\ i' = Len(line')
  <2>1. CASE k < h
    <3>1. k \in 0 .. h - 1 /\ k + 1 \in DOMAIN lines /\ k + 1 \in 1 .. h /\ k + 1 - 1 = k
      BY <1>1, <2>1, LinesAre
    <3>2. lines[k + 1] = String(mem, Slot(k))
      BY <3>1 DEF lines
    <3>3. /\ String(Copied(k), buf) = String(mem, Slot(k))
          /\ safe_strlen(Copied(k), buf) = Len(String(mem, Slot(k)))
      BY <1>1, <3>1, CopyText
    <3> QED  BY <1>3, <1>4, <3>1, <3>2, <3>3
  <2>2. CASE k = h
    <3> DEFINE c == Copied(k)
    <3>1. c = [x \in 0 .. Termios |-> IF x = buf THEN Nul ELSE mem[x]]
      BY <1>5, <2>2 DEF Copied, Put, Mem
    <3>2. Ends(c, buf, buf) /\ c \in Mem
      BY <1>5, <3>1 DEF Ends, Mem
    <3>3. safe_strlen(c, buf) = buf - buf /\ Len(String(c, buf)) = buf - buf
          /\ String(c, buf) \in Seq(Cells)
      <4> HIDE DEF c
      <4> QED  BY <3>2, StrLen, StringIs
    <3> HIDE DEF c
    <3>4. safe_strlen(c, buf) = 0 /\ String(c, buf) = <<>>
      BY <1>5, <3>3
    <3>5. k + 1 \notin DOMAIN lines
      BY <1>1, <2>2, LinesAre
    <3> QED  BY <1>3, <1>4, <3>4, <3>5 DEF c
  <2> QED  BY <1>1, <1>2, <2>1, <2>2
<1>8. (j + 1)' \in {(j + 1) - 1, (j + 1) + 1} \cap (1 .. Len(lines) + 1)
  BY <1>1, <1>2, <1>3, LinesAre
<1>9. line' = (IF (j + 1)' \in DOMAIN lines THEN lines[(j + 1)'] ELSE <<>>)
  BY <1>3, <1>7
<1>10. i' = Len(line') /\ UNCHANGED lines
  BY <1>6, <1>7
<1> QED  BY <1>8, <1>9, <1>10 DEF Editor!Recall, line, lines

\* Without a full line no copy runs off.
LEMMA RunsOffNot == Inv /\ NoneFull => ~UpRunsOff
<1> SUFFICES ASSUME Inv, NoneFull, UpRunsOff PROVE FALSE
  OBVIOUS
<1>1. pc = "reading" /\ j > 0 /\ ~HasEnd(Copied(j - 1), buf)
  BY DEF UpRunsOff
<1>2. j - 1 \in 0 .. h - 1
  BY <1>1, Buffer
<1> QED  BY <1>1, <1>2, CopyText

\* A string without its first character.
LEMMA StringTail ==
    ASSUME NEW m \in Mem, NEW a, NEW e, Ends(m, a, e), m[a] # Nul
    PROVE  /\ Ends(m, a + 1, e)
           /\ String(m, a) # <<>>
           /\ Head(String(m, a)) = m[a]
           /\ Tail(String(m, a)) = String(m, a + 1)
           /\ String(m, a) = <<m[a]>> \o String(m, a + 1)
<1> DEFINE b == a + 1
           w == String(m, a)
           v == String(m, b)
<1>1. /\ a \in Nat /\ e \in a + 1 .. Termios /\ Termios \in Nat
      /\ m[e] = Nul /\ \A x \in a .. e - 1 : m[x] # Nul
  BY Slots DEF Ends
<1>2. Ends(m, b, e)
  BY <1>1 DEF Ends
<1>3. w \in Seq(Cells) /\ Len(w) = e - a /\ \A k \in 1 .. e - a : w[k] = m[a + k - 1]
  BY StringIs
<1> HIDE DEF b
<1>4. v \in Seq(Cells) /\ Len(v) = e - b /\ \A k \in 1 .. e - b : v[k] = m[b + k - 1]
  BY <1>2, StringIs
<1> HIDE DEF v, w, Cells
<1>5. w # <<>> /\ Head(w) = m[a]
  BY <1>1, <1>3
<1> DEFINE u == Tail(w)
<1>6. u \in Seq(Cells) /\ Len(u) = e - a - 1 /\ \A k \in 1 .. e - a - 1 : u[k] = w[k + 1]
  BY <1>1, <1>3, <1>5, HeadTailProperties
<1> HIDE DEF u
<1>7. \A k \in 1 .. e - b : u[k] = m[b + k - 1]
  <2> SUFFICES ASSUME NEW k \in 1 .. e - b PROVE u[k] = m[b + k - 1]
    OBVIOUS
  <2>1. k \in 1 .. e - a - 1 /\ k + 1 \in 1 .. e - a /\ a + (k + 1) - 1 = b + k - 1
    BY <1>1 DEF b
  <2> QED  BY <1>3, <1>6, <2>1
<1>8. v = u
  <2>1. Len(u) = e - b
    BY <1>1, <1>6 DEF b
  <2> QED  BY <1>2, <1>6, <1>7, <2>1, StringEqual DEF v
<1>9. w = <<m[a]>> \o v
  <2>1. w = <<Head(w)>> \o Tail(w)
    BY <1>3, <1>5
  <2> QED  BY <1>5, <1>8, <2>1 DEF u
<1> QED  BY <1>2, <1>5, <1>8, <1>9 DEF b, u, v, w

\* What is kept of a line that is entered, and where it ends.
LEMMA EnterKeeps ==
    ASSUME Inv, Enter
    PROVE  Editor!Trim(line) # <<>> /\ String(mem', buf) = Editor!Kept(line)
<1> DEFINE b  == buf + N
           e0 == buf + n
           m  == shell_strtrim(mem, buf)
           m1 == Put(m, b, Nul)
           s  == buf + 1
<1>1. pc = "reading" /\ m[buf] # Nul /\ mem' = Trimmed(m1, buf)
  BY EnterIs
<1>2. /\ buf \in Nat /\ n \in 0 .. N /\ N \in Nat /\ b \in buf .. Termios /\ Termios \in Nat
      /\ mem \in Mem /\ e0 \in buf .. b /\ Ends(mem, buf, e0)
  <2>1. /\ buf \in Nat /\ n \in 0 .. N /\ N \in Nat /\ buf + N <= Termios /\ Termios \in Nat
        /\ mem \in Mem
    BY <1>1, Line
  <2>2. Ends(mem, buf, e0)
    BY <1>1 DEF Inv, ReadInv
  <2> QED  BY <2>1, <2>2
<1> HIDE DEF m, e0, s, b
<1>3. m \in Mem /\ (\E x \in buf .. e0 : Ends(m, buf, x)) /\ String(m, buf) = Editor!Trim(line)
  <2>1. line = String(mem, buf)
    BY <1>1, LineIs
  <2>2. String(m, buf) = Editor!Trim(line)
    BY <1>2, <2>1, TrimmedString DEF m
  <2>3. m \in Mem /\ \E x \in buf .. e0 : Ends(m, buf, x)
    BY <1>2, TrimKeeps DEF m
  <2> QED  BY <2>2, <2>3
<1>4. PICK f \in buf .. e0 : Ends(m, buf, f)
  BY <1>3
<1>5. m1 = [x \in 0 .. Termios |-> IF x = b THEN Nul ELSE m[x]]
  BY <1>3 DEF Put, Mem
<1>6. f \in buf + 1 .. b
  BY <1>1, <1>2, <1>4 DEF Ends
<1> HIDE DEF m1
<1>7. m1 \in Mem /\ Ends(m1, buf, f) /\ m1[buf] = m[buf]
  <2>1. m1 \in Mem
    BY <1>3, <1>5 DEF Mem
  <2>2. Ends(m1, buf, f) /\ m1[buf] = m[buf]
    BY <1>2, <1>4, <1>5, <1>6 DEF Ends
  <2> QED  BY <2>1, <2>2
<1>8. String(m1, buf) = String(m, buf)
  <2> DEFINE w == String(m, buf)
  <2>1. w \in Seq(Cells) /\ Len(w) = f - buf /\ \A k \in 1 .. f - buf : w[k] = m[buf + k - 1]
    BY <1>3, <1>4, StringIs
  <2>2. \A k \in 1 .. f - buf : w[k] = m1[buf + k - 1]
    <3> HIDE DEF w
    <3>1. \A k \in 1 .. f - buf : buf + k - 1 \in 0 .. Termios /\ buf + k - 1 # b
      BY <1>2, <1>6
    <3> QED  BY <1>5, <2>1, <3>1
  <2> HIDE DEF w
  <2> QED  BY <1>7, <2>1, <2>2, StringEqual, Zenon DEF w
<1> DEFINE w == String(m1, buf)
<1>9. /\ w # <<>> /\ Head(w) = m1[buf] /\ Tail(w) = String(m1, s)
      /\ Ends(m1, s, f) /\ Editor!Trim(line) = w
  <2>1. w # <<>> /\ Head(w) = m1[buf] /\ Tail(w) = String(m1, s) /\ Ends(m1, s, f)
    BY <1>1, <1>7, StringTail DEF s
  <2> QED  BY <1>3, <1>8, <2>1
<1> HIDE DEF w
<1>10. CASE m1[buf] \notin Faces
  <2>1. mem' = m1
    BY <1>1, <1>10 DEF Trimmed
  <2>2. String(mem', buf) = w
    BY <2>1 DEF w, String, safe_strlen
  <2>3. Editor!Kept(line) = w
    BY <1>9, <1>10 DEF Editor!Kept
  <2> QED  BY <1>9, <2>2, <2>3
<1>11. CASE m1[buf] \in Faces
  <2> DEFINE t == shell_strtrim(m1, s)
  <2>1. mem' = t
    BY <1>1, <1>11 DEF Trimmed, s
  <2>2. String(t, s) = Editor!Trim(Tail(w))
    BY <1>7, <1>9, TrimmedString
  <2>3. /\ t \in Mem /\ \A x \in 0 .. Termios : x < s \/ x >= f => t[x] = m1[x]
        /\ \E g \in s .. f : Ends(t, s, g)
    BY <1>7, <1>9, TrimKeeps
  <2> HIDE DEF t
  <2>4. PICK g \in s .. f : Ends(t, s, g)
    BY <2>3
  <2>5. t[buf] = m1[buf] /\ t[buf] # Nul
    BY <1>1, <1>2, <1>7, <2>3 DEF s
  <2>6. Ends(t, buf, g)
    <3>1. \A x \in buf .. g - 1 : x = buf \/ x \in s .. g - 1
      BY <1>2, <1>6, <2>4 DEF s
    <3> QED  BY <1>2, <2>4, <2>5, <3>1 DEF Ends, s
  <2>7. String(t, buf) = <<t[buf]>> \o String(t, buf + 1)
    BY <2>3, <2>5, <2>6, StringTail
  <2>8. String(mem', buf) = <<Head(w)>> \o Editor!Trim(Tail(w))
    <3>1. String(mem', buf) = String(t, buf)
      BY <2>1 DEF String, safe_strlen
    <3> QED  BY <1>9, <2>2, <2>5, <2>7, <3>1 DEF s
  <2>9. Editor!Kept(line) = <<Head(w)>> \o Editor!Trim(Tail(w))
    BY <1>9, <1>11 DEF Editor!Kept
  <2> QED  BY <1>9, <2>8, <2>9
<1> QED  BY <1>10, <1>11

\* A new, empty line is shown after a step.
LEMMA EmptyLine ==
    ASSUME Inv', pc' = "reading" => n' = 0
    PROVE  line' = <<>>
<1>1. (Inv /\ pc = "reading" => line \in Seq(Cells) /\ Len(line) = n)'
  BY LineIs, PTL
<1>2. CASE pc' = "reading"
  <2> DEFINE l == line'
  <2>1. l \in Seq(Cells) /\ Len(l) = 0
    BY <1>1, <1>2
  <2> HIDE DEF l
  <2>2. l = <<>>
    BY <2>1
  <2> QED  BY <2>2 DEF l
<1>3. CASE pc' # "reading"
  BY <1>3 DEF line
<1> QED  BY <1>2, <1>3

\* A line of blanks is forgotten.
LEMMA BlankEntered ==
    ASSUME Inv, Inv', NoneFull, EnterBlank
    PROVE  Editor!Enter
<1> DEFINE t == shell_strtrim(mem, buf)
           e == buf + n
<1>1. /\ pc = "reading" /\ mem' = t /\ t[buf] = Nul /\ j' = h /\ i' = 0 /\ n' = 0
      /\ UNCHANGED <<pc, h, entered>>
  BY DEF EnterBlank
<1>2. buf \in Nat /\ mem \in Mem /\ Ends(mem, buf, e) /\ e \in buf .. Termios
  BY <1>1, Line DEF Inv, ReadInv, Ends
<1> HIDE DEF e, t
<1>3. /\ t \in Mem /\ \A x \in 0 .. Termios : x < buf \/ x >= e => t[x] = mem[x]
      /\ \E f \in buf .. e : Ends(t, buf, f)
  BY <1>2, TrimKeeps DEF t
<1>4. Ends(t, buf, buf)
  <2>1. PICK f \in buf .. e : Ends(t, buf, f)
    BY <1>3
  <2>2. ~(buf < f)
    BY <1>1, <1>2, <2>1 DEF Ends
  <2> QED  BY <1>2, <2>1, <2>2
<1>5. Editor!Trim(line) = <<>>
  <2>1. String(t, buf) = Editor!Trim(String(mem, buf))
    BY <1>2, TrimmedString DEF t
  <2>2. String(t, buf) \in Seq(Cells) /\ Len(String(t, buf)) = buf - buf
    BY <1>3, <1>4, StringIs
  <2>3. String(t, buf) = <<>>
    BY <1>2, <2>2
  <2> QED  BY <1>1, <2>1, <2>3, LineIs
<1>6. lines' = lines
  BY <1>1, <1>3, LinesKept
<1>7. line' = <<>>
  BY <1>1, EmptyLine
<1>8. (j + 1)' = Len(lines') + 1
  BY <1>1, <1>6, LinesAre
<1>9. lines' = IF Editor!Trim(line) = <<>> THEN lines ELSE Append(lines, Editor!Kept(line))
  BY <1>5, <1>6
<1> QED  BY <1>1, <1>7, <1>8, <1>9 DEF Editor!Enter, line, lines

\* Another is kept.
LEMMA Entered ==
    ASSUME Inv, Inv', NoneFull, Enter
    PROVE  Editor!Enter
<1>1. pc = "reading" /\ h' = h + 1 /\ j' = h + 1 /\ i' = 0 /\ n' = 0
  BY EnterIs
<1>2. h \in Nat /\ buf = Slot(h)
  BY <1>1, Buffer DEF buf
<1> DEFINE m == mem'
           new == Editor!Kept(line)
<1>3. Editor!Trim(line) # <<>> /\ String(m, buf) = new
  BY EnterKeeps
<1>4. m \in Mem
  BY DEF Inv, TypeOK, Mem
<1>5. \A x \in 0 .. Termios : x < buf => m[x] = mem[x]
  BY EnteredIs
<1>6. lines' = [k \in 1 .. h + 1 |-> String(m, Slot(k - 1))]
  BY <1>1 DEF lines, String, safe_strlen
<1> HIDE DEF m, new
<1>7. \A k \in 1 .. h : String(m, Slot(k - 1)) = String(mem, Slot(k - 1))
  BY <1>1, <1>4, <1>5, LineKept
<1>8. (h + 1) - 1 = h /\ String(m, Slot((h + 1) - 1)) = new
  BY <1>2, <1>3
<1> DEFINE f == [k \in 1 .. h + 1 |-> String(m, Slot(k - 1))]
           l == [k \in 1 .. h |-> String(mem, Slot(k - 1))]
<1>9. DOMAIN f = 1 .. h + 1 /\ f[h + 1] = new /\ \A k \in 1 .. h : f[k] = l[k]
  BY <1>2, <1>7, <1>8
<1>10. f = Append(l, new)
  <2> DEFINE S == {l[k] : k \in 1 .. h} \cup {new}
  <2>1. DOMAIN f = 1 .. h + 1 /\ DOMAIN l = 1 .. h
    OBVIOUS
  <2> HIDE DEF f
  <2>2. l \in Seq(S) /\ Len(l) = h
    <3>1. l \in [1 .. h -> S]
      BY <2>1
    <3> HIDE DEF l, S
    <3> QED  BY <1>2, <3>1
  <2> HIDE DEF l
  <2>3. new \in S
    OBVIOUS
  <2>4. f \in Seq(S) /\ Len(f) = h + 1
    <3>1. \A k \in 1 .. h + 1 : f[k] \in S
      BY <1>2, <1>9
    <3>2. f \in [1 .. h + 1 -> S]
      BY <2>1, <3>1 DEF f
    <3> HIDE DEF S
    <3> QED  BY <1>2, <3>2
  <2> HIDE DEF S
  <2>5. /\ Append(l, new) \in Seq(S) /\ Len(Append(l, new)) = h + 1
        /\ \A k \in 1 .. h + 1 : Append(l, new)[k] = f[k]
    BY <1>2, <1>9, <2>2, <2>3, AppendProperties
  <2> QED  BY <2>4, <2>5, SeqEqual
<1>11. lines' = Append(lines, new)
  BY <1>6, <1>10 DEF lines
<1>12. line' = <<>>
  BY <1>1, EmptyLine
<1>13. (j + 1)' = Len(lines') + 1
  <2>1. (Inv => Len(lines) = h)'
    BY LinesAre, PTL
  <2> QED  BY <1>1, <2>1
<1>14. lines' = IF Editor!Trim(line) = <<>> THEN lines ELSE Append(lines, Editor!Kept(line))
  BY <1>3, <1>11 DEF new
<1> QED  BY <1>1, <1>12, <1>13, <1>14 DEF Editor!Enter, line, lines

\* The editor starts with an empty line, before the terminal is configured.
LEMMA Configured ==
    ASSUME Inv, Inv', configure
    PROVE  UNCHANGED Editor!vars
<1>1. pc = "down" /\ pc' = "reading" /\ UNCHANGED <<h, j, i, n, entered>> /\ h = 0 /\ n = 0
  BY DEF configure, Inv, DownInv
<1>2. line = <<>> /\ line' = <<>>
  BY <1>1, EmptyLine DEF line
<1>3. lines' = lines
  BY <1>1 DEF lines
<1> QED  BY <1>1, <1>2, <1>3 DEF Editor!vars, line, lines
-----------------------------------------------------------------------------
LEMMA InitEditor == Init => Editor!Init
  BY DEF Init, Editor!Init

LEMMA NextEditor ==
    ASSUME Inv, Inv', NoneFull, [Next]_vars
    PROVE  [Editor!Next]_(Editor!vars)
<1>1. ASSUME NEW c \in Chars \ {Blank}, Printable(c) PROVE Editor!Next
  <2>1. Editor!Type(c)
    BY <1>1, Typed
  <2> QED  BY <2>1 DEF Editor!Next
<1>2. CASE Space
  <2>1. Blank \in Chars
    BY ShellAssumption
  <2>2. Editor!Type(Blank)
    BY <1>2, <2>1, Typed
  <2> QED  BY <2>1, <2>2 DEF Editor!Next
<1>3. CASE DeleteHere \/ Backspace
  BY <1>3, Deleted DEF Editor!Next
<1>4. CASE CutRest
  BY <1>4, Cuts DEF Editor!Next
<1>5. CASE Left \/ Right
  BY <1>5, Moves DEF Editor!Next
<1>6. CASE Up \/ Down
  BY <1>6, Recalls DEF Editor!Next
<1>7. CASE UpRunsOff
  BY <1>7, RunsOffNot
<1>8. CASE EnterBlank
  BY <1>8, BlankEntered DEF Editor!Next
<1>9. CASE Enter
  BY <1>9, Entered DEF Editor!Next
<1>10. CASE configure
  BY <1>10, Configured
<1>11. CASE UNCHANGED vars
  <2>1. UNCHANGED <<pc, mem, h, j, i, n, entered>>
    BY <1>11 DEF vars
  <2>2. line' = line /\ lines' = lines
    BY <2>1 DEF line, lines, String, safe_strlen, buf
  <2> QED  BY <2>1, <2>2 DEF Editor!vars, line, lines
<1> QED  BY <1>1, <1>2, <1>3, <1>4, <1>5, <1>6, <1>7, <1>8, <1>9, <1>10, <1>11 DEF Next

\* With no line as long as its slot, the line in memory is edited like a text with a
\* cursor, and the lines before it are kept and recalled as they were entered.
THEOREM EditorImplemented == Spec => ImplementsEditor
<1>1. Inv /\ Inv' /\ [Next]_vars =>
         [(\A k \in DOMAIN entered : ~entered[k].full) => [Editor!Next]_(Editor!vars)]_vars
  BY NextEditor DEF NoneFull
<1> QED  BY <1>1, InitEditor, InvHolds, PTL DEF Spec, ImplementsEditor
=============================================================================
