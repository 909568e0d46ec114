---------------------------- MODULE ShellProofs ----------------------------
(***************************************************************************)
(* Proofs about module Shell, for every number and size of slots and every *)
(* set of characters and commands: the bytes that the keys of              *)
(* project-3/shell.c move stay within the history until its last slot is   *)
(* edited, and a recalled line makes the same call again.                  *)
(*                                                                         *)
(* The argument.  While a line is edited, it ends at its recorded length,  *)
(* everything behind its slot is still empty, and every earlier line that  *)
(* did not fill its slot is settled: trimming its argument once more would *)
(* not change it, so its call can be read off the bytes it occupies.  All  *)
(* keys but Enter are an edit of one slot (Edited), and EditedInv carries  *)
(* the invariant over any such edit.                                       *)
(***************************************************************************)
EXTENDS Shell, WellFoundedInduction, TLAPS

\* What mem may be, and what it may hold before the settings.
Mem  == [0 .. Termios -> Chars \cup {Nul, Saved}]
Text == Chars \cup {Nul}

\* The string at a ends at e.
Ends(m, a, e) ==
    /\ a \in Nat /\ e \in a .. Termios
    /\ m[e] = Nul
    /\ \A x \in a .. e - 1 : m[x] # Nul
-----------------------------------------------------------------------------
\* A set of naturals has a least element.
LEMMA Least ==
    ASSUME NEW S \in SUBSET Nat, S # {}
    PROVE  \E x \in S : \A y \in S : x <= y
<1> DEFINE R == OpToRel(<, Nat)
<1>1. R = {p \in Nat \X Nat : p[1] < p[2]}
  BY Zenon DEF OpToRel
<1>2. IsWellFoundedOn(R, Nat)
  BY Zenon, NatLessThanWellFounded
<1>3. PICK x \in S : \A y \in S : <<y, x>> \notin R
  <2> HIDE DEF R
  <2> QED  BY <1>2, WFMin
<1>4. \A y \in S : ~(y < x)
  BY <1>1, <1>3
<1> QED  BY <1>4

\* Min and Max of a bounded set, as shell_strtrim() uses them, are in it.
LEMMA Extremes ==
    ASSUME NEW b \in Nat, NEW S \in SUBSET (0 .. b), S # {}
    PROVE  /\ Min(S) \in S /\ \A y \in S : Min(S) <= y
           /\ Max(S) \in S /\ \A y \in S : y <= Max(S)
<1>1. \E x \in S : \A y \in S : x <= y
  BY Least
<1>2. \E x \in S : \A y \in S : x >= y
  <2> DEFINE R == {b - x : x \in S}
  <2>1. R \in SUBSET Nat /\ R # {}
    <3>1. \A x \in S : b - x \in Nat
      OBVIOUS
    <3> QED  BY <3>1
  <2>2. PICK r \in R : \A y \in R : r <= y
    BY <2>1, Least
  <2>3. PICK x \in S : r = b - x
    BY <2>2
  <2>4. \A y \in S : b - x <= b - y
    BY <2>2, <2>3
  <2>5. \A y \in S : x >= y
    BY <2>4
  <2> QED  BY <2>5
<1> QED  BY <1>1, <1>2 DEF Min, Max

\* The slots lie one behind the other, and the settings behind the last.
LEMMA Slots ==
    /\ Termios \in Nat /\ N \in Nat \ {0} /\ H \in Nat \ {0} /\ Slot(H) = Termios
    /\ \A r \in 0 .. H - 1 :
          /\ Slot(r) \in Nat /\ Slot(r + 1) = Slot(r) + N /\ Slot(r + 1) <= Termios
          /\ r < H - 1 => Slot(r + 1) < Termios
    /\ \A r \in 0 .. H : \A s \in 0 .. H : r < s => Slot(r) + N <= Slot(s)
<1>1. H \in Nat \ {0} /\ N \in Nat \ {0}
  BY ShellAssumption
<1>2. Termios \in Nat /\ \A r \in Nat : Slot(r) \in Nat
  BY <1>1 DEF Termios, Slot
<1>3. \A r \in Nat : Slot(r + 1) = Slot(r) + N
  BY <1>1 DEF Slot
<1>4. ASSUME NEW r \in 0 .. H, NEW s \in 0 .. H, r < s
      PROVE  Slot(r) + N <= Slot(s)
  <2>1. (s - r - 1) * N \in Nat
    BY <1>1, <1>4
  <2>2. s * N = r * N + N + (s - r - 1) * N
    BY <1>1, <1>4
  <2> QED  BY <2>1, <2>2, <1>1, <1>2 DEF Slot
<1>5. Slot(H) = Termios
  BY DEF Slot, Termios
<1>6. ASSUME NEW r \in 0 .. H - 1
      PROVE  Slot(r + 1) <= Termios /\ (r < H - 1 => Slot(r + 1) < Termios)
  <2>1. Slot(r) + N <= Slot(H)
    BY <1>4, <1>1
  <2>2. r < H - 1 => Slot(r + 1) + N <= Slot(H)
    BY <1>4, <1>1
  <2> QED  BY <2>1, <2>2, <1>1, <1>2, <1>3, <1>5
<1> QED  BY <1>1, <1>2, <1>3, <1>4, <1>5, <1>6

\* safe_strlen() is the distance to the end of the string.
LEMMA StrLen ==
    ASSUME NEW m, NEW a, NEW e, Ends(m, a, e)
    PROVE  safe_strlen(m, a) = e - a
<1> USE Slots
<1> DEFINE P(x) == m[x] = Nul /\ \A y \in a .. x - 1 : m[y] # Nul
<1>1. e \in a .. Termios /\ P(e)
  BY DEF Ends
<1>2. \A x \in a .. Termios : P(x) => x = e
  BY <1>1 DEF Ends
<1>3. (CHOOSE x \in a .. Termios : P(x)) = e
  BY <1>1, <1>2
<1> QED  BY <1>3 DEF safe_strlen

\* A string with a NUL somewhere behind it ends at the first one.
LEMMA HasEndEnds ==
    ASSUME NEW m, NEW a \in Nat, HasEnd(m, a)
    PROVE  \E e \in a .. Termios : Ends(m, a, e)
<1> USE Slots
<1> DEFINE S == {x \in a .. Termios : m[x] = Nul}
<1>1. S \in SUBSET Nat /\ S # {}
  BY DEF HasEnd
<1>2. PICK e \in S : \A y \in S : e <= y
  BY <1>1, Least
<1>3. \A y \in a .. e - 1 : y \notin S /\ y \in a .. Termios
  BY <1>1, <1>2
<1> QED  BY <1>2, <1>3 DEF Ends

\* What shell_strtrim() does to a string: without a character that is not blank it
\* becomes empty, else what lies between the first and the last of them is moved.
TrimmedIs(m, s, e, t) ==
    \/ /\ \A x \in s .. e - 1 : m[x] = Blank
       /\ t = [x \in 0 .. Termios |-> IF x = s THEN Nul ELSE m[x]]
    \/ \E lo \in s .. e - 1 : \E hi \in lo .. e - 1 :
          /\ m[lo] # Blank /\ m[hi] # Blank
          /\ \A x \in s .. e - 1 : m[x] # Blank => x \in lo .. hi
          /\ t = [x \in 0 .. Termios |->
                     IF x = s + (hi - lo + 1) THEN Nul
                     ELSE IF x \in s .. s + (hi - lo) THEN m[x - s + lo] ELSE m[x]]

LEMMA TrimIs ==
    ASSUME NEW m \in Mem, NEW s, NEW e, Ends(m, s, e)
    PROVE  TrimmedIs(m, s, e, shell_strtrim(m, s))
<1> USE Slots
<1> DEFINE seen == {x \in s .. e - 1 : m[x] # Blank}
           lo   == Min(seen)
           hi   == Max(seen)
           len  == hi - lo + 1
           t    == shell_strtrim(m, s)
<1>1. s \in Nat /\ e \in s .. Termios
  BY DEF Ends
<1>2. s + safe_strlen(m, s) - 1 = e - 1
  BY <1>1, StrLen
<1>3. t = IF seen = {} THEN Put(m, s, Nul) ELSE Put(memmove(m, s, lo, len), s + len, Nul)
  BY <1>2 DEF shell_strtrim
<1>4. CASE seen = {}
  <2>1. t = [x \in 0 .. Termios |-> IF x = s THEN Nul ELSE m[x]]
    BY <1>3, <1>4 DEF Put, Mem
  <2> QED  BY <1>4, <2>1 DEF TrimmedIs
<1>5. CASE seen # {}
  <2>1. seen \in SUBSET (0 .. Termios)
    BY <1>1
  <2>2. /\ lo \in seen /\ \A y \in seen : lo <= y
        /\ hi \in seen /\ \A y \in seen : y <= hi
    BY <1>5, <2>1, Extremes
  <2>3. /\ lo \in s .. e - 1 /\ hi \in lo .. e - 1 /\ m[lo] # Blank /\ m[hi] # Blank
        /\ \A x \in s .. e - 1 : m[x] # Blank => x \in lo .. hi
    BY <1>1, <2>2
  <2> HIDE DEF lo, hi, seen
  <2>4. t = Put(memmove(m, s, lo, len), s + len, Nul)
    BY <1>3, <1>5
  <2>5. s + len - 1 = s + (hi - lo)
    BY <1>1, <2>3
  <2>6. memmove(m, s, lo, len) =
          [x \in 0 .. Termios |-> IF x \in s .. s + (hi - lo) THEN m[x - s + lo] ELSE m[x]]
    BY <2>5 DEF memmove, Mem
  <2>7. t = [x \in 0 .. Termios |->
                IF x = s + (hi - lo + 1) THEN Nul
                ELSE IF x \in s .. s + (hi - lo) THEN m[x - s + lo] ELSE m[x]]
    BY <2>4, <2>6 DEF Put
  <2> HIDE DEF t
  <2>8. TrimmedIs(m, s, e, t)
    BY <2>3, <2>7, Zenon DEF TrimmedIs
  <2> QED  BY <2>8 DEF t
<1> QED  BY <1>4, <1>5

\* It writes nothing outside the string, and leaves one without blanks at its ends.
LEMMA TrimKeeps ==
    ASSUME NEW m \in Mem, NEW s, NEW e, Ends(m, s, e)
    PROVE  LET t == shell_strtrim(m, s)
           IN  /\ t \in Mem
               /\ \A x \in 0 .. Termios : x < s \/ x >= e => t[x] = m[x]
               /\ \A x \in s .. e : t[x] = Nul \/ \E y \in s .. e : t[x] = m[y]
               /\ \E f \in s .. e :
                     /\ Ends(t, s, f)
                     /\ f = s \/ (t[s] # Blank /\ t[f - 1] # Blank)
<1> USE Slots
<1> DEFINE t == shell_strtrim(m, s)
<1>1. s \in Nat /\ e \in s .. Termios /\ m[e] = Nul /\ \A x \in s .. e - 1 : m[x] # Nul
  BY DEF Ends
<1>2. TrimmedIs(m, s, e, t)
  BY TrimIs
<1> HIDE DEF t
<1>3. CASE t = [x \in 0 .. Termios |-> IF x = s THEN Nul ELSE m[x]]
  <2>1. Ends(t, s, s)
    BY <1>1, <1>3 DEF Ends
  <2>2. t \in Mem
    BY <1>3 DEF Mem
  <2>3. \A x \in 0 .. Termios : x < s \/ x >= e => t[x] = m[x]
    BY <1>1, <1>3
  <2>4. \A x \in s .. e : t[x] = Nul \/ \E y \in s .. e : t[x] = m[y]
    BY <1>1, <1>3
  <2>5. s \in s .. e
    BY <1>1
  <2> QED  BY <2>1, <2>2, <2>3, <2>4, <2>5 DEF t
<1>4. ASSUME NEW lo \in s .. e - 1, NEW hi \in lo .. e - 1,
             m[lo] # Blank, m[hi] # Blank,
             t = [x \in 0 .. Termios |->
                     IF x = s + (hi - lo + 1) THEN Nul
                     ELSE IF x \in s .. s + (hi - lo) THEN m[x - s + lo] ELSE m[x]]
      PROVE  /\ t \in Mem
             /\ \A x \in 0 .. Termios : x < s \/ x >= e => t[x] = m[x]
             /\ \A x \in s .. e : t[x] = Nul \/ \E y \in s .. e : t[x] = m[y]
             /\ \E f \in s .. e :
                   /\ Ends(t, s, f)
                   /\ f = s \/ (t[s] # Blank /\ t[f - 1] # Blank)
  <2> DEFINE f == s + (hi - lo + 1)
  <2>1. f \in s + 1 .. e /\ hi \in Nat /\ lo \in Nat /\ f - 1 = s + (hi - lo)
    BY <1>1
  <2>2. t = [x \in 0 .. Termios |->
               IF x = f THEN Nul ELSE IF x \in s .. f - 1 THEN m[x - s + lo] ELSE m[x]]
    BY <1>4, <2>1
  <2>3. \A x \in s .. f - 1 : x - s + lo \in s .. e - 1
    BY <1>1, <2>1
  <2> HIDE DEF f
  <2>4. \A x \in s .. f - 1 : t[x] = m[x - s + lo]
    BY <1>1, <2>1, <2>2
  <2>5. t[f] = Nul
    BY <1>1, <2>1, <2>2
  <2>6. Ends(t, s, f)
    BY <1>1, <2>1, <2>3, <2>4, <2>5 DEF Ends
  <2>7. t[s] # Blank /\ t[f - 1] # Blank
    <3>1. s - s + lo = lo /\ (f - 1) - s + lo = hi
      BY <1>1, <2>1
    <3>2. s \in s .. f - 1 /\ f - 1 \in s .. f - 1
      BY <1>1, <2>1
    <3> QED  BY <1>4, <2>4, <3>1, <3>2
  <2>8. t \in Mem
    <3>1. \A x \in s .. f - 1 : x - s + lo \in 0 .. Termios
      BY <1>1, <2>3
    <3> QED  BY <2>2, <3>1 DEF Mem
  <2>9. \A x \in 0 .. Termios : x < s \/ x >= e => t[x] = m[x]
    BY <1>1, <2>1, <2>2
  <2>10. \A x \in s .. e : t[x] = Nul \/ \E y \in s .. e : t[x] = m[y]
    <3>1. \A x \in s .. f - 1 : x - s + lo \in s .. e
      BY <1>1, <2>3
    <3>2. \A x \in f + 1 .. e : t[x] = m[x]
      BY <1>1, <2>1, <2>2
    <3> QED  BY <1>1, <2>1, <2>4, <2>5, <3>1, <3>2
  <2>11. f \in s .. e
    BY <1>1, <2>1
  <2>12. \E x \in s .. e : Ends(t, s, x) /\ (x = s \/ (t[s] # Blank /\ t[x - 1] # Blank))
    BY <2>6, <2>7, <2>11
  <2> QED  BY <2>8, <2>9, <2>10, <2>12
<1> QED  BY <1>2, <1>3, <1>4 DEF TrimmedIs, t

\* Trimming a string that is trimmed changes nothing.
LEMMA TrimAgain ==
    ASSUME NEW m \in Mem, NEW s, NEW e, Ends(m, s, e),
           e = s \/ (m[s] # Blank /\ m[e - 1] # Blank)
    PROVE  shell_strtrim(m, s) = m
<1> USE Slots
<1> DEFINE t == shell_strtrim(m, s)
<1>1. s \in Nat /\ e \in s .. Termios /\ m[e] = Nul
  BY DEF Ends
<1>2. TrimmedIs(m, s, e, t)
  BY TrimIs
<1> HIDE DEF t
<1>3. CASE /\ \A x \in s .. e - 1 : m[x] = Blank
           /\ t = [x \in 0 .. Termios |-> IF x = s THEN Nul ELSE m[x]]
  <2>1. e = s
    BY <1>1, <1>3
  <2> QED  BY <1>1, <1>3, <2>1 DEF Mem, t
<1>4. ASSUME NEW lo \in s .. e - 1, NEW hi \in lo .. e - 1,
             \A x \in s .. e - 1 : m[x] # Blank => x \in lo .. hi,
             t = [x \in 0 .. Termios |->
                     IF x = s + (hi - lo + 1) THEN Nul
                     ELSE IF x \in s .. s + (hi - lo) THEN m[x - s + lo] ELSE m[x]]
      PROVE  t = m
  <2>1. lo = s /\ hi = e - 1
    <3>1. s \in s .. e - 1 /\ e - 1 \in s .. e - 1
      BY <1>1, <1>4
    <3>2. m[s] # Blank /\ m[e - 1] # Blank
      BY <1>1, <3>1
    <3>3. s \in lo .. hi /\ e - 1 \in lo .. hi
      BY <1>4, <3>1, <3>2
    <3> QED  BY <1>1, <1>4, <3>3
  <2>2. \A x \in 0 .. Termios : t[x] = m[x]
    BY <1>1, <1>4, <2>1
  <2> QED  BY <1>4, <2>2 DEF Mem
<1> QED  BY <1>2, <1>3, <1>4 DEF TrimmedIs, t
-----------------------------------------------------------------------------
(***************************************************************************)
(* The inductive invariant.                                                *)
(***************************************************************************)
\* While a line is edited.
ReadInv ==
    pc = "reading" =>
        /\ h < H
        /\ Len(entered) = h
        /\ Ends(mem, buf, buf + n)
        /\ \A x \in 0 .. Termios - 1 : mem[x] \in Text
        /\ \A x \in buf + N .. Termios - 1 : mem[x] = Nul

\* Before the first line: static memory is zero.
DownInv ==
    pc = "down" =>
        /\ h = 0 /\ j = 0 /\ i = 0 /\ n = 0 /\ entered = <<>>
        /\ \A x \in 0 .. Termios : mem[x] = Nul

\* A line that trimming its argument again would not change.
Settled(m, s, e) ==
    /\ Ends(m, s, e)
    /\ m[s] \in Faces /\ e > s + 1 => m[s + 1] # Blank /\ m[e - 1] # Blank

\* The call that a settled line makes.
CallOf(m, s, e) ==
    IF m[s] \in Faces /\ (Argc[m[s]] = 1 <=> e > s + 1)
    THEN [face |-> m[s], arg |-> [k \in 1 .. e - s - 1 |-> m[s + k]]]
    ELSE NoCall

\* The argument is a word without blanks at its ends.
ArgIsTrimmed(call) ==
    call # NoCall /\ Argc[call.face] = 1 =>
        call.arg # <<>> /\ Blank \notin {call.arg[1], call.arg[Len(call.arg)]}

\* The lines entered, where they lie in memory, against the calls they made.
RecallInv ==
    \A k \in DOMAIN entered :
        /\ ~entered[k].full =>
              \E e \in Slot(k - 1) .. Slot(k) - 1 :
                  /\ Settled(mem, Slot(k - 1), e)
                  /\ CallOf(mem, Slot(k - 1), e) = entered[k].call
        /\ ArgIsTrimmed(entered[k].call)

Inv == TypeOK /\ DownInv /\ ReadInv /\ SettingsAreKept /\ RecallInv
-----------------------------------------------------------------------------
\* The invariant holds when the program starts.
LEMMA InitInv == Init => Inv
<1> USE Slots
<1> SUFFICES ASSUME Init PROVE Inv
  OBVIOUS
<1>1. TypeOK
  <2>1. entered \in Seq([call : [face : Faces \cup {Nul}, arg : Seq(Chars)], full : BOOLEAN])
    BY DEF Init
  <2> QED  BY <2>1 DEF Init, TypeOK
<1>2. DownInv /\ ReadInv /\ SettingsAreKept
  BY DEF Init, DownInv, ReadInv, SettingsAreKept
<1>3. RecallInv
  BY DEF Init, RecallInv
<1> QED  BY <1>1, <1>2, <1>3 DEF Inv

\* Where the line that is edited lies, and where it ends.
LEMMA Buffer ==
    ASSUME Inv, pc = "reading"
    PROVE  /\ h \in 0 .. H - 1 /\ h \in Nat /\ j \in 0 .. h /\ n \in 0 .. N /\ i \in 0 .. n
           /\ buf \in Nat /\ Slot(h + 1) = buf + N /\ buf + N <= Termios
           /\ h < H - 1 => buf + N < Termios
           /\ mem \in Mem
           /\ buf + n <= Termios /\ mem[buf + n] = Nul
           /\ \A x \in buf .. buf + n - 1 : mem[x] # Nul
           /\ \A a \in buf .. buf + n : Ends(mem, a, buf + n) /\ safe_strlen(mem, a) = buf + n - a
<1>1. h \in 0 .. H - 1 /\ h \in Nat /\ j \in 0 .. h /\ n \in 0 .. N /\ i \in 0 .. n /\ mem \in Mem
  BY Slots DEF Inv, TypeOK, ReadInv, Mem
<1>2. /\ buf \in Nat /\ Slot(h + 1) = buf + N /\ buf + N <= Termios
      /\ h < H - 1 => buf + N < Termios
  BY <1>1, Slots DEF buf
<1>3. Ends(mem, buf, buf + n)
  BY DEF Inv, ReadInv
<1>4. /\ buf + n <= Termios /\ mem[buf + n] = Nul
      /\ \A x \in buf .. buf + n - 1 : mem[x] # Nul
  BY <1>1, <1>2, <1>3, Slots DEF Ends
<1>5. ASSUME NEW a \in buf .. buf + n
      PROVE  Ends(mem, a, buf + n)
  BY <1>1, <1>2, <1>4, Slots DEF Ends
<1>6. ASSUME NEW a \in buf .. buf + n
      PROVE  safe_strlen(mem, a) = buf + n - a
  <2>1. Ends(mem, a, buf + n)
    BY <1>5
  <2> DEFINE e == buf + n
  <2>2. Ends(mem, a, e)
    BY <2>1
  <2>3. safe_strlen(mem, a) = e - a
    <3> HIDE DEF e
    <3> QED  BY <2>2, StrLen
  <2> QED  BY <2>3, <1>1, <1>2
<1> QED  BY <1>1, <1>2, <1>4, <1>5, <1>6

\* What a key may do to memory.
Edited ==
    /\ mem' \in Mem /\ n' \in 0 .. N /\ i' \in 0 .. n'
    /\ Ends(mem', buf, buf + n')
    /\ \A x \in 0 .. Termios : x < buf \/ x > buf + N => mem'[x] = mem[x]
    /\ mem'[buf + N] \in {Nul, mem[buf + N]}
    /\ \A x \in buf .. buf + N - 1 : mem'[x] \in Text

\* A settled line depends on its own bytes only.
LEMMA SettledKept ==
    ASSUME NEW m, NEW m2, NEW s, NEW e, Settled(m, s, e),
           \A x \in s .. e : m2[x] = m[x]
    PROVE  Settled(m2, s, e) /\ CallOf(m2, s, e) = CallOf(m, s, e)
<1> USE Slots
<1>1. s \in Nat /\ e \in s .. Termios
  BY DEF Settled, Ends
<1>2. Ends(m2, s, e)
  BY <1>1 DEF Settled, Ends
<1>3. m2[s] = m[s]
  BY <1>1
<1>4. e > s + 1 => m2[s + 1] = m[s + 1] /\ m2[e - 1] = m[e - 1]
  BY <1>1
<1>5. \A k \in 1 .. e - s - 1 : m2[s + k] = m[s + k]
  BY <1>1
<1>6. [k \in 1 .. e - s - 1 |-> m2[s + k]] = [k \in 1 .. e - s - 1 |-> m[s + k]]
  BY <1>5
<1> QED  BY <1>2, <1>3, <1>4, <1>6 DEF Settled, CallOf

\* A change behind the earlier lines leaves them and their calls alone.
LEMMA OldLines ==
    ASSUME Inv, pc = "reading",
           NEW m2, \A x \in 0 .. Termios : x < buf => m2[x] = mem[x],
           NEW k \in 1 .. h, ~entered[k].full
    PROVE  \E e \in Slot(k - 1) .. Slot(k) - 1 :
               /\ Settled(m2, Slot(k - 1), e)
               /\ CallOf(m2, Slot(k - 1), e) = entered[k].call
<1>1. /\ h \in 0 .. H - 1 /\ H \in Nat /\ N \in Nat \ {0}
      /\ buf \in Nat /\ buf <= Termios /\ Termios \in Nat
  BY Slots, Buffer
<1>2. RecallInv /\ DOMAIN entered = 1 .. h
  BY DEF Inv, ReadInv, TypeOK
<1>3. PICK e \in Slot(k - 1) .. Slot(k) - 1 :
          /\ Settled(mem, Slot(k - 1), e)
          /\ CallOf(mem, Slot(k - 1), e) = entered[k].call
  BY <1>2 DEF RecallInv
<1>4. Slot(k) <= buf /\ Slot(k) \in Nat /\ Slot(k - 1) \in Nat
  <2>1. k - 1 \in 0 .. H - 1 /\ k \in 0 .. H - 1 /\ h \in 0 .. H
    BY <1>1, <1>2
  <2>2. CASE k = h
    BY <2>1, <2>2, Slots DEF buf
  <2>3. CASE k < h
    <3>1. Slot(k) + N <= Slot(h)
      BY <2>1, <2>3, <1>1, Slots
    <3> QED  BY <2>1, <3>1, <1>1, Slots DEF buf
  <2> QED  BY <1>1, <1>2, <2>2, <2>3
<1>5. \A x \in Slot(k - 1) .. e : m2[x] = mem[x]
  BY <1>1, <1>4
<1> QED  BY <1>3, <1>5, SettledKept

\* The same, for a step that enters no line.
LEMMA RecallKept ==
    ASSUME Inv, pc = "reading", UNCHANGED entered,
           \A x \in 0 .. Termios : x < buf => mem'[x] = mem[x]
    PROVE  RecallInv'
<1>1. RecallInv /\ DOMAIN entered = 1 .. h
  BY DEF Inv, ReadInv, TypeOK
<1> SUFFICES ASSUME NEW k \in 1 .. h, ~entered[k].full
             PROVE  \E e \in Slot(k - 1) .. Slot(k) - 1 :
                        /\ Settled(mem', Slot(k - 1), e)
                        /\ CallOf(mem', Slot(k - 1), e) = entered[k].call
  BY <1>1 DEF RecallInv
<1> QED  BY OldLines

\* The invariant survives every edit of the current slot.
LEMMA EditedInv ==
    ASSUME Inv, pc = "reading", Edited, UNCHANGED <<pc, h, entered>>, j' \in 0 .. h
    PROVE  Inv'
<1>1. /\ buf \in Nat /\ buf + N <= Termios /\ (h < H - 1 => buf + N < Termios)
      /\ h \in 0 .. H - 1 /\ N \in Nat \ {0} /\ H \in Nat /\ Termios \in Nat
  BY Slots, Buffer
<1>2. /\ mem' \in Mem /\ n' \in 0 .. N /\ i' \in 0 .. n'
      /\ Ends(mem', buf, buf + n')
      /\ \A x \in 0 .. Termios : x < buf \/ x > buf + N => mem'[x] = mem[x]
      /\ mem'[buf + N] = Nul \/ mem'[buf + N] = mem[buf + N]
      /\ \A x \in buf .. buf + N - 1 : mem'[x] \in Text
  BY DEF Edited
<1>3. /\ Len(entered) = h
      /\ \A x \in 0 .. Termios - 1 : mem[x] \in Text
      /\ \A x \in buf + N .. Termios - 1 : mem[x] = Nul
  BY DEF Inv, ReadInv
<1>4. TypeOK'
  BY <1>2 DEF Inv, TypeOK, Mem
<1>5. DownInv'
  BY DEF DownInv
<1>6. ReadInv'
  <2>1. Ends(mem', buf', buf' + n')
    BY <1>2 DEF buf
  <2>2. Nul \in Text
    BY DEF Text
  <2>3. \A x \in 0 .. Termios - 1 : mem'[x] \in Text
    <3> SUFFICES ASSUME NEW x \in 0 .. Termios - 1 PROVE mem'[x] \in Text
      OBVIOUS
    <3>1. CASE x = buf + N
      BY <3>1, <1>2, <1>3, <2>2
    <3>2. CASE x \in buf .. buf + N - 1
      BY <3>2, <1>2
    <3>3. CASE x < buf \/ x > buf + N
      BY <3>3, <1>1, <1>2, <1>3
    <3> QED  BY <1>1, <3>1, <3>2, <3>3
  <2>4. \A x \in buf + N .. Termios - 1 : mem'[x] = Nul
    BY <1>1, <1>2, <1>3
  <2> QED  BY <1>1, <1>3, <2>1, <2>3, <2>4 DEF ReadInv, buf
<1>7. SettingsAreKept'
  <2>1. SettingsAreKept
    BY DEF Inv
  <2>2. h < H - 1 => mem'[Termios] = mem[Termios]
    BY <1>1, <1>2
  <2> QED  BY <2>1, <2>2 DEF SettingsAreKept
<1>8. RecallInv'
  BY <1>2, RecallKept
<1> QED  BY <1>4, <1>5, <1>6, <1>7, <1>8 DEF Inv
-----------------------------------------------------------------------------
\* configure() saves the settings behind an empty history.
LEMMA configureInv == Inv /\ configure => Inv'
<1> SUFFICES ASSUME Inv, configure PROVE Inv'
  OBVIOUS
<1>1. /\ h = 0 /\ j = 0 /\ i = 0 /\ n = 0 /\ entered = <<>> /\ mem \in Mem
      /\ \A x \in 0 .. Termios : mem[x] = Nul
  BY DEF Inv, DownInv, configure, TypeOK, Mem
<1>2. Slot(0) = 0 /\ Termios \in Nat \ {0} /\ N \in Nat \ {0} /\ H \in Nat \ {0}
  <2>1. N \in Nat \ {0} /\ H \in Nat \ {0} /\ Termios \in Nat /\ Slot(H) = Termios
    BY Slots
  <2>2. Slot(0) + N <= Slot(H)
    BY <2>1, Slots
  <2>3. Slot(0) = 0
    BY <2>1 DEF Slot
  <2> QED  BY <2>1, <2>2, <2>3
<1>3. /\ pc' = "reading" /\ UNCHANGED <<h, j, i, n, entered>>
      /\ mem' = [x \in 0 .. Termios |-> IF x = Termios THEN Saved ELSE mem[x]]
  BY <1>1 DEF configure, Put, Mem
<1>4. TypeOK'
  BY <1>3 DEF Inv, TypeOK
<1>5. DownInv' /\ RecallInv'
  BY <1>1, <1>3 DEF DownInv, RecallInv
<1>6. \A x \in 0 .. Termios - 1 : mem'[x] = Nul
  BY <1>1, <1>2, <1>3
<1>7. ReadInv'
  <2>1. Ends(mem', 0, 0)
    BY <1>2, <1>6 DEF Ends
  <2>2. buf' = 0 /\ buf' + n' = 0 /\ Len(entered') = h' /\ h' < H
    BY <1>1, <1>2, <1>3 DEF buf
  <2> QED  BY <1>2, <1>6, <2>1, <2>2 DEF ReadInv, Text
<1>8. SettingsAreKept'
  BY <1>2, <1>3 DEF SettingsAreKept
<1> QED  BY <1>4, <1>5, <1>7, <1>8 DEF Inv

\* The line that is edited, in terms of cursor and length.
LEMMA Line ==
    ASSUME Inv, pc = "reading"
    PROVE  /\ buf \in Nat /\ n \in 0 .. N /\ i \in 0 .. n /\ buf + N <= Termios
           /\ N \in Nat /\ Termios \in Nat /\ mem \in Mem /\ j \in 0 .. h
           /\ mem[buf + n] = Nul /\ \A x \in buf .. buf + n - 1 : mem[x] # Nul
           /\ \A x \in 0 .. Termios - 1 : mem[x] \in Text
           /\ \A k \in 0 .. n : safe_strlen(mem, buf + k) = n - k
<1>1. ASSUME NEW k \in 0 .. n
      PROVE  safe_strlen(mem, buf + k) = n - k
  <2>1. safe_strlen(mem, buf + k) = buf + n - (buf + k)
    BY Buffer
  <2> QED  BY <2>1, Buffer
<1> QED  BY <1>1, Buffer, Slots DEF Inv, ReadInv

\* memmove() by one place to the right.
LEMMA MoveUp ==
    ASSUME NEW m \in Mem, NEW a \in Int, NEW len \in Int
    PROVE  memmove(m, a + 1, a, len) =
              [x \in 0 .. Termios |-> IF x \in a + 1 .. a + len THEN m[x - 1] ELSE m[x]]
<1>1. \A x \in 0 .. Termios : x - (a + 1) + a = x - 1
  BY Slots
<1>2. a + 1 + len - 1 = a + len
  OBVIOUS
<1> QED  BY <1>1, <1>2 DEF memmove, Mem

\* memmove() by one place to the left.
LEMMA MoveDown ==
    ASSUME NEW m \in Mem, NEW a \in Int, NEW len \in Int
    PROVE  memmove(m, a, a + 1, len) =
              [x \in 0 .. Termios |-> IF x \in a .. a + len - 1 THEN m[x + 1] ELSE m[x]]
<1>1. \A x \in 0 .. Termios : x - a + (a + 1) = x + 1
  BY Slots
<1> QED  BY <1>1 DEF memmove, Mem

\* What a character that is typed does to memory.
LEMMA PrintableIs ==
    ASSUME NEW c \in Chars, Inv, Printable(c)
    PROVE  mem' = [x \in 0 .. Termios |->
                  IF x = buf + n + 1 THEN Nul
                  ELSE IF x = buf + i THEN c
                  ELSE IF x \in buf + i + 1 .. buf + n THEN mem[x - 1] ELSE mem[x]]
<1>1. pc = "reading" /\ n + 1 < N /\ i' = i + 1 /\ n' = n + 1 /\ UNCHANGED <<pc, h, j, entered>>
  BY DEF Printable
<1>2. /\ buf \in Nat /\ n \in 0 .. N /\ i \in 0 .. n /\ buf + N <= Termios
      /\ N \in Nat /\ Termios \in Nat /\ mem \in Mem /\ j \in 0 .. h
      /\ mem[buf + n] = Nul /\ \A x \in buf .. buf + n - 1 : mem[x] # Nul
      /\ safe_strlen(mem, buf + i) = n - i
  BY <1>1, Line
<1> DEFINE m == memmove(mem, buf + i + 1, buf + i, n - i)
<1>3. m = [x \in 0 .. Termios |->
               IF x \in buf + i + 1 .. buf + n THEN mem[x - 1] ELSE mem[x]]
  <2> DEFINE a == buf + i
             len == n - i
  <2>1. a \in Int /\ len \in Int /\ a + len = buf + n
    BY <1>2
  <2>2. memmove(mem, a + 1, a, len) =
          [x \in 0 .. Termios |-> IF x \in a + 1 .. a + len THEN mem[x - 1] ELSE mem[x]]
    <3> HIDE DEF a, len
    <3> QED  BY <1>2, <2>1, MoveUp
  <2> QED  BY <2>1, <2>2
<1>4. mem' = Put(Put(m, buf + i, c), buf + n + 1, Nul)
  BY <1>2 DEF Printable
<1> HIDE DEF m
<1> QED  BY <1>3, <1>4 DEF Put

\* A character that is typed.
LEMMA PrintableInv == ASSUME NEW c \in Chars PROVE Inv /\ Printable(c) => Inv'
<1> SUFFICES ASSUME Inv, Printable(c) PROVE Inv'
  OBVIOUS
<1>1. pc = "reading" /\ n + 1 < N /\ i' = i + 1 /\ n' = n + 1 /\ UNCHANGED <<pc, h, j, entered>>
  BY DEF Printable
<1>2. /\ buf \in Nat /\ n \in 0 .. N /\ i \in 0 .. n /\ buf + N <= Termios
      /\ N \in Nat /\ Termios \in Nat /\ mem \in Mem /\ j \in 0 .. h
      /\ mem[buf + n] = Nul /\ \A x \in buf .. buf + n - 1 : mem[x] # Nul
      /\ safe_strlen(mem, buf + i) = n - i
  BY <1>1, Line
<1>3. mem' = [x \in 0 .. Termios |->
                 IF x = buf + n + 1 THEN Nul
                 ELSE IF x = buf + i THEN c
                 ELSE IF x \in buf + i + 1 .. buf + n THEN mem[x - 1] ELSE mem[x]]
  BY PrintableIs
<1>4. c # Nul /\ \A x \in 0 .. Termios - 1 : mem[x] \in Text
  BY <1>1, ShellAssumption, Line
<1>5. \A x \in buf .. buf + N - 1 : mem'[x] \in Text
  BY <1>1, <1>2, <1>3, <1>4 DEF Text
<1>6. mem' \in Mem
  BY <1>1, <1>2, <1>3 DEF Mem
<1>7. Ends(mem', buf, buf + n')
  BY <1>1, <1>2, <1>3, <1>4 DEF Ends
<1>8. /\ \A x \in 0 .. Termios : x < buf \/ x > buf + N => mem'[x] = mem[x]
      /\ mem'[buf + N] = mem[buf + N]
  BY <1>1, <1>2, <1>3
<1>9. Edited
  BY <1>1, <1>2, <1>5, <1>6, <1>7, <1>8 DEF Edited
<1> QED  BY <1>1, <1>2, <1>9, EditedInv

\* What a blank that is typed does to memory.
LEMMA SpaceIs ==
    ASSUME Inv, Space
    PROVE  mem' = [x \in 0 .. Termios |->
                  IF x = buf + i THEN Blank
                  ELSE IF x \in buf + i + 1 .. buf + n + 1 THEN mem[x - 1] ELSE mem[x]]
<1>1. pc = "reading" /\ n < N /\ i' = i + 1 /\ n' = n + 1 /\ UNCHANGED <<pc, h, j, entered>>
  BY DEF Space
<1>2. /\ buf \in Nat /\ n \in 0 .. N /\ i \in 0 .. n /\ buf + N <= Termios
      /\ N \in Nat /\ Termios \in Nat /\ mem \in Mem /\ j \in 0 .. h
      /\ mem[buf + n] = Nul /\ \A x \in buf .. buf + n - 1 : mem[x] # Nul
      /\ \A x \in 0 .. Termios - 1 : mem[x] \in Text
      /\ safe_strlen(mem, buf + i) = n - i
  BY <1>1, Line
<1> DEFINE m == memmove(mem, buf + i + 1, buf + i, n - i + 1)
<1>3. m = [x \in 0 .. Termios |->
               IF x \in buf + i + 1 .. buf + n + 1 THEN mem[x - 1] ELSE mem[x]]
  <2> DEFINE a == buf + i
             len == n - i + 1
  <2>1. a \in Int /\ len \in Int /\ a + len = buf + n + 1
    BY <1>2
  <2>2. memmove(mem, a + 1, a, len) =
          [x \in 0 .. Termios |-> IF x \in a + 1 .. a + len THEN mem[x - 1] ELSE mem[x]]
    <3> HIDE DEF a, len
    <3> QED  BY <1>2, <2>1, MoveUp
  <2> QED  BY <2>1, <2>2
<1>4. mem' = Put(m, buf + i, Blank)
  BY <1>2 DEF Space
<1> HIDE DEF m
<1> QED  BY <1>3, <1>4 DEF Put

\* A blank that is typed; it may fill the slot.
LEMMA SpaceInv == Inv /\ Space => Inv'
<1> SUFFICES ASSUME Inv, Space PROVE Inv'
  OBVIOUS
<1>1. pc = "reading" /\ n < N /\ i' = i + 1 /\ n' = n + 1 /\ UNCHANGED <<pc, h, j, entered>>
  BY DEF Space
<1>2. /\ buf \in Nat /\ n \in 0 .. N /\ i \in 0 .. n /\ buf + N <= Termios
      /\ N \in Nat /\ Termios \in Nat /\ mem \in Mem /\ j \in 0 .. h
      /\ mem[buf + n] = Nul /\ \A x \in buf .. buf + n - 1 : mem[x] # Nul
      /\ \A x \in 0 .. Termios - 1 : mem[x] \in Text
      /\ safe_strlen(mem, buf + i) = n - i
  BY <1>1, Line
<1>3. mem' = [x \in 0 .. Termios |->
                 IF x = buf + i THEN Blank
                 ELSE IF x \in buf + i + 1 .. buf + n + 1 THEN mem[x - 1] ELSE mem[x]]
  BY SpaceIs
<1>4. Blank # Nul /\ Blank \in Text /\ Blank \in Chars
  BY ShellAssumption DEF Text
<1>5. \A x \in buf .. buf + N - 1 : mem'[x] \in Text
  BY <1>1, <1>2, <1>3, <1>4
<1>6. mem' \in Mem
  BY <1>1, <1>2, <1>3, <1>4 DEF Mem
<1>7. Ends(mem', buf, buf + n')
  BY <1>1, <1>2, <1>3, <1>4 DEF Ends
<1>8. /\ \A x \in 0 .. Termios : x < buf \/ x > buf + N => mem'[x] = mem[x]
      /\ mem'[buf + N] \in {Nul, mem[buf + N]}
  <2>1. CASE n + 1 = N
    <3>1. buf + N - 1 = buf + n /\ buf + n + 1 = buf + N /\ buf + N # buf + i
      BY <1>1, <1>2, <2>1
    <3>2. buf + N \in 0 .. Termios /\ buf + N \in buf + i + 1 .. buf + n + 1
      BY <1>1, <1>2, <2>1
    <3>3. mem'[buf + N] = mem[buf + N - 1]
      BY <1>1, <1>2, <1>3, <2>1, <3>1, <3>2
    <3> QED  BY <1>1, <1>2, <1>3, <3>1, <3>3
  <2>2. CASE n + 1 < N
    BY <1>1, <1>2, <1>3, <2>2
  <2> QED  BY <1>1, <1>2, <2>1, <2>2
<1>9. Edited
  BY <1>1, <1>2, <1>5, <1>6, <1>7, <1>8 DEF Edited
<1> QED  BY <1>1, <1>2, <1>9, EditedInv

\* What ^D does to memory.
LEMMA DeleteHereIs ==
    ASSUME Inv, DeleteHere
    PROVE  mem' = [x \in 0 .. Termios |->
                  IF x \in buf + i .. buf + n - 1 THEN mem[x + 1] ELSE mem[x]]
<1>1. pc = "reading" /\ n > i /\ n' = n - 1 /\ UNCHANGED <<pc, h, j, i, entered>>
  BY DEF DeleteHere
<1>2. /\ buf \in Nat /\ n \in 0 .. N /\ i \in 0 .. n /\ buf + N <= Termios
      /\ N \in Nat /\ Termios \in Nat /\ mem \in Mem /\ j \in 0 .. h
      /\ mem[buf + n] = Nul /\ \A x \in buf .. buf + n - 1 : mem[x] # Nul
      /\ \A x \in 0 .. Termios - 1 : mem[x] \in Text
      /\ safe_strlen(mem, buf + i + 1) = n - i - 1
  <2>1. i + 1 \in 0 .. n /\ buf + (i + 1) = buf + i + 1 /\ n - (i + 1) = n - i - 1
    BY <1>1, Line
  <2>2. safe_strlen(mem, buf + (i + 1)) = n - (i + 1)
    BY <1>1, <2>1, Line
  <2> QED  BY <1>1, <2>1, <2>2, Line
<1>3. mem' = memmove(mem, buf + i, buf + i + 1, n - i - 1 + 1)
  BY <1>2 DEF DeleteHere
<1> DEFINE a == buf + i
           len == n - i - 1 + 1
<1>4. a \in Int /\ len \in Int /\ a + len - 1 = buf + n - 1
  BY <1>2
<1>5. memmove(mem, a, a + 1, len) =
        [x \in 0 .. Termios |-> IF x \in a .. a + len - 1 THEN mem[x + 1] ELSE mem[x]]
  <2> HIDE DEF a, len
  <2> QED  BY <1>2, <1>4, MoveDown
<1> QED  BY <1>3, <1>4, <1>5

\* ^D.
LEMMA DeleteHereInv == Inv /\ DeleteHere => Inv'
<1> SUFFICES ASSUME Inv, DeleteHere PROVE Inv'
  OBVIOUS
<1>1. pc = "reading" /\ n > i /\ n' = n - 1 /\ UNCHANGED <<pc, h, j, i, entered>>
  BY DEF DeleteHere
<1>2. /\ buf \in Nat /\ n \in 0 .. N /\ i \in 0 .. n /\ buf + N <= Termios
      /\ N \in Nat /\ Termios \in Nat /\ mem \in Mem /\ j \in 0 .. h
      /\ mem[buf + n] = Nul /\ \A x \in buf .. buf + n - 1 : mem[x] # Nul
      /\ \A x \in 0 .. Termios - 1 : mem[x] \in Text
      /\ safe_strlen(mem, buf + i + 1) = n - i - 1
  <2>1. i + 1 \in 0 .. n /\ buf + (i + 1) = buf + i + 1 /\ n - (i + 1) = n - i - 1
    BY <1>1, Line
  <2>2. safe_strlen(mem, buf + (i + 1)) = n - (i + 1)
    BY <1>1, <2>1, Line
  <2> QED  BY <1>1, <2>1, <2>2, Line
<1>3. mem' = [x \in 0 .. Termios |->
                 IF x \in buf + i .. buf + n - 1 THEN mem[x + 1] ELSE mem[x]]
  BY DeleteHereIs
<1>4. Nul \in Text
  BY DEF Text
<1>5. \A x \in buf .. buf + N - 1 : mem'[x] \in Text
  <2> SUFFICES ASSUME NEW x \in buf .. buf + N - 1 PROVE mem'[x] \in Text
    OBVIOUS
  <2>1. CASE x \in buf + i .. buf + n - 1
    <3>1. x + 1 = buf + n \/ x + 1 \in 0 .. Termios - 1
      BY <1>2, <2>1
    <3>2. mem'[x] = mem[x + 1]
      BY <1>2, <1>3, <2>1
    <3> QED  BY <1>2, <1>4, <3>1, <3>2
  <2>2. CASE x \notin buf + i .. buf + n - 1
    BY <1>2, <1>3, <2>2
  <2> QED  BY <2>1, <2>2
<1>6. mem' \in Mem
  BY <1>1, <1>2, <1>3 DEF Mem
<1>7. Ends(mem', buf, buf + n')
  BY <1>1, <1>2, <1>3 DEF Ends
<1>8. /\ \A x \in 0 .. Termios : x < buf \/ x > buf + N => mem'[x] = mem[x]
      /\ mem'[buf + N] \in {Nul, mem[buf + N]}
  BY <1>1, <1>2, <1>3
<1>9. Edited
  BY <1>1, <1>2, <1>5, <1>6, <1>7, <1>8 DEF Edited
<1> QED  BY <1>1, <1>2, <1>9, EditedInv

\* What Backspace does to memory.
LEMMA BackspaceIs ==
    ASSUME Inv, Backspace
    PROVE  mem' = [x \in 0 .. Termios |->
                  IF x \in buf + i - 1 .. buf + n - 1 THEN mem[x + 1] ELSE mem[x]]
<1>1. pc = "reading" /\ i > 0 /\ i' = i - 1 /\ n' = n - 1 /\ UNCHANGED <<pc, h, j, entered>>
  BY DEF Backspace
<1>2. /\ buf \in Nat /\ n \in 0 .. N /\ i \in 0 .. n /\ buf + N <= Termios
      /\ N \in Nat /\ Termios \in Nat /\ mem \in Mem /\ j \in 0 .. h
      /\ mem[buf + n] = Nul /\ \A x \in buf .. buf + n - 1 : mem[x] # Nul
      /\ \A x \in 0 .. Termios - 1 : mem[x] \in Text
      /\ safe_strlen(mem, buf + i) = n - i
  BY <1>1, Line
<1>3. mem' = memmove(mem, buf + i - 1, buf + i, n - i + 1)
  BY <1>2 DEF Backspace
<1> DEFINE a == buf + i - 1
           len == n - i + 1
<1>4. a \in Int /\ len \in Int /\ a + len - 1 = buf + n - 1 /\ a + 1 = buf + i
  BY <1>2
<1>5. memmove(mem, a, a + 1, len) =
        [x \in 0 .. Termios |-> IF x \in a .. a + len - 1 THEN mem[x + 1] ELSE mem[x]]
  <2> HIDE DEF a, len
  <2> QED  BY <1>2, <1>4, MoveDown
<1> QED  BY <1>3, <1>4, <1>5

\* Backspace.
LEMMA BackspaceInv == Inv /\ Backspace => Inv'
<1> SUFFICES ASSUME Inv, Backspace PROVE Inv'
  OBVIOUS
<1>1. pc = "reading" /\ i > 0 /\ i' = i - 1 /\ n' = n - 1 /\ UNCHANGED <<pc, h, j, entered>>
  BY DEF Backspace
<1>2. /\ buf \in Nat /\ n \in 0 .. N /\ i \in 0 .. n /\ buf + N <= Termios
      /\ N \in Nat /\ Termios \in Nat /\ mem \in Mem /\ j \in 0 .. h
      /\ mem[buf + n] = Nul /\ \A x \in buf .. buf + n - 1 : mem[x] # Nul
      /\ \A x \in 0 .. Termios - 1 : mem[x] \in Text
      /\ safe_strlen(mem, buf + i) = n - i
  BY <1>1, Line
<1>3. mem' = [x \in 0 .. Termios |->
                 IF x \in buf + i - 1 .. buf + n - 1 THEN mem[x + 1] ELSE mem[x]]
  BY BackspaceIs
<1>4. Nul \in Text
  BY DEF Text
<1>5. \A x \in buf .. buf + N - 1 : mem'[x] \in Text
  BY <1>1, <1>2, <1>3, <1>4
<1>6. mem' \in Mem
  BY <1>1, <1>2, <1>3 DEF Mem
<1>7. Ends(mem', buf, buf + n')
  BY <1>1, <1>2, <1>3 DEF Ends
<1>8. /\ \A x \in 0 .. Termios : x < buf \/ x > buf + N => mem'[x] = mem[x]
      /\ mem'[buf + N] \in {Nul, mem[buf + N]}
  BY <1>1, <1>2, <1>3
<1>9. Edited
  BY <1>1, <1>2, <1>5, <1>6, <1>7, <1>8 DEF Edited
<1> QED  BY <1>1, <1>2, <1>9, EditedInv

\* ^K.
LEMMA CutRestInv == Inv /\ CutRest => Inv'
<1> SUFFICES ASSUME Inv, CutRest PROVE Inv'
  OBVIOUS
<1>1. pc = "reading" /\ UNCHANGED <<pc, h, j, entered>>
  BY DEF CutRest
<1>2. /\ buf \in Nat /\ n \in 0 .. N /\ i \in 0 .. n /\ buf + N <= Termios
      /\ N \in Nat /\ Termios \in Nat /\ mem \in Mem /\ j \in 0 .. h
      /\ mem[buf + n] = Nul /\ \A x \in buf .. buf + n - 1 : mem[x] # Nul
      /\ \A x \in 0 .. Termios - 1 : mem[x] \in Text
  BY <1>1, Line
<1>3. mem' = [x \in 0 .. Termios |-> IF x = buf + i THEN Nul ELSE mem[x]]
  BY <1>2 DEF CutRest, Put, Mem
<1>4. Ends(mem', buf, buf + i)
  BY <1>2, <1>3 DEF Ends
<1>5. n' = i /\ i' = i
  <2>1. safe_strlen(mem', buf) = buf + i - buf
    BY <1>2, <1>4, StrLen
  <2> QED  BY <1>2, <2>1 DEF CutRest
<1>6. /\ mem' \in Mem
      /\ \A x \in buf .. buf + N - 1 : mem'[x] \in Text
      /\ \A x \in 0 .. Termios : x < buf \/ x > buf + N => mem'[x] = mem[x]
      /\ mem'[buf + N] \in {Nul, mem[buf + N]}
  BY <1>2, <1>3 DEF Mem, Text
<1>7. Edited
  BY <1>2, <1>4, <1>5, <1>6 DEF Edited
<1> QED  BY <1>1, <1>2, <1>7, EditedInv

\* The arrows to the left and right.
LEMMA MoveInv == Inv /\ (Left \/ Right) => Inv'
<1> SUFFICES ASSUME Inv, Left \/ Right PROVE Inv'
  OBVIOUS
<1>1. pc = "reading" /\ UNCHANGED <<pc, mem, h, j, n, entered>>
  BY DEF Left, Right
<1>2. /\ buf \in Nat /\ n \in 0 .. N /\ i \in 0 .. n /\ buf + N <= Termios
      /\ N \in Nat /\ Termios \in Nat /\ mem \in Mem /\ j \in 0 .. h
      /\ mem[buf + n] = Nul /\ \A x \in buf .. buf + n - 1 : mem[x] # Nul
      /\ \A x \in 0 .. Termios - 1 : mem[x] \in Text
  BY <1>1, Line
<1>3. i' \in 0 .. n
  BY <1>2 DEF Left, Right
<1>4. Ends(mem, buf, buf + n)
  BY <1>1 DEF Inv, ReadInv
<1>5. Edited
  BY <1>1, <1>2, <1>3, <1>4 DEF Edited
<1> QED  BY <1>1, <1>2, <1>5, EditedInv

\* A copy of an earlier slot writes to the current slot only.
LEMMA CopiedIs ==
    ASSUME Inv, pc = "reading", NEW k \in 0 .. h
    PROVE  /\ Copied(k) \in Mem
           /\ \A x \in 0 .. Termios : x < buf \/ x >= buf + N => Copied(k)[x] = mem[x]
           /\ \A x \in buf .. buf + N - 1 : Copied(k)[x] \in Text
<1>1. /\ buf \in Nat /\ buf + N <= Termios /\ N \in Nat \ {0} /\ Termios \in Nat
      /\ mem \in Mem /\ Nul \in Text /\ \A x \in 0 .. Termios - 1 : mem[x] \in Text
  BY Line, Slots DEF Text
<1> DEFINE m == Put(mem, buf, Nul)
<1>2. m = [x \in 0 .. Termios |-> IF x = buf THEN Nul ELSE mem[x]]
  BY <1>1 DEF Put, Mem
<1>3. CASE k = h
  <2>1. Copied(k) = m
    BY <1>3 DEF Copied
  <2> QED  BY <1>1, <1>2, <2>1 DEF Mem
<1>4. CASE k # h
  <2>1. Slot(k) \in Nat /\ Slot(k) + N <= buf
    <3>1. h \in 0 .. H /\ k \in 0 .. H /\ k \in 0 .. H - 1 /\ k < h
      <4>1. h \in 0 .. H - 1 /\ H \in Nat
        BY Buffer, Slots
      <4> QED  BY <1>4, <4>1
    <3> QED  BY <3>1, Slots DEF buf
  <2> DEFINE s == Slot(k)
  <2>2. Copied(k) = [x \in 0 .. Termios |->
             IF x \notin buf .. buf + N - 1 THEN m[x]
             ELSE IF \E y \in s .. x - buf + s : m[y] = Nul THEN Nul
             ELSE m[x - buf + s]]
    <3>1. Copied(k) = strncpy(m, buf, s)
      BY <1>4 DEF Copied
    <3>2. DOMAIN m = 0 .. Termios
      BY <1>2
    <3> HIDE DEF m, s
    <3> QED  BY <3>1, <3>2 DEF strncpy
  <2> HIDE DEF m, s
  <2>3. \A x \in buf .. buf + N - 1 : m[x - buf + s] \in Text
    <3> SUFFICES ASSUME NEW x \in buf .. buf + N - 1 PROVE m[x - buf + s] \in Text
      OBVIOUS
    <3>1. x - buf + s \in 0 .. buf - 1 /\ x - buf + s \in 0 .. Termios - 1
      BY <1>1, <2>1 DEF s
    <3>2. m[x - buf + s] = mem[x - buf + s]
      BY <1>1, <1>2, <3>1
    <3> QED  BY <1>1, <3>1, <3>2
  <2>4. \A x \in buf .. buf + N - 1 : Copied(k)[x] \in Text
    BY <1>1, <2>2, <2>3
  <2>5. \A x \in 0 .. Termios : x < buf \/ x >= buf + N => Copied(k)[x] = mem[x]
    BY <1>1, <1>2, <2>2
  <2>6. Copied(k) \in Mem
    <3>1. DOMAIN Copied(k) = 0 .. Termios /\ Copied(k) = [x \in 0 .. Termios |-> Copied(k)[x]]
      BY <2>2
    <3>2. \A x \in 0 .. Termios : Copied(k)[x] \in Chars \cup {Nul, Saved}
      BY <1>1, <2>4, <2>5 DEF Text, Mem
    <3> QED  BY <3>1, <3>2 DEF Mem
  <2> QED  BY <2>4, <2>5, <2>6
<1> QED  BY <1>3, <1>4

\* Before the last slot a copy has an end, because the memory behind is empty; and
\* an end, where there is one, is at most one place behind the slot.
LEMMA CopyEnds ==
    ASSUME Inv, pc = "reading", NEW k \in 0 .. h
    PROVE  /\ h < H - 1 => HasEnd(Copied(k), buf)
           /\ HasEnd(Copied(k), buf) =>
                 \E e \in buf .. buf + N : Ends(Copied(k), buf, e)
<1> DEFINE c == Copied(k)
<1>1. /\ buf \in Nat /\ buf + N <= Termios /\ N \in Nat \ {0} /\ Termios \in Nat
      /\ h < H - 1 => buf + N < Termios
      /\ h \in 0 .. H - 1
  BY Buffer, Slots
<1>2. buf + N < Termios => c[buf + N] = Nul
  <2>1. c[buf + N] = mem[buf + N]
    BY <1>1, CopiedIs
  <2>2. buf + N < Termios => mem[buf + N] = Nul
    BY <1>1 DEF Inv, ReadInv
  <2> QED  BY <2>1, <2>2
<1> HIDE DEF c
<1>3. h < H - 1 => HasEnd(c, buf)
  BY <1>1, <1>2 DEF HasEnd
<1>4. ASSUME HasEnd(c, buf)
      PROVE  \E e \in buf .. buf + N : Ends(c, buf, e)
  <2>1. PICK e \in buf .. Termios : Ends(c, buf, e)
    BY <1>1, <1>4, HasEndEnds
  <2>2. ~(buf + N < e)
    BY <1>1, <1>2, <2>1 DEF Ends
  <2>3. e \in buf .. buf + N
    BY <1>1, <2>2
  <2> QED  BY <2>1, <2>3
<1> QED  BY <1>3, <1>4 DEF c

\* The arrows up and down.
LEMMA UpDownInv == Inv /\ (Up \/ Down) => Inv'
<1> SUFFICES ASSUME Inv, Up \/ Down PROVE Inv'
  OBVIOUS
<1>1. pc = "reading" /\ \E k \in 0 .. h : Recall(k)
  <2>1. pc = "reading" /\ j \in 0 .. h /\ h \in Nat
    BY Buffer DEF Up, Down
  <2> QED  BY <2>1 DEF Up, Down
<1>2. PICK k \in 0 .. h : Recall(k)
  BY <1>1
<1>3. HasEnd(Copied(k), buf) /\ mem' = Copied(k) /\ j' = k /\ UNCHANGED <<pc, h, entered>>
  BY <1>2 DEF Recall
<1>4. PICK e \in buf .. buf + N : Ends(mem', buf, e)
  BY <1>1, <1>3, CopyEnds
<1>5. buf \in Nat /\ N \in Nat /\ buf + N <= Termios /\ Termios \in Nat
  BY <1>1, Line
<1>6. n' = e - buf /\ i' = n' /\ n' \in 0 .. N /\ buf + n' = e
  <2>1. safe_strlen(mem', buf) = e - buf
    BY <1>4, StrLen
  <2> QED  BY <1>2, <1>5, <2>1 DEF Recall
<1>7. /\ mem' \in Mem
      /\ \A x \in 0 .. Termios : x < buf \/ x >= buf + N => mem'[x] = mem[x]
      /\ \A x \in buf .. buf + N - 1 : mem'[x] \in Text
  BY <1>1, <1>3, CopiedIs
<1>8. /\ \A x \in 0 .. Termios : x < buf \/ x > buf + N => mem'[x] = mem[x]
      /\ mem'[buf + N] = mem[buf + N]
  BY <1>5, <1>7
<1>9. Edited
  BY <1>4, <1>6, <1>7, <1>8 DEF Edited
<1> QED  BY <1>1, <1>3, <1>9, EditedInv

\* A copy without an end needs the last slot.
LEMMA UpRunsOffInv == Inv /\ UpRunsOff => Inv'
<1> SUFFICES ASSUME Inv, UpRunsOff PROVE Inv'
  OBVIOUS
<1>1. /\ pc = "reading" /\ ~HasEnd(Copied(j - 1), buf)
      /\ pc' = "undefined" /\ mem' = Copied(j - 1) /\ j' = j - 1
      /\ UNCHANGED <<h, i, n, entered>> /\ j > 0
  BY DEF UpRunsOff
<1>2. j - 1 \in 0 .. h /\ h \in 0 .. H - 1
  BY <1>1, Buffer
<1>3. ~(h < H - 1) /\ mem' \in Mem /\ \A x \in 0 .. Termios : x < buf => mem'[x] = mem[x]
  BY <1>1, <1>2, CopyEnds, CopiedIs
<1>4. TypeOK'
  BY <1>1, <1>2, <1>3 DEF Inv, TypeOK, Mem
<1>5. DownInv' /\ ReadInv' /\ SettingsAreKept'
  BY <1>1, <1>3 DEF DownInv, ReadInv, SettingsAreKept
<1>6. RecallInv'
  BY <1>1, <1>3, RecallKept
<1> QED  BY <1>4, <1>5, <1>6 DEF Inv

\* A line of blanks is emptied.
LEMMA EnterBlankInv == Inv /\ EnterBlank => Inv'
<1> SUFFICES ASSUME Inv, EnterBlank PROVE Inv'
  OBVIOUS
<1>1. /\ pc = "reading" /\ mem' = shell_strtrim(mem, buf) /\ mem'[buf] = Nul
      /\ j' = h /\ i' = 0 /\ n' = 0 /\ UNCHANGED <<pc, h, entered>>
  BY DEF EnterBlank
<1>2. /\ buf \in Nat /\ n \in 0 .. N /\ buf + N <= Termios
      /\ N \in Nat /\ Termios \in Nat /\ mem \in Mem /\ h \in Nat
      /\ \A x \in 0 .. Termios - 1 : mem[x] \in Text
      /\ Ends(mem, buf, buf + n) /\ mem[buf + n] = Nul
  BY <1>1, Line, Buffer DEF Inv, ReadInv
<1>3. /\ mem' \in Mem
      /\ \A x \in 0 .. Termios : x < buf \/ x >= buf + n => mem'[x] = mem[x]
      /\ \A x \in buf .. buf + n : mem'[x] = Nul \/ \E y \in buf .. buf + n : mem'[x] = mem[y]
  <2> DEFINE e == buf + n
  <2> HIDE DEF e
  <2>1. Ends(mem, buf, e)
    BY <1>2 DEF e
  <2>2. /\ mem' \in Mem
        /\ \A x \in 0 .. Termios : x < buf \/ x >= e => mem'[x] = mem[x]
        /\ \A x \in buf .. e : mem'[x] = Nul \/ \E y \in buf .. e : mem'[x] = mem[y]
    <3> DEFINE t == shell_strtrim(mem, buf)
    <3>1. /\ t \in Mem
          /\ \A x \in 0 .. Termios : x < buf \/ x >= e => t[x] = mem[x]
          /\ \A x \in buf .. e : t[x] = Nul \/ \E y \in buf .. e : t[x] = mem[y]
          /\ \E f \in buf .. e :
                Ends(t, buf, f) /\ (f = buf \/ (t[buf] # Blank /\ t[f - 1] # Blank))
      BY <1>2, <2>1, TrimKeeps
    <3> QED  BY <1>1, <3>1
  <2> QED  BY <2>2 DEF e
<1>4. Ends(mem', buf, buf + n')
  BY <1>1, <1>2 DEF Ends
<1>5. \A x \in buf .. buf + N - 1 : mem'[x] \in Text
  <2>1. \A y \in buf .. buf + n : mem[y] \in Text
    BY <1>2 DEF Text
  <2>2. \A x \in buf .. buf + n : mem'[x] \in Text
    BY <1>3, <2>1 DEF Text
  <2> QED  BY <1>2, <1>3, <2>2
<1>6. /\ \A x \in 0 .. Termios : x < buf \/ x > buf + N => mem'[x] = mem[x]
      /\ mem'[buf + N] = mem[buf + N]
  BY <1>2, <1>3
<1>7. Edited
  BY <1>1, <1>2, <1>3, <1>4, <1>5, <1>6 DEF Edited
<1> QED  BY <1>1, <1>2, <1>7, EditedInv
-----------------------------------------------------------------------------
\* shell_fnc() makes the call that can be read off the line it leaves.
LEMMA FncIsCallOf ==
    ASSUME NEW m \in Mem, NEW s, NEW e,
           Trimmed(m, s) \in Mem, Trimmed(m, s)[s] = m[s], Settled(Trimmed(m, s), s, e)
    PROVE  shell_fnc(m, s) = CallOf(Trimmed(m, s), s, e)
<1> DEFINE k == Trimmed(m, s)
<1>1. s \in Nat /\ e \in s .. Termios /\ Termios \in Nat /\ k[e] = Nul
      /\ \A x \in s .. e - 1 : k[x] # Nul
  BY Slots DEF Settled, Ends
<1>2. Nul \notin Faces
  BY ShellAssumption
<1>3. CASE m[s] \notin Faces
  BY <1>3 DEF shell_fnc, CallOf
<1>4. CASE m[s] \in Faces
  <2>1. e >= s + 1
    BY <1>1, <1>2, <1>4
  <2>2. Ends(k, s + 1, e)
    BY <1>1, <2>1 DEF Ends
  <2> HIDE DEF k
  <2>3. safe_strlen(k, s + 1) = e - s - 1
    <3> DEFINE s1 == s + 1
    <3>1. Ends(k, s1, e)
      BY <2>2
    <3>2. safe_strlen(k, s1) = e - s1
      <4> HIDE DEF s1
      <4> QED  BY <3>1, StrLen
    <3> QED  BY <1>1, <3>2
  <2>4. String(k, s + 1) = [x \in 1 .. e - s - 1 |-> k[s + x]]
    <3>1. String(k, s + 1) = [x \in 1 .. e - s - 1 |-> k[s + 1 + x - 1]]
      BY <2>3 DEF String
    <3>2. \A x \in 1 .. e - s - 1 : s + 1 + x - 1 = s + x
      BY <1>1
    <3> QED  BY <3>1, <3>2
  <2> DEFINE arg == [x \in 1 .. e - s - 1 |-> k[s + x]]
  <2>5. arg # <<>> <=> e > s + 1
    <3>1. e > s + 1 => DOMAIN arg # {}
      BY <1>1
    <3>2. ~(e > s + 1) => DOMAIN arg = {}
      BY <1>1
    <3> QED  BY <3>1, <3>2
  <2> HIDE DEF arg
  <2>6. shell_fnc(m, s) = IF Argc[m[s]] = 1 <=> e > s + 1
                          THEN [face |-> m[s], arg |-> arg] ELSE NoCall
    BY <1>4, <2>4, <2>5 DEF shell_fnc, k, arg
  <2>7. CallOf(k, s, e) = IF Argc[m[s]] = 1 <=> e > s + 1
                          THEN [face |-> m[s], arg |-> arg] ELSE NoCall
    <3>1. k[s] = m[s]
      BY DEF k
    <3> QED  BY <1>4, <3>1 DEF CallOf, arg
  <2> QED  BY <2>6, <2>7 DEF k
<1> QED  BY <1>3, <1>4

\* The call of a settled line is well formed.
LEMMA CallIsTrimmed ==
    ASSUME NEW m \in Mem, NEW s, NEW e, Settled(m, s, e),
           \A x \in s .. e : m[x] \in Text
    PROVE  /\ CallOf(m, s, e) \in [face : Faces \cup {Nul}, arg : Seq(Chars)]
           /\ ArgIsTrimmed(CallOf(m, s, e))
<1> DEFINE arg == [x \in 1 .. e - s - 1 |-> m[s + x]]
<1>1. s \in Nat /\ e \in s .. Termios /\ Termios \in Nat
      /\ \A x \in s .. e - 1 : m[x] # Nul
  BY Slots DEF Settled, Ends
<1>2. NoCall \in [face : Faces \cup {Nul}, arg : Seq(Chars)] /\ ArgIsTrimmed(NoCall)
  BY DEF NoCall, ArgIsTrimmed
<1>3. ASSUME m[s] \in Faces, Argc[m[s]] = 1 <=> e > s + 1
      PROVE  /\ [face |-> m[s], arg |-> arg] \in [face : Faces \cup {Nul}, arg : Seq(Chars)]
             /\ ArgIsTrimmed([face |-> m[s], arg |-> arg])
  <2>1. \A x \in 1 .. e - s - 1 : s + x \in s .. e - 1 /\ m[s + x] \in Chars
    BY <1>1 DEF Text
  <2>2. e - s - 1 \in Nat
    <3>1. m[s] # Nul
      BY <1>3, ShellAssumption
    <3>2. e # s
      BY <3>1 DEF Settled, Ends
    <3> QED  BY <1>1, <3>2
  <2>3. arg \in Seq(Chars) /\ Len(arg) = e - s - 1
    BY <2>1, <2>2
  <2>4. e > s + 1 => arg[1] = m[s + 1] /\ arg[Len(arg)] = m[e - 1] /\ arg # <<>>
    <3> SUFFICES ASSUME e > s + 1 PROVE arg[1] = m[s + 1] /\ arg[Len(arg)] = m[e - 1] /\ arg # <<>>
      OBVIOUS
    <3>1. 1 \in 1 .. e - s - 1 /\ e - s - 1 \in 1 .. e - s - 1 /\ s + (e - s - 1) = e - 1
      BY <1>1
    <3>2. arg[1] = m[s + 1] /\ arg[e - s - 1] = m[e - 1] /\ DOMAIN arg # {}
      BY <3>1
    <3> HIDE DEF arg
    <3>3. arg # <<>>
      BY <3>2
    <3> QED  BY <2>3, <3>2, <3>3
  <2> HIDE DEF arg
  <2>5. ArgIsTrimmed([face |-> m[s], arg |-> arg])
    BY <1>3, <2>4 DEF ArgIsTrimmed, Settled
  <2> QED  BY <1>3, <2>3, <2>5
<1> QED  BY <1>2, <1>3 DEF CallOf

\* What Enter does to memory and history.
LEMMA EnterIs ==
    ASSUME Inv, Enter
    PROVE  LET m1 == Put(shell_strtrim(mem, buf), buf + N, Nul)
           IN  /\ pc = "reading" /\ h' = h + 1 /\ j' = h + 1 /\ i' = 0 /\ n' = 0
               /\ shell_strtrim(mem, buf)[buf] # Nul
               /\ mem' = Trimmed(m1, buf)
               /\ entered' = Append(entered,
                                 [call |-> shell_fnc(m1, buf),
                                  full |-> safe_strlen(Trimmed(m1, buf), buf) >= N])
<1> DEFINE b == buf + N
<1>1. pc = "reading"
  BY DEF Enter
<1>2. h \in 0 .. H - 1 /\ H \in Nat /\ Slot(h + 1) = b
  BY <1>1, Buffer, Slots
<1>3. (IF H > h + 1 THEN h + 1 ELSE H) = h + 1
  BY <1>2
<1>4. Slot(IF H > h + 1 THEN h + 1 ELSE H) = b
  BY <1>2, <1>3
<1> HIDE DEF b
<1>5. /\ shell_strtrim(mem, buf)[buf] # Nul
      /\ mem' = Trimmed(Put(shell_strtrim(mem, buf), b, Nul), buf)
      /\ entered' = Append(entered,
                        [call |-> shell_fnc(Put(shell_strtrim(mem, buf), b, Nul), buf),
                         full |-> safe_strlen(Trimmed(Put(shell_strtrim(mem, buf), b, Nul), buf),
                                              buf) >= N])
  BY <1>4, Zenon DEF Enter
<1>6. h' = h + 1 /\ j' = h + 1 /\ i' = 0 /\ n' = 0
  BY <1>3, Zenon DEF Enter
<1> QED  BY <1>1, <1>5, <1>6 DEF b

\* What Enter leaves of the line: trimmed, and its argument as well.
LEMMA EnteredIs ==
    ASSUME Inv, Enter
    PROVE  \E e \in buf + 1 .. buf + N :
             /\ mem' \in Mem
             /\ Settled(mem', buf, e)
             /\ mem'[buf + N] = Nul
             /\ \A x \in buf .. buf + N : mem'[x] \in Text
             /\ \A x \in 0 .. Termios : x < buf \/ x > buf + N => mem'[x] = mem[x]
             /\ entered' = Append(entered, [call |-> CallOf(mem', buf, e), full |-> e >= buf + N])
<1> DEFINE m    == shell_strtrim(mem, buf)
           b    == buf + N
           m1   == Put(m, b, Nul)
           kept == Trimmed(m1, buf)
<1>1. /\ pc = "reading" /\ m[buf] # Nul /\ mem' = kept
      /\ entered' = Append(entered, [call |-> shell_fnc(m1, buf),
                                     full |-> safe_strlen(kept, buf) >= N])
  BY EnterIs
<1>2. /\ buf \in Nat /\ n \in 0 .. N /\ b \in buf .. Termios
      /\ N \in Nat \ {0} /\ Termios \in Nat /\ mem \in Mem
      /\ \A x \in 0 .. Termios - 1 : mem[x] \in Text
      /\ Ends(mem, buf, buf + n) /\ mem[buf + n] = Nul /\ Nul \in Text
  <2>1. /\ buf \in Nat /\ n \in 0 .. N /\ buf + N <= Termios
        /\ N \in Nat \ {0} /\ Termios \in Nat /\ mem \in Mem
        /\ \A x \in 0 .. Termios - 1 : mem[x] \in Text
        /\ mem[buf + n] = Nul
    BY <1>1, Line, Slots
  <2>2. Ends(mem, buf, buf + n)
    BY <1>1 DEF Inv, ReadInv
  <2>3. b \in buf .. Termios
    BY <2>1
  <2> QED  BY <2>1, <2>2, <2>3 DEF Text
<1> DEFINE e0 == buf + n
<1> HIDE DEF m, kept
<1>3. /\ m \in Mem
      /\ \A x \in 0 .. Termios : x < buf \/ x >= e0 => m[x] = mem[x]
      /\ \A x \in buf .. e0 : m[x] = Nul \/ \E y \in buf .. e0 : m[x] = mem[y]
      /\ \E f \in buf .. e0 : Ends(m, buf, f) /\ (f = buf \/ (m[buf] # Blank /\ m[f - 1] # Blank))
  <2> HIDE DEF e0
  <2> QED  BY <1>2, TrimKeeps DEF m, e0
<1>4. PICK f \in buf .. e0 : Ends(m, buf, f)
  BY <1>3
<1>5. f \in buf + 1 .. b
  <2>1. f # buf
    BY <1>1, <1>4 DEF Ends
  <2> QED  BY <1>2, <1>4, <2>1
<1>6. m1 = [x \in 0 .. Termios |-> IF x = b THEN Nul ELSE m[x]]
  BY <1>3 DEF Put, Mem
<1>7. \A x \in buf .. b : m1[x] \in Text
  <2>1. \A x \in buf .. e0 : mem[x] \in Text
    BY <1>2
  <2>2. \A x \in buf .. e0 : m[x] \in Text
    BY <1>2, <1>3, <2>1
  <2>3. \A x \in e0 .. b - 1 : m[x] \in Text
    BY <1>2, <1>3
  <2>4. \A x \in buf .. b : x \in buf .. e0 \/ x \in e0 .. b - 1 \/ x = b
    BY <1>2
  <2> QED  BY <1>2, <1>6, <2>2, <2>3, <2>4
<1>8. Ends(m1, buf, f)
  <2>1. m[f] = Nul /\ \A x \in buf .. f - 1 : m[x] # Nul
    BY <1>4 DEF Ends
  <2> QED  BY <1>2, <1>5, <1>6, <2>1 DEF Ends
<1>9. m1 \in Mem /\ m1[b] = Nul
  BY <1>2, <1>3, <1>6 DEF Mem
<1>10. \A x \in 0 .. Termios : x < buf \/ x > b => m1[x] = mem[x]
  BY <1>2, <1>3, <1>6
<1> HIDE DEF m1, b, e0
<1>11. \E e \in buf + 1 .. f :
          /\ Settled(kept, buf, e) /\ kept \in Mem /\ kept[buf] = m1[buf]
          /\ \A x \in 0 .. Termios : x <= buf \/ x >= f => kept[x] = m1[x]
          /\ \A x \in buf .. f : kept[x] \in Text
  <2>1. \A x \in buf .. f : m1[x] \in Text
    BY <1>2, <1>5, <1>7
  <2>2. CASE m1[buf] \notin Faces
    <3>1. kept = m1
      BY <2>2 DEF kept, Trimmed
    <3>2. Settled(kept, buf, f)
      BY <1>8, <2>2, <3>1 DEF Settled
    <3>3. f \in buf + 1 .. f
      BY <1>2, <1>5
    <3> QED  BY <1>9, <2>1, <3>1, <3>2, <3>3
  <2>3. CASE m1[buf] \in Faces
    <3> DEFINE s == buf + 1
    <3>1. kept = shell_strtrim(m1, s)
      BY <2>3 DEF kept, Trimmed
    <3>2. Ends(m1, s, f)
      BY <1>2, <1>5, <1>8 DEF Ends
    <3>3. PICK e \in s .. f :
             Ends(kept, s, e) /\ (e = s \/ (kept[s] # Blank /\ kept[e - 1] # Blank))
      <4> HIDE DEF s
      <4> QED  BY <1>9, <3>1, <3>2, TrimKeeps
    <3>4. /\ kept \in Mem
          /\ \A x \in 0 .. Termios : x < s \/ x >= f => kept[x] = m1[x]
          /\ \A x \in s .. f : kept[x] = Nul \/ \E y \in s .. f : kept[x] = m1[y]
      <4> HIDE DEF s
      <4> QED  BY <1>9, <3>1, <3>2, TrimKeeps
    <3>5. /\ kept[buf] = m1[buf]
          /\ \A x \in 0 .. Termios : x <= buf \/ x >= f => kept[x] = m1[x]
      BY <1>2, <1>5, <3>4
    <3>6. \A x \in buf .. f : kept[x] \in Text
      <4>1. \A y \in s .. f : y \in buf .. f
        BY <1>2
      <4>2. \A x \in s .. f : kept[x] \in Text
        BY <1>2, <2>1, <3>4, <4>1
      <4>3. \A x \in buf .. f : x = buf \/ x \in s .. f
        BY <1>2
      <4>4. kept[buf] \in Text
        BY <1>2, <1>5, <2>1, <3>5
      <4> QED  BY <4>2, <4>3, <4>4
    <3>7. Ends(kept, buf, e)
      <4>1. kept[buf] # Nul
        BY <2>3, <3>5, ShellAssumption
      <4>2. kept[e] = Nul /\ e \in s .. Termios /\ \A x \in s .. e - 1 : kept[x] # Nul
        BY <3>3 DEF Ends
      <4>3. \A x \in buf .. e - 1 : x = buf \/ x \in s .. e - 1
        BY <1>2, <4>2
      <4>4. \A x \in buf .. e - 1 : kept[x] # Nul
        BY <4>1, <4>2, <4>3
      <4> QED  BY <1>2, <4>2, <4>4 DEF Ends
    <3>8. Settled(kept, buf, e)
      BY <1>2, <3>3, <3>7 DEF Settled
    <3> QED  BY <1>2, <3>3, <3>4, <3>5, <3>6, <3>8
  <2> QED  BY <2>2, <2>3
<1>12. PICK e \in buf + 1 .. f :
          /\ Settled(kept, buf, e) /\ kept \in Mem /\ kept[buf] = m1[buf]
          /\ \A x \in 0 .. Termios : x <= buf \/ x >= f => kept[x] = m1[x]
          /\ \A x \in buf .. f : kept[x] \in Text
  BY <1>11
<1>13. e \in buf + 1 .. b
  BY <1>2, <1>5, <1>12 DEF b
<1>14. kept[b] = Nul
  BY <1>2, <1>5, <1>9, <1>12
<1>15. \A x \in buf .. b : kept[x] \in Text
  <2>1. \A x \in buf .. b : x \in buf .. f \/ (x \in 0 .. Termios /\ x >= f)
    BY <1>2, <1>5
  <2> QED  BY <1>7, <1>12, <2>1
<1>16. \A x \in 0 .. Termios : x < buf \/ x > b => kept[x] = mem[x]
  BY <1>2, <1>5, <1>10, <1>12 DEF b
<1>17. shell_fnc(m1, buf) = CallOf(kept, buf, e)
  BY <1>9, <1>12, FncIsCallOf DEF kept
<1>18. (safe_strlen(kept, buf) >= N) = (e >= b)
  <2>1. safe_strlen(kept, buf) = e - buf
    BY <1>12, StrLen DEF Settled
  <2> QED  BY <1>2, <1>13, <2>1 DEF b
<1> QED  BY <1>1, <1>12, <1>13, <1>14, <1>15, <1>16, <1>17, <1>18 DEF b

\* Enter adds a settled line and starts the next slot.
LEMMA EnterInv == Inv /\ Enter => Inv'
<1> SUFFICES ASSUME Inv, Enter PROVE Inv'
  OBVIOUS
<1> DEFINE b == buf + N
<1>1. PICK e \in buf + 1 .. b :
         /\ mem' \in Mem
         /\ Settled(mem', buf, e)
         /\ mem'[b] = Nul
         /\ \A x \in buf .. b : mem'[x] \in Text
         /\ \A x \in 0 .. Termios : x < buf \/ x > b => mem'[x] = mem[x]
         /\ entered' = Append(entered, [call |-> CallOf(mem', buf, e), full |-> e >= b])
  BY EnteredIs
<1>2. pc = "reading"
  BY DEF Enter
<1>3. /\ h \in 0 .. H - 1 /\ H \in Nat \ {0} /\ buf \in Nat /\ N \in Nat \ {0} /\ Termios \in Nat
      /\ Slot(h + 1) = b /\ b <= Termios /\ (h < H - 1 => b < Termios) /\ buf = Slot(h)
  BY <1>2, Buffer, Slots DEF buf
<1>4. h' = h + 1 /\ j' = h + 1 /\ i' = 0 /\ n' = 0
      /\ pc' \in {"left", "undefined", "reading"}
      /\ (pc' = "reading" => h + 1 < H)
      /\ (pc' = "undefined" => h + 1 = H)
  <2>1. (IF H > h + 1 THEN h + 1 ELSE H) = h + 1
    BY <1>3
  <2> QED  BY <1>3, <2>1 DEF Enter
<1> DEFINE call == CallOf(mem', buf, e)
<1>5. call \in [face : Faces \cup {Nul}, arg : Seq(Chars)] /\ ArgIsTrimmed(call)
  <2>1. \A x \in buf .. e : mem'[x] \in Text
    BY <1>1, <1>3
  <2> HIDE DEF b
  <2> QED  BY <1>1, <2>1, CallIsTrimmed
<1>6. /\ entered \in Seq([call : [face : Faces \cup {Nul}, arg : Seq(Chars)], full : BOOLEAN])
      /\ Len(entered) = h
      /\ \A x \in 0 .. Termios - 1 : mem[x] \in Text
      /\ \A x \in b .. Termios - 1 : mem[x] = Nul
  BY <1>2 DEF Inv, ReadInv, TypeOK
<1> DEFINE new == [call |-> call, full |-> e >= b]
<1>7. /\ new \in [call : [face : Faces \cup {Nul}, arg : Seq(Chars)], full : BOOLEAN]
      /\ entered' = Append(entered, new)
  BY <1>1, <1>5
<1> HIDE DEF call
<1>8. /\ entered' \in Seq([call : [face : Faces \cup {Nul}, arg : Seq(Chars)], full : BOOLEAN])
      /\ Len(entered') = h + 1 /\ DOMAIN entered' = 1 .. h + 1 /\ entered'[h + 1] = new
      /\ \A k \in 1 .. h : entered'[k] = entered[k]
  <2> HIDE DEF new
  <2> QED  BY <1>3, <1>6, <1>7
<1>9. TypeOK'
  <2>1. h' \in 0 .. H /\ j' \in 0 .. h' /\ n' \in 0 .. N /\ i' \in 0 .. n'
    BY <1>3, <1>4
  <2>2. mem' \in [0 .. Termios -> Chars \cup {Nul, Saved}]
    BY <1>1 DEF Mem
  <2>3. pc' \in {"down", "reading", "left", "undefined"}
    BY <1>4
  <2> QED  BY <1>8, <2>1, <2>2, <2>3 DEF TypeOK
<1>10. DownInv'
  BY <1>4 DEF DownInv
<1>11. ReadInv'
  <2> SUFFICES ASSUME pc' = "reading"
               PROVE  /\ h' < H /\ Len(entered') = h'
                      /\ Ends(mem', buf', buf' + n')
                      /\ \A x \in 0 .. Termios - 1 : mem'[x] \in Text
                      /\ \A x \in buf' + N .. Termios - 1 : mem'[x] = Nul
    BY DEF ReadInv
  <2>1. buf' = b /\ n' = 0 /\ buf' + n' = b /\ b \in 0 .. Termios
    BY <1>3, <1>4 DEF buf
  <2>2. \A x \in 0 .. Termios - 1 : mem'[x] \in Text
    <3> SUFFICES ASSUME NEW x \in 0 .. Termios - 1 PROVE mem'[x] \in Text
      OBVIOUS
    <3> HIDE DEF b
    <3>1. CASE x \in buf .. b
      BY <1>1, <3>1
    <3>2. CASE x < buf \/ x > b
      <4>1. mem'[x] = mem[x]
        BY <1>1, <1>3, <3>2
      <4> QED  BY <1>6, <4>1
    <3> QED  BY <1>3, <2>1, <3>1, <3>2
  <2>3. \A x \in b + N .. Termios - 1 : mem'[x] = Nul
    <3> SUFFICES ASSUME NEW x \in b + N .. Termios - 1 PROVE mem'[x] = Nul
      OBVIOUS
    <3> HIDE DEF b
    <3>1. x \in 0 .. Termios /\ x > b /\ x \in b .. Termios - 1
      BY <1>3, <2>1
    <3>2. mem'[x] = mem[x]
      BY <1>1, <3>1
    <3> QED  BY <1>6, <3>1, <3>2
  <2>4. Ends(mem', b, b)
    <3> HIDE DEF b
    <3> QED  BY <1>1, <1>3, <2>1 DEF Ends
  <2> QED  BY <1>4, <1>8, <2>1, <2>2, <2>3, <2>4
<1>12. SettingsAreKept'
  <2>1. h < H - 1 => mem[Termios] = Saved
    BY <1>2 DEF Inv, SettingsAreKept
  <2>2. h < H - 1 => mem'[Termios] = mem[Termios]
    BY <1>1, <1>3
  <2> QED  BY <1>3, <1>4, <2>1, <2>2 DEF SettingsAreKept
<1>13. RecallInv'
  <2> SUFFICES ASSUME NEW k \in 1 .. h + 1
               PROVE  /\ ~entered'[k].full =>
                            \E x \in Slot(k - 1) .. Slot(k) - 1 :
                                /\ Settled(mem', Slot(k - 1), x)
                                /\ CallOf(mem', Slot(k - 1), x) = entered'[k].call
                      /\ ArgIsTrimmed(entered'[k].call)
    BY <1>8 DEF RecallInv
  <2>1. CASE k \in 1 .. h
    <3>1. ArgIsTrimmed(entered[k].call)
      <4>1. k \in DOMAIN entered
        BY <1>6, <2>1
      <4> QED  BY <4>1 DEF Inv, RecallInv
    <3>2. entered'[k] = entered[k]
      BY <1>8, <2>1
    <3>3. \A x \in 0 .. Termios : x < buf => mem'[x] = mem[x]
      BY <1>1
    <3> QED  BY <1>2, <2>1, <3>1, <3>2, <3>3, OldLines
  <2>2. CASE k = h + 1
    <3>1. k - 1 = h /\ Slot(k - 1) = buf /\ Slot(k) = b
      BY <1>3, <2>2
    <3>2. entered'[k].call = call /\ entered'[k].full = (e >= b)
      BY <1>8, <2>2
    <3>3. ~(e >= b) => e \in buf .. b - 1
      BY <1>1, <1>3
    <3> QED  BY <1>1, <1>5, <3>1, <3>2, <3>3 DEF call
  <2> QED  BY <1>3, <2>1, <2>2
<1> QED  BY <1>9, <1>10, <1>11, <1>12, <1>13 DEF Inv
-----------------------------------------------------------------------------
\* Every step keeps the invariant.
LEMMA NextInv == Inv /\ [Next]_vars => Inv'
<1> SUFFICES ASSUME Inv, [Next]_vars PROVE Inv'
  OBVIOUS
<1>1. CASE configure
  BY <1>1, configureInv
<1>2. ASSUME NEW c \in Chars \ {Blank}, Printable(c) PROVE Inv'
  BY <1>2, PrintableInv
<1>3. CASE Space
  BY <1>3, SpaceInv
<1>4. CASE DeleteHere
  BY <1>4, DeleteHereInv
<1>5. CASE Backspace
  BY <1>5, BackspaceInv
<1>6. CASE CutRest
  BY <1>6, CutRestInv
<1>7. CASE Left \/ Right
  BY <1>7, MoveInv
<1>8. CASE Up \/ Down
  BY <1>8, UpDownInv
<1>9. CASE UpRunsOff
  BY <1>9, UpRunsOffInv
<1>10. CASE EnterBlank
  BY <1>10, EnterBlankInv
<1>11. CASE Enter
  BY <1>11, EnterInv
<1>12. CASE UNCHANGED vars
  <2>1. UNCHANGED <<pc, mem, h, j, i, n, entered>>
    BY <1>12 DEF vars
  <2>2. TypeOK' /\ DownInv' /\ SettingsAreKept' /\ RecallInv'
    BY <2>1 DEF Inv, TypeOK, DownInv, SettingsAreKept, RecallInv
  <2>3. ReadInv'
    BY <2>1 DEF Inv, ReadInv, buf
  <2> QED  BY <2>2, <2>3 DEF Inv
<1> QED  BY <1>1, <1>2, <1>3, <1>4, <1>5, <1>6, <1>7, <1>8, <1>9, <1>10, <1>11, <1>12 DEF Next

\* The invariant holds in every reachable state.
THEOREM InvHolds == Spec => []Inv
<1> QED  BY InitInv, NextInv, PTL DEF Spec

\* The cursor stays in the line and the line in its slot, its end at most one place
\* behind it, for all keys of read_line().
THEOREM TypeCorrect == Spec => []TypeOK
<1>1. Inv => TypeOK
  BY DEF Inv
<1> QED  BY <1>1, InvHolds, PTL

\* Whatever is typed, the settings that restore() will use are those that
\* configure() saved, as long as the last slot is not being edited.
THEOREM SettingsKept == Spec => []SettingsAreKept
<1>1. Inv => SettingsAreKept
  BY DEF Inv
<1> QED  BY <1>1, InvHolds, PTL

\* A settled line makes the call that the invariant reads off it.
LEMMA InvRecalls == Inv => RecallIsFaithful
<1> SUFFICES ASSUME Inv, NEW k \in DOMAIN entered
             PROVE  LET call == entered[k].call
                    IN  /\ ~entered[k].full =>
                              /\ \E x \in Slot(k - 1) .. Slot(k) - 1 : mem[x] = Nul
                              /\ shell_fnc(mem, Slot(k - 1)) = call
                        /\ call # NoCall /\ Argc[call.face] = 1 =>
                              call.arg # <<>> /\ Blank \notin {call.arg[1], call.arg[Len(call.arg)]}
  BY DEF RecallIsFaithful
<1>1. ArgIsTrimmed(entered[k].call)
  BY DEF Inv, RecallInv
<1>2. ASSUME ~entered[k].full
      PROVE  /\ \E x \in Slot(k - 1) .. Slot(k) - 1 : mem[x] = Nul
             /\ shell_fnc(mem, Slot(k - 1)) = entered[k].call
  <2> DEFINE s == Slot(k - 1)
  <2>1. PICK e \in s .. Slot(k) - 1 : Settled(mem, s, e) /\ CallOf(mem, s, e) = entered[k].call
    BY <1>2 DEF Inv, RecallInv
  <2>2. mem[e] = Nul /\ s \in Nat /\ e \in s .. Termios /\ Termios \in Nat
        /\ \A x \in s .. e - 1 : mem[x] # Nul
    BY <2>1, Slots DEF Settled, Ends
  <2>3. mem \in Mem
    BY DEF Inv, TypeOK, Mem
  <2> HIDE DEF s
  <2>4. Trimmed(mem, s) = mem
    <3>1. CASE mem[s] \notin Faces
      BY <3>1 DEF Trimmed
    <3>2. CASE mem[s] \in Faces
      <4> DEFINE s1 == s + 1
      <4>1. e # s
        BY <2>2, <3>2, ShellAssumption
      <4>2. Ends(mem, s1, e)
        BY <2>2, <4>1 DEF Ends
      <4>3. e = s1 \/ (mem[s1] # Blank /\ mem[e - 1] # Blank)
        BY <2>1, <2>2, <3>2, <4>1 DEF Settled
      <4>4. shell_strtrim(mem, s1) = mem
        <5> HIDE DEF s1
        <5> QED  BY <2>3, <4>2, <4>3, TrimAgain
      <4> QED  BY <3>2, <4>4 DEF Trimmed
    <3> QED  BY <3>1, <3>2
  <2>5. shell_fnc(mem, s) = CallOf(mem, s, e)
    BY <2>1, <2>3, <2>4, FncIsCallOf
  <2> QED  BY <2>1, <2>2, <2>5 DEF s
<1> QED  BY <1>1, <1>2 DEF ArgIsTrimmed

\* A line that did not fill its slot makes the same call when it is recalled, and
\* the words handed to the tree are not empty and have no blanks at their ends.
THEOREM RecallCorrect == Spec => []RecallIsFaithful
<1> QED  BY InvRecalls, InvHolds, PTL
=============================================================================
