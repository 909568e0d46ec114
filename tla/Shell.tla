------------------------------- MODULE Shell -------------------------------
(***************************************************************************)
(* The line editor of project-3/shell.c and the commands of project-3/     *)
(* main.c.  Lines are edited in place, in the slots of an array that is    *)
(* followed in memory by the terminal settings to restore in the end.      *)
(*                                                                         *)
(* Data.  A character is a cell; the face of a command is one cell as      *)
(* well.  Of the terminal settings one cell is modelled, the first one.    *)
(***************************************************************************)
EXTENDS Integers, Sequences, FiniteSetsExt

CONSTANTS
    H,        \* history slots
    N,        \* cells per slot
    Chars,    \* what can be typed
    Blank,    \* isspace() of them
    Faces,    \* the commands among them
    Argc,     \* Argc[f]: does command f take an argument? 0 or 1
    Quit      \* the command that ends the shell

\* A cell is a character, the end of a string, or the settings as they were saved.
Nul   == "NUL"
Saved == "saved"

ASSUME ShellAssumption ==
    /\ H \in Nat \ {0} /\ N \in Nat \ {0}
    /\ Blank \in Chars \ Faces /\ Faces \subseteq Chars
    /\ Argc \in [Faces -> {0, 1}]
    /\ Quit \in Faces /\ Argc[Quit] = 0
    /\ {Nul, Saved} \cap Chars = {}

VARIABLES
    pc,       \* "down", "reading" (in read_line()), "left" (the settings are
              \* restored), "undefined" (memory behind the settings is used)
    mem,      \* state.history[0][0] ... [H - 1][N - 1] and state.termios
    h,        \* state.n, which is state.i while a line is read
    j, i, n,  \* the variables of read_line()
    entered   \* history: for each line the call it made, and whether it is as
              \* long as its slot

vars == <<pc, mem, h, j, i, n, entered>>
-----------------------------------------------------------------------------
(***************************************************************************)
(* Strings in memory.                                                      *)
(***************************************************************************)
Termios == H * N
Slot(r) == r * N

Put(m, a, c) == [x \in DOMAIN m |-> IF x = a THEN c ELSE m[x]]

memmove(m, to, from, len) ==
    [x \in DOMAIN m |-> IF x \in to .. to + len - 1 THEN m[x - to + from] ELSE m[x]]

\* Does the string at a end before the memory that is modelled does?
HasEnd(m, a) == \E x \in a .. Termios : m[x] = Nul
safe_strlen(m, a) ==
    (CHOOSE x \in a .. Termios : m[x] = Nul /\ \A y \in a .. x - 1 : m[y] # Nul) - a
String(m, a) == [k \in 1 .. safe_strlen(m, a) |-> m[a + k - 1]]

\* strncpy() of a slot: what follows the end of the string is zeroed, and a string
\* of N characters stays without an end.
strncpy(m, to, from) ==
    [x \in DOMAIN m |->
        IF x \notin to .. to + N - 1 THEN m[x]
        ELSE IF \E y \in from .. x - to + from : m[y] = Nul THEN Nul
        ELSE m[x - to + from]]

shell_strtrim(m, s) ==
    LET seen == {x \in s .. s + safe_strlen(m, s) - 1 : m[x] # Blank}
        len  == Max(seen) - Min(seen) + 1
    IN  IF seen = {} THEN Put(m, s, Nul)
        ELSE Put(memmove(m, s, Min(seen), len), s + len, Nul)

\* shell_fnc() trims the argument where it is, in the history.
Trimmed(m, s) == IF m[s] \in Faces THEN shell_strtrim(m, s + 1) ELSE m

NoCall == [face |-> Nul, arg |-> <<>>]

\* Mutant of shell_fnc: a missing argument is not noticed.
shell_fnc_NoArgc(m, s) ==
    IF m[s] \in Faces THEN [face |-> m[s], arg |-> String(Trimmed(m, s), s + 1)]
    ELSE NoCall

\* The function that shell_fnc() calls for the line at s, with its argument.
shell_fnc(m, s) ==
    LET arg == String(Trimmed(m, s), s + 1)
    IN  IF m[s] \in Faces /\ (Argc[m[s]] = 1 <=> arg # <<>>)
        THEN [face |-> m[s], arg |-> arg]
        ELSE NoCall
-----------------------------------------------------------------------------
buf == Slot(h)

Init ==
    /\ pc = "down"
    /\ mem = [x \in 0 .. Termios |-> Nul]
    /\ h = 0 /\ j = 0 /\ i = 0 /\ n = 0
    /\ entered = <<>>

configure ==
    /\ pc = "down"
    /\ pc' = "reading"
    /\ mem' = Put(mem, Termios, Saved)
    /\ UNCHANGED <<h, j, i, n, entered>>

\* Mutant of Printable: the length of the slot is not respected.
Printable_Unbounded(c) ==
    /\ pc = "reading"
    /\ mem' = Put(Put(memmove(mem, buf + i + 1, buf + i, safe_strlen(mem, buf + i)),
                      buf + i, c),
                  buf + n + 1, Nul)
    /\ i' = i + 1 /\ n' = n + 1
    /\ UNCHANGED <<pc, h, j, entered>>

Printable(c) ==
    /\ pc = "reading" /\ n + 1 < N
    /\ mem' = Put(Put(memmove(mem, buf + i + 1, buf + i, safe_strlen(mem, buf + i)),
                      buf + i, c),
                  buf + n + 1, Nul)
    /\ i' = i + 1 /\ n' = n + 1
    /\ UNCHANGED <<pc, h, j, entered>>

Space ==
    /\ pc = "reading" /\ n < N
    /\ mem' = Put(memmove(mem, buf + i + 1, buf + i, safe_strlen(mem, buf + i) + 1),
                  buf + i, Blank)
    /\ i' = i + 1 /\ n' = n + 1
    /\ UNCHANGED <<pc, h, j, entered>>

\* Mutant of DeleteHere: at the end of the line it deletes as well.
DeleteHere_AtEnd ==
    /\ pc = "reading" /\ n >= i /\ n > 0
    /\ mem' = memmove(mem, buf + i, buf + i + 1, safe_strlen(mem, buf + i + 1) + 1)
    /\ n' = n - 1
    /\ UNCHANGED <<pc, h, j, i, entered>>

\* ^D
DeleteHere ==
    /\ pc = "reading" /\ n > i
    /\ mem' = memmove(mem, buf + i, buf + i + 1, safe_strlen(mem, buf + i + 1) + 1)
    /\ n' = n - 1
    /\ UNCHANGED <<pc, h, j, i, entered>>

\* Mutant of Backspace: the length of the line is not counted down.
Backspace_NotCounted ==
    /\ pc = "reading" /\ i > 0
    /\ mem' = memmove(mem, buf + i - 1, buf + i, safe_strlen(mem, buf + i) + 1)
    /\ i' = i - 1
    /\ UNCHANGED <<pc, h, j, n, entered>>

Backspace ==
    /\ pc = "reading" /\ i > 0
    /\ mem' = memmove(mem, buf + i - 1, buf + i, safe_strlen(mem, buf + i) + 1)
    /\ i' = i - 1 /\ n' = n - 1
    /\ UNCHANGED <<pc, h, j, entered>>

\* ^K
CutRest ==
    /\ pc = "reading"
    /\ mem' = Put(mem, buf + i, Nul)
    /\ n' = safe_strlen(mem', buf) /\ i' = n'
    /\ UNCHANGED <<pc, h, j, entered>>

Right ==
    /\ pc = "reading" /\ i < n
    /\ i' = i + 1
    /\ UNCHANGED <<pc, mem, h, j, n, entered>>

Left ==
    /\ pc = "reading" /\ i > 0
    /\ i' = i - 1
    /\ UNCHANGED <<pc, mem, h, j, n, entered>>

\* Slot k is copied into the one that is edited, or that one is emptied.
Copied(k) ==
    IF k = h THEN Put(mem, buf, Nul) ELSE strncpy(Put(mem, buf, Nul), buf, Slot(k))

Recall(k) ==
    /\ HasEnd(Copied(k), buf)
    /\ mem' = Copied(k)
    /\ j' = k
    /\ n' = safe_strlen(mem', buf) /\ i' = n'
    /\ UNCHANGED <<pc, h, entered>>

Up   == pc = "reading" /\ j > 0 /\ Recall(j - 1)
Down == pc = "reading" /\ j < h /\ Recall(j + 1)

\* A copy that fills the last slot has no end.  Down never makes it: Up would have
\* made it on its way.
UpRunsOff ==
    /\ pc = "reading" /\ j > 0
    /\ ~HasEnd(Copied(j - 1), buf)
    /\ pc' = "undefined"
    /\ mem' = Copied(j - 1) /\ j' = j - 1
    /\ UNCHANGED <<h, i, n, entered>>

\* A line of blanks: read_line() returns NULL and is called again.
EnterBlank ==
    /\ pc = "reading"
    /\ mem' = shell_strtrim(mem, buf)
    /\ mem'[buf] = Nul
    /\ j' = h /\ i' = 0 /\ n' = 0
    /\ UNCHANGED <<pc, h, entered>>

\* The next slot is taken and emptied, the command is executed, and the next line
\* is read.  Slot H is behind the history, where the settings are.
Enter ==
    LET m  == shell_strtrim(mem, buf)
        h1 == IF H > h + 1 THEN h + 1 ELSE H
        m1 == Put(m, Slot(h1), Nul)
        call == shell_fnc(m1, buf)
        kept == Trimmed(m1, buf)
    IN  /\ pc = "reading"
        /\ m[buf] # Nul
        /\ mem' = kept
        /\ h' = h1 /\ j' = h1 /\ i' = 0 /\ n' = 0
        /\ entered' = Append(entered, [call |-> call, full |-> safe_strlen(kept, buf) >= N])
        /\ pc' = IF call.face = Quit THEN "left"
                 ELSE IF h1 = H THEN "undefined"
                 ELSE "reading"

Next ==
    \/ configure
    \/ \E c \in Chars \ {Blank} : Printable(c)
    \/ Space \/ DeleteHere \/ Backspace \/ CutRest
    \/ Left \/ Right \/ Up \/ Down \/ UpRunsOff
    \/ EnterBlank \/ Enter

Spec == Init /\ [][Next]_vars
-----------------------------------------------------------------------------
\* The type invariant: the cursor is in the line and the line in its slot, except
\* for its end, which may be in the next one.
TypeOK ==
    /\ pc \in {"down", "reading", "left", "undefined"}
    /\ mem \in [0 .. Termios -> Chars \cup {Nul, Saved}]
    /\ h \in 0 .. H
    /\ j \in 0 .. h
    /\ n \in 0 .. N
    /\ i \in 0 .. n
    /\ entered \in Seq([call : [face : Faces \cup {Nul}, arg : Seq(Chars)],
                        full : BOOLEAN])

\* A line that is shorter than its slot makes the same call when it is recalled,
\* although shell_fnc() has changed it, and whatever was edited in the slots behind
\* it; and a word it hands to the tree is not empty, as avl.c asserts, and has no
\* blank at its ends.
RecallIsFaithful ==
    \A k \in DOMAIN entered :
        LET call == entered[k].call
        IN  /\ ~entered[k].full =>
                  /\ \E x \in Slot(k - 1) .. Slot(k) - 1 : mem[x] = Nul
                  /\ shell_fnc(mem, Slot(k - 1)) = call
            /\ call # NoCall /\ Argc[call.face] = 1 =>
                  call.arg # <<>> /\ Blank \notin {call.arg[1], call.arg[Len(call.arg)]}

\* Whatever is typed, nothing behind the history is written, nor read, before its
\* last slot is edited: the settings to restore are those that configure() saved.
SettingsAreKept ==
    h < H - 1 /\ pc # "down" => mem[Termios] = Saved /\ pc # "undefined"

\* Moved by memmove() and counted apart from its text, the line in memory is edited
\* like a text with a cursor, and the lines before it are kept - as long as none of
\* them is as long as its slot.
Editor == INSTANCE LineEditor WITH
              Room   <- N,
              line   <- IF pc = "reading" THEN String(mem, buf) ELSE <<>>,
              cursor <- i,
              lines  <- [k \in 1 .. h |-> String(mem, Slot(k - 1))],
              at     <- j + 1

ImplementsEditor ==
    /\ Editor!Init
    /\ [][ (\A k \in DOMAIN entered : ~entered[k].full)
             => [Editor!Next]_(Editor!vars) ]_vars
=============================================================================
