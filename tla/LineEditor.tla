----------------------------- MODULE LineEditor -----------------------------
(***************************************************************************)
(* What project-3/shell.c promises the user: a line that is edited at a    *)
(* cursor, and the lines entered before to go back to.                     *)
(***************************************************************************)
EXTENDS Integers, SequencesExt

CONSTANTS
    Chars,    \* what can be typed into a line
    Blank,    \* the one of them that separates words
    Faces,    \* those of them that name a command
    Room      \* a line is at most this long

VARIABLES line, cursor, lines, at   \* lines[at] is shown, or a new line

vars == <<line, cursor, lines, at>>

Visible(s) == {i \in DOMAIN s : s[i] # Blank}

\* s without blanks at its ends.
Trim(s) == IF Visible(s) = {} THEN <<>> ELSE SubSeq(s, Min(Visible(s)), Max(Visible(s)))

\* What is kept of a line: command and argument, without the blanks between them.
Kept(s) ==
    IF Trim(s) # <<>> /\ Head(Trim(s)) \in Faces
    THEN <<Head(Trim(s))>> \o Trim(Tail(Trim(s)))
    ELSE Trim(s)

Init == line = <<>> /\ cursor = 0 /\ lines = <<>> /\ at = 1

\* A blank may fill the last place, another character may not.
Type(c) ==
    /\ Len(line) < (IF c = Blank THEN Room ELSE Room - 1)
    /\ line' = InsertAt(line, cursor + 1, c)
    /\ cursor' = cursor + 1
    /\ UNCHANGED <<lines, at>>

Delete ==
    /\ cursor < Len(line)
    /\ line' = RemoveAt(line, cursor + 1)
    /\ UNCHANGED <<cursor, lines, at>>

Backspace ==
    /\ cursor > 0
    /\ line' = RemoveAt(line, cursor)
    /\ cursor' = cursor - 1
    /\ UNCHANGED <<lines, at>>

Cut ==
    /\ line' = SubSeq(line, 1, cursor)
    /\ UNCHANGED <<cursor, lines, at>>

Move ==
    /\ cursor' \in {cursor - 1, cursor + 1} \cap (0 .. Len(line))
    /\ UNCHANGED <<line, lines, at>>

Recall ==
    /\ at' \in {at - 1, at + 1} \cap (1 .. Len(lines) + 1)
    /\ line' = IF at' \in DOMAIN lines THEN lines[at'] ELSE <<>>
    /\ cursor' = Len(line')
    /\ UNCHANGED lines

Enter ==
    /\ lines' = IF Trim(line) = <<>> THEN lines ELSE Append(lines, Kept(line))
    /\ line' = <<>> /\ cursor' = 0 /\ at' = Len(lines') + 1

Next ==
    \/ \E c \in Chars : Type(c)
    \/ Delete \/ Backspace \/ Cut \/ Move \/ Recall \/ Enter

Spec == Init /\ [][Next]_vars
=============================================================================
