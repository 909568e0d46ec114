------------------------------ MODULE MCShell ------------------------------
\* The instance of Shell that TLC checks: a command with an argument, one without,
\* and a character that is neither.
EXTENDS Shell

MCFaces == {"insert", "quit"}
MCChars == MCFaces \cup {"w", " "}
MCArgc  == [f \in MCFaces |-> IF f = "insert" THEN 1 ELSE 0]
=============================================================================
