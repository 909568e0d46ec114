----------------------------- MODULE MCCompiler -----------------------------
\* The instance of Compiler that TLC checks: every argument of up to five lexemes,
\* and longer ones with three operators, plain and with parentheses.
EXTENDS Compiler

Binary == {"+", "-", "*", "/"}

Short == UNION {[1 .. n -> Lexemes] : n \in 0 .. 5}
Plain == {<<"num", o, "num", p, "num", q, "num">> : o, p, q \in Binary}
Left  == {<<"(", "num", o, "num", ")", p, "num", q, "num">> : o, p, q \in Binary}
Right == {<<"num", o, "-", "(", "num", p, "num", q, "num", ")">> : o, p, q \in Binary}

MCArguments == Short \cup Plain \cup Left \cup Right
MCOldCode   == <<[op |-> "val", val |-> <<"num", 99>>]>>
=============================================================================
