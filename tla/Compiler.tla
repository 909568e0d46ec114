------------------------------ MODULE Compiler ------------------------------
(***************************************************************************)
(* The expression compiler of project-1: lexer.c and parser.c turn the     *)
(* argument into a tree, main.c writes the tree as a C function to out.c,  *)
(* jitc.c has gcc make out.so of it and loads that, and main.c prints what *)
(* the loaded function computes.                                           *)
(*                                                                         *)
(* Data.  The argument is the sequence of its lexemes without the blanks.  *)
(* A number is its place in the argument and its kind: "num" has at most   *)
(* six decimals, "tiny" has more, "inf" is none that C can write (inf,     *)
(* nan, 1e999).  Values are kept symbolic, as trees, so that two           *)
(* computations agree only if they are the same computation; the quotient  *)
(* is the one of the generated code, which is 0 if the divisor is.  The    *)
(* sigmoid the value is passed through is left out.                        *)
(***************************************************************************)
EXTENDS Integers, Sequences, FiniteSets, FiniteSetsExt

CONSTANTS
    Arguments,  \* the arguments the program is called with
    OldCode     \* the function in an out.so that an earlier call left

Numbers   == {"num", "tiny", "inf"}
Operators == {"+", "-", "*", "/", "(", ")"}
Lexemes   == Numbers \cup Operators \cup {"junk"}

ASSUME CompilerAssumption == Arguments \subseteq Seq(Lexemes)

VARIABLES
    pc,        \* what main() does next, or how it ended
    argument,  \* argv[1]
    dag,       \* parser->dag
    cfile,     \* out.c: the instructions of evaluate(), or NoFile
    sofile,    \* out.so, in the same form
    handle,    \* the module that is loaded, or NoFile
    result,    \* what jitc_compile() returned
    printed,   \* the value printed, or Null
    stale,     \* history: there was an out.so when the program was called
    compiled   \* history: gcc has succeeded

files == <<cfile, sofile>>
vars  == <<pc, argument, dag, files, handle, result, printed, stale, compiled>>
-----------------------------------------------------------------------------
(***************************************************************************)
(* lexer.c.  tokenize() fails at what strtod() cannot read.                *)
(***************************************************************************)
Readable(s) == \A i \in DOMAIN s : s[i] # "junk"

tokenize(s) ==
    [i \in DOMAIN s |-> IF s[i] \in Numbers THEN [op |-> "val", val |-> <<s[i], i>>]
                                             ELSE [op |-> s[i]]]
-----------------------------------------------------------------------------
(***************************************************************************)
(* parser.c.  A function of the parser returns the tree it has built, Null *)
(* for NULL, and the token it has come to; `wild' says whether a message   *)
(* was made with an entry that TBL[] does not have.                        *)
(***************************************************************************)
Null == [op |-> "null"]

Val(v)       == [op |-> "val", val |-> v]
Neg(t)       == [op |-> "neg", right |-> t]
Bin(o, l, r) == [op |-> o, left |-> l, right |-> r]

Parsed(t, i) == [dag |-> t, i |-> i, wild |-> FALSE]

\* The token at i is one of ops.
match(ts, i, ops) == i <= Len(ts) /\ ts[i].op \in ops

\* The functions below take the calls they make from `run', which parse() ties:
\* run[<<f, i>>] is what the function f returns if it is called at token i.
expr_primary(run, ts, i) ==
    IF match(ts, i, {"val"}) THEN Parsed(Val(ts[i].val), i + 1)
    ELSE IF match(ts, i, {"("})
    THEN LET e == run[<<"expr", i + 1>>]
         IN  IF e.dag # Null /\ match(ts, e.i, {")"}) THEN [e EXCEPT !.i = @ + 1]
             ELSE [e EXCEPT !.dag = Null]
    ELSE Parsed(Null, i)

expr_unary(run, ts, i) ==
    IF match(ts, i, {"+"}) THEN run[<<"expr_unary", i + 1>>]
    ELSE IF match(ts, i, {"-"})
    THEN LET e == run[<<"expr_unary", i + 1>>]
         IN  IF e.dag = Null THEN e ELSE [e EXCEPT !.dag = Neg(@)]
    ELSE expr_primary(run, ts, i)

\* Mutant of expr_multiplicative_: the operators group to the right.
expr_multiplicative_Right(run, ts, e) ==
    IF e.dag # Null /\ match(ts, e.i, {"*", "/"})
    THEN LET r == run[<<"expr_multiplicative", e.i + 1>>]
         IN  IF r.dag = Null THEN r ELSE [r EXCEPT !.dag = Bin(ts[e.i].op, e.dag, @)]
    ELSE e

\* One turn of the loop, from the tree e.dag and the token e.i.  The recursive
\* call in the code takes the turns that are left, so that the loop around it ends.
expr_multiplicative_(run, ts, e) ==
    IF e.dag # Null /\ match(ts, e.i, {"*", "/"})
    THEN LET r == run[<<"expr_unary", e.i + 1>>]
         IN  IF r.dag = Null THEN r ELSE [r EXCEPT !.dag = Bin(ts[e.i].op, e.dag, @)]
    ELSE e

\* Further turns than there are tokens change nothing.
expr_multiplicative(run, ts, i) ==
    LET turn[n \in Nat] == IF n = 0 THEN run[<<"expr_unary", i>>]
                           ELSE expr_multiplicative_(run, ts, turn[n - 1])
    IN  turn[Len(ts)]

\* TBL[dag->op - PARSER_DAG_MUL] is past the end of TBL for both operators.
expr_additive_(run, ts, e) ==
    IF e.dag # Null /\ match(ts, e.i, {"+", "-"})
    THEN LET r == run[<<"expr_multiplicative", e.i + 1>>]
         IN  IF r.dag = Null THEN [dag |-> Null, i |-> r.i, wild |-> TRUE]
             ELSE [r EXCEPT !.dag = Bin(ts[e.i].op, e.dag, @)]
    ELSE e

expr(run, ts, i) ==
    LET turn[n \in Nat] == IF n = 0 THEN run[<<"expr_multiplicative", i>>]
                           ELSE expr_additive_(run, ts, turn[n - 1])
    IN  turn[Len(ts)]

Calls(ts) == {"expr_unary", "expr_multiplicative", "expr"} \X (1 .. Len(ts) + 1)

call(run, ts, c) ==
    IF c[1] = "expr_unary" THEN expr_unary(run, ts, c[2])
    ELSE IF c[1] = "expr_multiplicative" THEN expr_multiplicative(run, ts, c[2])
    ELSE expr(run, ts, c[2])

parse(ts) == LET run[c \in Calls(ts)] == call(run, ts, c) IN run

\* top(): nothing may follow the expression.
top(ts) ==
    LET e == parse(ts)[<<"expr", 1>>]
    IN  IF e.i <= Len(ts) THEN [e EXCEPT !.dag = Null] ELSE e
-----------------------------------------------------------------------------
(***************************************************************************)
(* The code of evaluate(): instruction n declares the variable t(n - 1).   *)
(***************************************************************************)
\* "%f" keeps six decimals, and writes a word for what is not a number.
Printed(v) == IF v[1] = "tiny" THEN <<"rounded", v[2]>>
              ELSE IF v[1] = "inf" THEN <<"word", v[2]>>
              ELSE v

\* The trees with these values that have at most h operators on a path.
Dags(values, h) ==
    LET d[n \in Nat] ==
          IF n = 0 THEN {Val(v) : v \in values}
          ELSE LET t == d[n - 1]
               IN  t \cup [op : {"neg"}, right : t]
                     \cup [op : {"+", "-", "*", "/"}, left : t, right : t]
    IN  d[h]

\* The numbers of an argument.
Values(s) == {<<s[i], i>> : i \in {j \in DOMAIN s : s[j] \in Numbers}}

\* Mutant of genFuncBodyFromDag: varId is returned instead of varId - 1.
genFuncBodyFromDag_Next(gen, t, varId) ==
    IF t.op = "val" THEN <<[op |-> "val", val |-> Printed(t.val)]>>
    ELSE IF t.op = "neg"
    THEN LET r == gen[<<t.right, varId>>]
         IN  Append(r, [op |-> "neg", right |-> varId + Len(r) + 1])
    ELSE LET l == gen[<<t.left, varId>>]
             r == gen[<<t.right, varId + Len(l)>>]
         IN  Append(l \o r, [op |-> t.op, left |-> varId + Len(l) + 1,
                             right |-> varId + Len(l) + Len(r) + 1])

\* Mutant of genFuncBodyFromDag: the variable of the left operand is taken for
\* the one before that of the right.
genFuncBodyFromDag_Previous(gen, t, varId) ==
    IF t.op = "val" THEN <<[op |-> "val", val |-> Printed(t.val)]>>
    ELSE IF t.op = "neg"
    THEN LET r == gen[<<t.right, varId>>]
         IN  Append(r, [op |-> "neg", right |-> varId + Len(r)])
    ELSE LET l == gen[<<t.left, varId>>]
             r == gen[<<t.right, varId + Len(l)>>]
         IN  Append(l \o r, [op |-> t.op, left |-> varId + Len(l) + Len(r) - 1,
                             right |-> varId + Len(l) + Len(r)])

\* The instructions for t after varId others; gen[<<u, n>>] is the recursive call.
genFuncBodyFromDag(gen, t, varId) ==
    IF t.op = "val" THEN <<[op |-> "val", val |-> Printed(t.val)]>>
    ELSE IF t.op = "neg"
    THEN LET r == gen[<<t.right, varId>>]
         IN  Append(r, [op |-> "neg", right |-> varId + Len(r)])
    ELSE LET l == gen[<<t.left, varId>>]
             r == gen[<<t.right, varId + Len(l)>>]
         IN  Append(l \o r, [op |-> t.op, left |-> varId + Len(l),
                             right |-> varId + Len(l) + Len(r)])

\* The function made of the tree t of an argument s.
Program(s, t) ==
    LET gen[c \in Dags(Values(s), Len(s)) \X Nat] == genFuncBodyFromDag(gen, c[1], c[2])
    IN  gen[<<t, 0>>]

\* The instructions that may declare the variable t(n - 1), and programs in which a
\* variable is used only below its declaration.
Instruction(n) ==
    [op : {"val"}, val : {"num", "rounded", "word"} \X Nat]
        \cup [op : {"neg"}, right : 1 .. n - 1]
        \cup [op : {"+", "-", "*", "/"}, left : 1 .. n - 1, right : 1 .. n - 1]

Code(c) == DOMAIN c = 1 .. Len(c) /\ \A n \in DOMAIN c : c[n] \in Instruction(n)

\* gcc takes a word for the name of a variable that is not declared.
Accepted(c) == Code(c) /\ \A n \in DOMAIN c : c[n].op = "val" => c[n].val[1] # "word"

\* The earlier call ran this program as well.
ASSUME OldCodeAssumption == Accepted(OldCode)

\* What the variables of the compiled code hold.
Variables(code) ==
    LET value[n \in 1 .. Len(code)] ==
          IF code[n].op = "val" THEN Val(code[n].val)
          ELSE IF code[n].op = "neg" THEN Neg(value[code[n].right])
          ELSE Bin(code[n].op, value[code[n].left], value[code[n].right])
    IN  value

evaluate(code) == Variables(code)[Len(code)]
-----------------------------------------------------------------------------
NoFile == <<>>

\* An out.so that gcc was stopped in.
Torn == <<[op |-> "torn"]>>

Init ==
    /\ pc = "start"
    /\ argument = <<>>
    /\ dag = Null
    /\ cfile = NoFile
    /\ \/ sofile = NoFile /\ stale = FALSE
       \/ sofile \in {OldCode, Torn} /\ stale = TRUE
    /\ handle = NoFile
    /\ result = 0
    /\ printed = Null
    /\ compiled = FALSE

\* An argument of blanks has no token and is refused as well.
parser_open(s) ==
    /\ argument' = s
    /\ \/ /\ Readable(s) /\ top(tokenize(s)).dag # Null
          /\ dag' = top(tokenize(s)).dag
          /\ pc' = "generate"
       \/ /\ ~Readable(s) \/ top(tokenize(s)).dag = Null
          /\ dag' = Null
          /\ pc' = "refused"
    /\ UNCHANGED <<files, handle, result, printed, stale, compiled>>

\* The message is made from what lies behind TBL: a wild pointer.
WildMessage(s) ==
    /\ Readable(s) /\ top(tokenize(s)).wild
    /\ argument' = s
    /\ pc' = "crashed"
    /\ UNCHANGED <<dag, files, handle, result, printed, stale, compiled>>

\* malloc() fails in the lexer or the parser, or fopen() in main().
OutOfResources ==
    /\ pc \in {"start", "generate"}
    /\ pc' = "failed"
    /\ UNCHANGED <<argument, dag, files, handle, result, printed, stale, compiled>>

generate ==
    /\ pc = "generate"
    /\ cfile' = Program(argument, dag)
    /\ pc' = "compile"
    /\ UNCHANGED <<argument, dag, sofile, handle, result, printed, stale, compiled>>

\* What gcc may leave if it fails or is stopped: the old file, none, a part of one;
\* or all of it, at once or later, as the linker carries on when only the driver has
\* ended.
Leftovers == {sofile, NoFile, Torn} \cup {c \in {cfile} : Accepted(c)}

\* jitc_compile() returns -1 only if gcc is ended by a signal: it returns 0 also
\* if fork() or execv() fails or gcc exits with an error.  waitpid() for the only
\* child of a program that handles no signal does not fail.
jitc_compile ==
    /\ pc = "compile"
    /\ \/ Accepted(cfile) /\ sofile' = cfile /\ compiled' = TRUE /\ result' = 0
       \/ sofile' \in Leftovers /\ result' \in {0, -1} /\ UNCHANGED compiled
    /\ pc' = "deletec"
    /\ UNCHANGED <<argument, dag, cfile, handle, printed, stale>>

\* Lines 107-112: out.c is deleted in both cases, out.so in none.
DeleteC ==
    /\ pc = "deletec"
    /\ cfile' = NoFile
    /\ pc' = IF result = 0 THEN "load" ELSE "failed"
    /\ UNCHANGED <<argument, dag, sofile, handle, result, printed, stale, compiled>>

\* Mutant of jitc_lookup: out.so is left if it cannot be used.
jitc_lookup_Leaves ==
    /\ pc = "lookup"
    /\ pc' = IF handle = NoFile THEN "failed" ELSE "print"
    /\ UNCHANGED <<argument, dag, files, handle, result, printed, stale, compiled>>

\* jitc_open() returns a struct jitc in any case; dlopen() fails without a file or
\* with a part of one, unless that ends the process (Killed), and may fail with a
\* whole one (for want of memory, or of a descriptor).
jitc_open ==
    /\ pc = "load"
    /\ handle' \in {sofile, NoFile} \ {Torn}
    /\ pc' = "lookup"
    /\ UNCHANGED <<argument, dag, files, result, printed, stale, compiled>>

\* With a NULL handle dlsym() searches the program itself and finds nothing.
jitc_lookup ==
    /\ pc = "lookup"
    /\ pc' = IF handle = NoFile THEN "deleteso" ELSE "print"
    /\ UNCHANGED <<argument, dag, files, handle, result, printed, stale, compiled>>

ShowResult ==
    /\ pc = "print"
    /\ printed' = evaluate(handle)
    /\ pc' = "deleteso"
    /\ UNCHANGED <<argument, dag, files, handle, result, stale, compiled>>

\* Lines 118-121 and 127-130.
DeleteSo ==
    /\ pc = "deleteso"
    /\ sofile' = NoFile
    /\ handle' = NoFile
    /\ pc' = IF printed = Null THEN "failed" ELSE "done"
    /\ UNCHANGED <<argument, dag, cfile, result, printed, stale, compiled>>

Ends == {"refused", "crashed", "failed", "done", "killed"}

\* The process is killed: what it has written stays, and gcc may carry on.
Killed ==
    /\ pc \notin Ends
    /\ pc' = "killed"
    /\ \/ UNCHANGED sofile
       \/ pc = "compile" /\ sofile' \in Leftovers
    /\ UNCHANGED <<argument, dag, cfile, handle, result, printed, stale, compiled>>

Next ==
    \/ pc = "start" /\ \E s \in Arguments : parser_open(s) \/ WildMessage(s)
    \/ OutOfResources
    \/ generate \/ jitc_compile \/ DeleteC
    \/ jitc_open \/ jitc_lookup \/ ShowResult \/ DeleteSo
    \/ Killed

Spec == Init /\ [][Next]_vars
-----------------------------------------------------------------------------
(***************************************************************************)
(* The meaning of an argument, by another way: the lexemes from a to b are *)
(* divided at the last operator that binds least.                          *)
(***************************************************************************)
\* Parentheses that are open after the lexeme k.
Depth(s, a, k) == Cardinality({i \in a .. k : s[i] = "("})
                    - Cardinality({i \in a .. k : s[i] = ")"})

\* The operators of `ops' outside parentheses that have an operand before them.
Splits(s, a, b, ops) ==
    {k \in a + 1 .. b : /\ s[k] \in ops
                        /\ s[k - 1] \in Numbers \cup {")"}
                        /\ Depth(s, a, k) = 0}

Join(o, l, r) == IF l = Null \/ r = Null THEN Null ELSE Bin(o, l, r)

\* The operators that join operands of level 0 and 1.
Joining == <<{"*", "/"}, {"+", "-"}>>

\* Level 0: a number, an operand with a sign, an expression in parentheses.
Operand(f, s, a, b) ==
    IF a > b THEN Null
    ELSE IF a = b /\ s[a] \in Numbers THEN Val(<<s[a], a>>)
    ELSE IF s[a] = "+" THEN f[<<0, a + 1, b>>]
    ELSE IF s[a] = "-" THEN LET r == f[<<0, a + 1, b>>] IN IF r = Null THEN Null ELSE Neg(r)
    ELSE IF s[a] = "(" /\ s[b] = ")" THEN f[<<2, a + 1, b - 1>>]
    ELSE Null

\* Levels 1 and 2: products and sums.
Joined(f, s, l, a, b) ==
    LET at == Splits(s, a, b, Joining[l])
    IN  IF at = {} THEN f[<<l - 1, a, b>>]
        ELSE Join(s[Max(at)], f[<<l, a, Max(at) - 1>>], f[<<l - 1, Max(at) + 1, b>>])

Parts(s) == (0 .. 2) \X (1 .. Len(s) + 1) \X (0 .. Len(s))

\* What the lexemes from a to b are at level l, Null if they are nothing.
Denotes(s) ==
    LET f[p \in Parts(s)] == IF p[1] = 0 THEN Operand(f, s, p[2], p[3])
                             ELSE Joined(f, s, p[1], p[2], p[3])
    IN  f

\* The expression that s denotes, Null if it denotes none.
Meaning(s) == Denotes(s)[<<2, 1, Len(s)>>]
-----------------------------------------------------------------------------
\* The type invariant: out.c uses only variables that are declared, and whatever gcc
\* has made of it and is loaded is code that it accepts.
TypeOK ==
    /\ pc \in {"start", "generate", "compile", "deletec", "load", "lookup",
               "print", "deleteso"} \cup Ends
    /\ argument \in Seq(Lexemes)
    /\ Code(cfile) /\ Accepted(handle) /\ (sofile = Torn \/ Accepted(sofile))
    /\ result \in {0, -1}
    /\ stale \in BOOLEAN /\ compiled \in BOOLEAN

\* The parser accepts an argument just if it denotes an expression, and builds
\* that one: precedence, grouping to the left, signs and parentheses.
ParsesAsWritten ==
    /\ dag # Null => dag = Meaning(argument)
    /\ pc \in {"refused", "crashed"} => Meaning(argument) = Null

\* What is printed is the value of the argument (if no number in it has more than
\* six decimals) - unless gcc failed, which jitc_compile() does not report, and a
\* killed call had left an out.so.
AnswerIsRight ==
    (printed # Null /\ (\A i \in DOMAIN argument : argument[i] # "tiny")) =>
        printed = Meaning(argument) \/ (stale /\ ~compiled)

\* A call that is not killed leaves no out.c; if it finds no out.so it leaves none
\* either, whatever fails - except that main() does not delete it when gcc was ended
\* by a signal, which is when jitc_compile() returns -1.
LeavesNoFile ==
    pc \in Ends \ {"killed"} =>
        /\ cfile = NoFile
        /\ stale \/ result = -1 \/ sofile = NoFile
=============================================================================
