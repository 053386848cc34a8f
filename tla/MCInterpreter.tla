----------------------------- MODULE MCInterpreter -----------------------------
(* Programs for Interpreter, shaped as lamac shapes them.                     *)
EXTENDS InterpreterRefinement, Assembler

\* main: f (READ, 1); f (n, m): local k := m; if n then f (m, n) + k else n fi.
Recursive == <<
  Begin(2, 0), Do("CALL_READ"), With("CONST", 1), Insn("CALL", "", 7, 2), Do("END"), Do("LINE"),
  Begin(2, 1), Var("LD", "Argument", 1), Var("ST", "Local", 0), Do("DROP"),
  Var("LD", "Argument", 0), With("CJMPz", 18),
  Var("LD", "Argument", 1), Var("LD", "Argument", 0), Insn("CALL", "", 7, 2),
  Var("LD", "Local", 0), Do("BINOP"),
  Var("LD", "Argument", 0), Do("END"), Do("EOF")>>

\* main: local x := 1; local c := fun (a) { x' := a; x' + g }; g := c (0); c (g) + x,
\* with x' the captured copy of x, and two operands below the calls.
Closures == <<
  Begin(2, 2), With("CONST", 1), Var("ST", "Local", 0), Do("DROP"),
  MakeClo(17, <<Cap("Local", 0), Cap("Local", 1)>>), Var("ST", "Local", 1), Do("DROP"),
  Var("LD", "Local", 0),
  Var("LD", "Local", 1), With("CONST", 0), With("CALLC", 1), Var("ST", "Global", 0),
  Do("BINOP"), Var("LD", "Local", 0), Do("SWAP"), Do("END"),
  Begin(1, 0), Var("LD", "Argument", 0), Var("ST", "Closure", 0), Var("LD", "Closure", 0),
  Do("SWAP"), Do("DROP"), Do("END"), Do("EOF")>>

\* main: case [READ, "s"] of [x, y] -> x; a loop; a store into an element; calls
\* of functions of no and of three arguments inside an s-expression.
Objects == <<
  Begin(2, 1), Do("CALL_READ"), Do("STRING"), With("CALL_ARRAY", 2),
  Do("DUP"), With("ARRAY", 2), With("CJMPz", 22),
  Do("DUP"), With("CONST", 0), Do("ELEM"), Var("ST", "Local", 0), Do("DROP"),
  With("CONST", 1), Var("LD", "Local", 0), Do("STA"), Do("DROP"),
  Insn("CALL", "", 23, 0), Do("STRING"), With("CONST", 1), Insn("CALL", "", 26, 3), Do("END"),
  Do("FAIL"),
  Begin(0, 0), Var("LD", "Global", 0), Do("END"),
  Begin(3, 1), Var("LD", "Argument", 0), Var("LD", "Argument", 2), Insn("SEXP", "", 0, 2), Do("CALL_STRING"),
  Do("CALL_LENGTH"), Do("CALL_WRITE"), Var("LDA", "Argument", 1), Do("DROP"), With("CJMPnz", 27),
  With("CONST", 0), Do("END"), Do("EOF")>>

\* main calls a function of two arguments and one local, whose body is any four
\* instructions that have the operands they take; it may call itself, capture
\* its variables in a closure of one argument and call that.
Steps == {Var(op, low, 1) : op \in {"LD", "ST"}, low \in {"Argument"}}
  \cup {Var("LD", "Argument", 0), Var("ST", "Local", 0), Var("LD", "Global", 0), Do("BINOP"),
        Do("DUP"), Do("SWAP"), With("CALL_ARRAY", 2), Insn("CALL", "", 6, 2), With("CALLC", 1),
        MakeClo(12, <<Cap("Argument", 0), Cap("Local", 0)>>)}

WithBody(s) ==
  <<Begin(2, 0), Do("CALL_READ"), With("CONST", 1), Insn("CALL", "", 6, 2), Do("END"),
    Begin(2, 1)>> \o s \o <<Do("END"),
    Insn("CBEGIN", "", 1, 0), Var("LD", "Closure", 0), Var("ST", "Global", 0), To("JMP", 16),
    Var("LD", "Argument", 0), Do("SWAP"), Do("DROP"), Do("END"), Do("EOF")>>

\* main: local x; x := 1, by reference.
Assign == <<Begin(2, 1), Var("LDA", "Local", 0), With("CONST", 1), Do("STI"), Do("END"), Do("EOF")>>
\* The faults: what is assigned to is no variable; the two operations that no
\* handler takes.
Faults == {<<Begin(2, 0), With("CONST", 0), Do("DUP"), Do("STI"), Do("END"), Do("EOF")>>,
           <<Begin(2, 0), Do("RET"), Do("EOF")>>, <<Begin(2, 0), Do("EOF")>>}

MCPrograms == {Recursive, Closures, Objects, Assign} \cup Faults
  \cup {WithBody(s) : s \in {t \in Bodies(4, Steps) : DepthAfter(t) >= 1}}
================================================================================
