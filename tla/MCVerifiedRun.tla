------------------------------ MODULE MCVerifiedRun ------------------------------
(* Programs for VerifiedRun: every code of a given shape over an alphabet.    *)
EXTENDS VerifiedRun, Assembler

\* One function: every body of four instructions, with ENDs in the middle and
\* jumps to any of its positions.
Steps == {Do("CONST"), Do("DROP"), Do("BINOP"), Do("END")}
Loops == {To("JMP", 3)} \cup {To("CJMPz", t) : t \in 2..6}
OneFunction(n) ==
  {<<Begin(0, 1)>> \o s \o <<Do("END"), Eof>> : s \in Bodies(n, Steps \cup Loops)}

\* Two functions, calling each other and themselves.
Callers == {Do("CONST"), Do("DROP"), Var("LD", "Argument", 0),
            Insn("CALL", "", 6, 0), Insn("CALL", "", 6, 1), Insn("CALL", "", 1, 0)}
TwoFunctions ==
  {<<Begin(0, 0)>> \o s \o <<Do("END"), Begin(1, 0)>> \o t \o <<Do("END"), Eof>> :
     s \in Bodies(3, Callers), t \in Bodies(2, Callers)}

\* Every kind of instruction, at depths 0 to 3.
Kinds == {Do(op) : op \in {"STI", "STA", "SWAP", "ELEM", "STRING", "CALL_READ", "CALL_WRITE",
                           "CALL_LENGTH", "TAG", "LINE", "RET"}}
  \cup {Insn(op, "", 2, 0) : op \in {"CALL_ARRAY", "CALLC"}}
  \cup {Insn("ARRAY", "", 1, 0), Insn("SEXP", "", 0, 2)}
  \cup {Var("PATT", low, 0) : low \in {"PattStrCmp", "PattSexp"}}
  \cup {Var(op, low, k) : op \in {"LD", "ST", "LDA"}, low \in {"Global", "Local"}, k \in 0..1}
  \cup {MakeClo(0, <<Cap(low, k)>>) : low \in {"Argument", "Closure"}, k \in 1..2}
AllKinds ==
  {<<Begin(2, 1)>> \o s \o <<k, l>> \o <<Do("END"), Eof>> :
     s \in UNION {Bodies(m, {Do("CONST")}) : m \in 0..3}, k, l \in Kinds}
  \cup {<<Begin(9, 1), Do("CONST"), k, Do("END"), Eof>> : k \in Kinds}

\* main at 1, a function of one argument and one local at 6.
CallMain == Insn("CALL", "", 1, 0)
CallFun == Insn("CALL", "", 6, 1)
Mains == {<<Do("CONST"), CallFun, Do("DUP")>>, <<Do("CONST"), Do("DUP"), CallFun>>,
          <<CallMain, CallFun, To("JMP", 5)>>, <<Do("CALL_READ"), To("CJMPz", 2), CallMain>>}
Callees == {CallMain, CallFun, Do("CALL_READ"), Do("BINOP"), Var("LD", "Argument", 0),
            Var("ST", "Local", 0), To("CJMPz", 9), To("JMP", 7), Insn("SEXP", "", 0, 1),
            Var("LDA", "Local", 0), Do("STI")}
Pairs == {<<Begin(0, 0)>> \o s \o <<Do("END"), Begin(1, 1)>> \o t \o <<Do("END"), Do("EOF")>> :
            s \in Mains, t \in Bodies(3, Callees)}

\* main at 1 calls a closure of one argument and one local, whose body is at 7 and
\* is reached by nothing else; it may call main, itself, and other closures.
MakeBody == MakeClo(7, <<Cap("Local", 0)>>)
ClosureCallers == {<<MakeBody, Do("CONST"), With("CALLC", 1), Do("DUP")>>,
                   <<MakeBody, Do("DUP"), With("CALLC", 1), Do("CALL_READ")>>,
                   <<Do("CONST"), MakeBody, Do("CALL_READ"), With("CALLC", 1)>>}
ClosureSteps == {Do("CALL_READ"), Do("BINOP"), Do("DROP"), Do("DUP"), Var("LD", "Argument", 0),
                 Var("LD", "Closure", 0), Var("ST", "Local", 0), To("JMP", 8), CallMain,
                 MakeClo(7, <<Cap("Argument", 0)>>), With("CALLC", 1), Insn("SEXP", "", 0, 1)}
WithClosures ==
  {<<Begin(0, 1)>> \o s \o <<Do("END"), Insn("CBEGIN", "", 1, 1)>> \o t \o <<Do("END"), Eof>> :
     s \in ClosureCallers,
     t \in {u \in Bodies(3, ClosureSteps) : DepthAfter(u) >= 1 /\ u[3].op # "JMP"}}

\* main calls a function of one argument and one local with a number, and then with
\* what that call returns; the function stores by reference, to variables that live
\* and, through the links it has returned, to some that do not.
ByReference ==
  {<<Begin(0, 0), Do("CONST"), CallFun, CallFun, Do("END"), Begin(1, 1)>> \o t \o <<Do("END"), Eof>> :
     t \in {u \in Bodies(4, {Var("LDA", low, 0) : low \in {"Local", "Argument", "Global"}}
                            \cup {Do("CONST"), Do("DUP"), Do("STA"), Do("STI"), Var("LD", "Argument", 0)}) :
            DepthAfter(u) >= 1 /\ \E k \in 1..4 : u[k].op \in {"STA", "STI"}}}

\* A function that no path ends, deeper than the stack.
Endless == {<<Begin(0, 0)>> \o [k \in 1..12 |-> Do("CONST")] \o <<To("JMP", 14), Eof>>}

MCPrograms == Endless \cup OneFunction(4) \cup TwoFunctions \cup AllKinds \cup Pairs \cup WithClosures \cup ByReference

\* Recursion at the greatest depth of its function.
DeepCall == {<<Begin(0, 0), Do("CONST"), Insn("CALL", "", 5, 1), Do("END"),
               Begin(1, 0), Var("LD", "Argument", 0), Var("LD", "Argument", 0),
               Insn("CALL", "", 5, 1), Do("BINOP"), Do("END"), Do("EOF")>>}
==================================================================================
