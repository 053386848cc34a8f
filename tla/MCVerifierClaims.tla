--------------------------- MODULE MCVerifierClaims ---------------------------
(* Single programs for Verifier, each against one claim of the code.         *)
EXTENDS Verifier, Assembler

\* A loop around string (1).
StringLoop == {<<Begin(0, 0), To("JMP", 6), Do("CONST"), Do("CALL_STRING"), Do("DROP"),
                 Do("CONST"), To("CJMPnz", 3), Do("CONST"), Do("END"), Eof>>}
\* case 0 of [x, y, z] -> 1 | _ -> 0 esac.
ArrayPattern == {<<Begin(0, 0), Do("CONST"), Do("DUP"), Insn("ARRAY", "", 3, 0), To("CJMPz", 9),
                   Do("DROP"), Do("CONST"), To("JMP", 11), Do("DROP"), Do("CONST"), Do("END"), Eof>>}
\* One operand for two.
Underflow == {<<Begin(0, 0), Do("CONST"), Do("BINOP"), Do("END"), Eof>>}
===============================================================================
