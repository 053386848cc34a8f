-------------------------------- MODULE MCModes --------------------------------
(* Files for main: every code of a given shape over an alphabet of control     *)
(* flow, and every pair of instructions in a straight one.                     *)
EXTENDS Modes, Assembler

Steps == {Do("DROP"), Do("DUP"), Do("END"), Do("FAIL"), To("JMP", 5), To("CJMPz", 3),
          To("CJMPnz", 6), To("CLOSURE", 5), To("CALL", 1)}

\* Every opcode, with arguments that are the byte 0xFF; captures of three numbers.
Straight == {With(op, 255) : op \in {"CONST", "STRING", "SEXP", "STI", "STA", "DROP", "DUP", "SWAP",
                                     "ELEM", "BINOP", "CALLC", "TAG", "ARRAY", "LINE", "BEGIN", "CBEGIN",
                                     "CALL_READ", "CALL_WRITE", "CALL_LENGTH", "CALL_STRING",
                                     "CALL_ARRAY"}}
  \cup {Var(op, low, 255) : op \in Variables, low \in Designations}
  \cup {Insn("PATT", low, 0, 0) : low \in Patts}
  \cup {To(op, 2) : op \in Jumps} \cup {Do(op) : op \in {"RET", "FAIL", "END"}}
  \cup {MakeClo(2, s) : s \in {<<>>, <<Cap("Local", 255)>>, <<Cap("Closure", 0), Cap("Argument", 1)>>}}

MCPrograms == {<<Begin(0, 0)>> \o s \o <<l, Eof>> : s \in Bodies(4, Steps), l \in {Do("END"), Do("DUP")}}
         \cup {<<Begin(0, 0)>> \o s \o <<Do("END"), Eof>> : s \in Bodies(2, Straight)}

\* main alone; a second symbol in the middle; an alias.
MCPublics == {<<1>>, <<4, 1, 1>>}
===============================================================================
