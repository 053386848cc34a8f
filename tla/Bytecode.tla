------------------------------- MODULE Bytecode -------------------------------
(***************************************************************************)
(* The code section of a bytecode file, decoded.  A position of a code     *)
(* sequence stands for the offset at which an instruction begins; position *)
(* i + 1 is the offset general_byterun returns for position i, and the     *)
(* last position holds the byte 0xFF that ends the section.                *)
(*                                                                         *)
(* An instruction is a record: op, its low bits low (the designation of    *)
(* LD, ST and LDA, the kind of PATT), its arguments a = args[0] and        *)
(* b = args[1], and the captures of a CLOSURE.  Of BEGIN's first argument  *)
(* only the number of arguments is in a; its upper half is kept apart by   *)
(* the modules that write or read it.                                      *)
(***************************************************************************)
EXTENDS Integers, Sequences

Designations == {"Global", "Local", "Argument", "Closure"}
Patts == {"PattStrCmp", "PattString", "PattArray", "PattSexp",
          "PattBoxed", "PattUnBoxed", "PattClosure"}

Begins == {"BEGIN", "CBEGIN"}
Variables == {"LD", "ST", "LDA"}
CondJumps == {"CJMPz", "CJMPnz"}
Jumps == {"JMP", "CALL"} \cup CondJumps
Stops == {"END", "FAIL"}

Ops == Begins \cup Variables \cup Jumps \cup Stops \cup
  {"BINOP", "CONST", "STRING", "SEXP", "STI", "STA", "DROP", "DUP", "SWAP", "ELEM",
   "CALL_READ", "CALL_WRITE", "CALL_LENGTH", "CALL_STRING", "CALL_ARRAY",
   "CLOSURE", "CALLC", "TAG", "ARRAY", "LINE", "PATT", "RET", "EOF"}

\* Those general_byterun or get_new_stack throw at, and the dispatch loop too.
Unsupported == {"RET", "EOF"}

Capture == [mem_var : Designations, value : Nat]
Instruction == [op : Ops, low : {""} \cup Designations \cup Patts,
                a : Nat, b : Nat, caps : Seq(Capture)]

\* A code section ends in 0xFF and nothing but its end does.
IsCode(p) == /\ p \in Seq(Instruction) /\ p # <<>>
             /\ \A i \in DOMAIN p : p[i].op = "EOF" <=> i = Len(p)

------------------------------------------------------------------------------
(* What the interpreter's handlers do to the operands of the running frame. *)

\* The number of operands a handler reads from the top of the stack.
Needs(i) ==
  CASE i.op \in {"DROP", "DUP", "ST", "CALL_WRITE", "CALL_LENGTH", "CALL_STRING",
                 "TAG", "ARRAY", "END"} \cup CondJumps -> 1
    [] i.op \in {"BINOP", "ELEM", "SWAP", "STI"} -> 2
    [] i.op = "STA" -> 3
    [] i.op = "PATT" -> IF i.low = "PattStrCmp" THEN 2 ELSE 1
    [] i.op = "CALL_ARRAY" -> i.a
    [] i.op \in {"SEXP", "CALL"} -> i.b
    [] i.op = "CALLC" -> i.a + 1
    [] OTHER -> 0

\* The number of operands it leaves in their place.
Gives(i) ==
  CASE i.op \in {"DROP", "JMP", "LINE", "FAIL"} \cup CondJumps \cup Begins -> 0
    [] i.op \in {"DUP", "SWAP"} -> 2
    [] OTHER -> 1

Effect(i) == Gives(i) - Needs(i)

\* Where control goes from position i of p with d operands, and with how many:
\* a call enters its function with none, and returns with the result in the
\* place of the arguments.
Flow(p, i, d) ==
  LET n == d + Effect(p[i])
  IN  CASE p[i].op = "JMP" -> {<<p[i].a, n>>}
        [] p[i].op \in CondJumps -> {<<p[i].a, n>>, <<i + 1, n>>}
        [] p[i].op = "CALL" -> {<<p[i].a, 0>>, <<i + 1, n>>}
        [] p[i].op \in Stops \cup Unsupported -> {}
        [] OTHER -> {<<i + 1, n>>}

\* The begin of the function that position i belongs to, 0 if there is none:
\* the last one at or before it.
BeginOf(p, i) == LET B == {b \in 1..i : p[b].op \in Begins}
                 IN  IF B = {} THEN 0 ELSE CHOOSE b \in B : \A c \in B : c <= b
==============================================================================
