-------------------------------- MODULE Encoding --------------------------------
(***************************************************************************)
(* The bytes of a code section, and what its readers take for the length   *)
(* of an instruction: general_byterun, which the analyzer and the verifier *)
(* share, print_instructions, and the handlers of the interpreter.  A word *)
(* of 32 bits is one cell here, a byte another.                            *)
(***************************************************************************)
EXTENDS Bytecode, SequencesExt

(* InstructionType: the families whose low bits mean something, and the rows of *)
(* opcodes by their high bits.                                                  *)
Families == [BINOP |-> 0, LD |-> 2, LDA |-> 3, ST |-> 4, PATT |-> 6]
Rows == [h \in {1, 5, 7} |->
  CASE h = 1 -> <<"CONST", "STRING", "SEXP", "STI", "STA", "JMP", "END", "RET", "DROP", "DUP",
                  "SWAP", "ELEM">>
    [] h = 5 -> <<"CJMPz", "CJMPnz", "BEGIN", "CBEGIN", "CLOSURE", "CALLC", "CALL", "TAG",
                  "ARRAY", "FAIL", "LINE">>
    [] h = 7 -> <<"CALL_READ", "CALL_WRITE", "CALL_LENGTH", "CALL_STRING", "CALL_ARRAY">>]
LowBits == <<"Global", "Local", "Argument", "Closure">>
PattBits == <<"PattStrCmp", "PattString", "PattArray", "PattSexp", "PattBoxed", "PattUnBoxed",
              "PattClosure">>
END_OF_CODE == 255

\* The place of x in s, from 0.
IndexIn(s, x) == SelectInSeq(s, LAMBDA y : y = x) - 1
Low(i) == CASE i.op = "BINOP" -> 1
            [] i.op = "PATT" -> IndexIn(PattBits, i.low)
            [] OTHER -> IndexIn(LowBits, i.low)

Opcode(i) ==
  IF i.op = "EOF" THEN END_OF_CODE
  ELSE IF i.op \in DOMAIN Families THEN 16 * Families[i.op] + Low(i)
  ELSE LET h == CHOOSE h \in DOMAIN Rows : i.op \in Range(Rows[h])
       IN  16 * h + IndexIn(Rows[h], i.op)

\* next_instruction_type and get_instruction_type.
TypeAt(byte) ==
  LET h == byte \div 16
      k == (byte % 16) + 1
  IN  IF \E f \in DOMAIN Families : Families[f] = h THEN CHOOSE f \in DOMAIN Families : Families[f] = h
      ELSE IF h \in DOMAIN Rows /\ k <= Len(Rows[h]) THEN Rows[h][k]
      ELSE "EOF"

\* What lamac writes.
Encode(i) ==
  <<Opcode(i)>> \o
  CASE i.op \in {"CALL", "SEXP", "TAG", "FAIL"} \cup Begins -> <<i.a, i.b>>
    [] i.op = "CLOSURE" -> <<i.a, Len(i.caps)>> \o
         FlattenSeq([k \in DOMAIN i.caps |->
                       <<IndexIn(LowBits, i.caps[k].mem_var), i.caps[k].value>>])
    [] i.op \in {"CONST", "STRING", "JMP", "CALLC", "CALL_ARRAY", "ARRAY", "LINE"}
                  \cup CondJumps \cup Variables -> <<i.a>>
    [] OTHER -> <<>>
Code(p) == FlattenSeq([k \in DOMAIN p |-> Encode(p[k])])

------------------------------------------------------------------------------
(* The readers, as the instructions each takes for those of no argument, of one *)
(* and of two.  Two that are not there are CLOSURE's and its captures'.         *)

Plain == {"CALL_READ", "CALL_WRITE", "CALL_LENGTH", "CALL_STRING", "ELEM", "DUP", "DROP", "SWAP",
          "STI", "STA", "END"}
general_byterun ==
  [none |-> Plain \cup {"RET", "BINOP", "PATT"},
   one |-> {"JMP", "CJMPz", "CJMPnz", "CONST", "CALL_ARRAY", "ARRAY", "STRING", "CALLC", "LD", "ST",
            "LDA", "LINE"},
   two |-> {"CALL", "SEXP", "TAG", "BEGIN", "CBEGIN", "FAIL"}]
\* Mutant: the number of elements of an array's pattern is forgotten.
print_instructions_array ==
  [none |-> Plain \cup {"RET", "BINOP", "PATT", "ARRAY"},
   one |-> {"JMP", "CJMPz", "CJMPnz"} \cup {"CONST", "CALL_ARRAY", "LINE", "STRING", "CALLC"}
           \cup {"LD", "ST", "LDA"},
   two |-> {"CALL"} \cup {"SEXP", "TAG"} \cup {"BEGIN", "CBEGIN", "FAIL"}]
print_instructions ==
  [none |-> Plain \cup {"RET", "BINOP", "PATT"},
   one |-> {"JMP", "CJMPz", "CJMPnz"} \cup {"CONST", "CALL_ARRAY", "LINE", "ARRAY", "STRING", "CALLC"}
           \cup {"LD", "ST", "LDA"},
   two |-> {"CALL"} \cup {"SEXP", "TAG"} \cup {"BEGIN", "CBEGIN", "FAIL"}]
handlers ==
  [none |-> Plain \cup {"BINOP", "PATT"},
   one |-> {"JMP", "CJMPz", "CJMPnz", "CONST", "STRING", "CALLC", "CALL_ARRAY", "ARRAY", "LINE"}
           \cup Variables,
   two |-> {"CALL", "SEXP", "TAG", "FAIL"} \cup Begins]

\* Mutant: the captures of a closure are not passed over.
PassedNoCaptures(reader, code, at) ==
  LET t == TypeAt(code[at])
  IN  CASE t \in reader.none -> at + 1
        [] t \in reader.one -> at + 2
        [] t \in reader.two \cup {"CLOSURE"} -> at + 3
        [] OTHER -> 0
\* Where a reader goes from an offset, 0 where it fails: over the captures of a
\* closure too, by the number that is written there.
Passed(reader, code, at) ==
  LET t == TypeAt(code[at])
  IN  CASE t \in reader.none -> at + 1
        [] t \in reader.one -> at + 2
        [] t \in reader.two -> at + 3
        [] t = "CLOSURE" -> at + 3 + 2 * code[at + 2]
        [] OTHER -> 0

\* A cell as a signed char.
Char(b) == IF b < 128 THEN b ELSE b - 256

\* compare_bytes: by the first byte that differs, then by the length.
CompareBytes(x, y) ==
  IF x = y THEN 0
  ELSE LET D == {k \in DOMAIN x \cap DOMAIN y : x[k] # y[k]}
       IN  IF D = {} THEN Len(x) - Len(y)
           ELSE LET k == CHOOSE d \in D : \A e \in D : d <= e IN Char(x[k]) - Char(y[k])
==============================================================================
