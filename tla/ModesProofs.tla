------------------------------- MODULE ModesProofs -------------------------------
(***************************************************************************)
(* What -a and -p print, for every code: the bytes of an instruction give  *)
(* back the instruction, whatever comes after them, so that the readers    *)
(* pass over the same bytes and the analyzer's offsets are positions.      *)
(***************************************************************************)
EXTENDS Modes, AnalyzerProofs

-----------------------------------------------------------------------------
(* The opcodes *)

\* The place of x in s, from 0.
LEMMA PlaceIn ==
  ASSUME NEW S, NEW s \in Seq(S), NEW k \in 1..Len(s), \A j \in 1..Len(s) : s[j] = s[k] => j = k
  PROVE  IndexIn(s, s[k]) = k - 1
<1> DEFINE I == {i \in 1..Len(s) : s[i] = s[k]}
<1>1. I = {k} OBVIOUS
<1>2. Min(I) = k
  <2>1. Min({k}) \in {k} BY DEF Min
  <2> QED BY <1>1, <2>1
<1>3. SelectInSeq(s, LAMBDA y : y = s[k]) = Min(I) BY <1>1 DEF SelectInSeq
<1> QED BY <1>2, <1>3 DEF IndexIn

Grouped == {"BINOP", "LD", "LDA", "ST", "PATT"}

\* The families of opcodes and their high bits.
LEMMA FamiliesFacts ==
  /\ DOMAIN Families = Grouped
  /\ \A f \in Grouped : Families[f] \in {0, 2, 3, 4, 6}
  /\ \A f, g \in Grouped : Families[f] = Families[g] => f = g
BY DEF Families, Grouped

\* The rows of opcodes, by their high bits.
LEMMA RowsFacts ==
  /\ DOMAIN Rows = {1, 5, 7}
  /\ Rows[1] = <<"CONST", "STRING", "SEXP", "STI", "STA", "JMP", "END", "RET", "DROP", "DUP",
                 "SWAP", "ELEM">>
  /\ Rows[5] = <<"CJMPz", "CJMPnz", "BEGIN", "CBEGIN", "CLOSURE", "CALLC", "CALL", "TAG",
                 "ARRAY", "FAIL", "LINE">>
  /\ Rows[7] = <<"CALL_READ", "CALL_WRITE", "CALL_LENGTH", "CALL_STRING", "CALL_ARRAY">>
BY DEF Rows

\* Each name is in one row, once, and rows fit four bits.
LEMMA RowsDistinct ==
  /\ \A h \in DOMAIN Rows : Rows[h] \in Seq(Ops) /\ Len(Rows[h]) \in 1..16
  /\ \A h, g \in DOMAIN Rows : \A k \in 1..Len(Rows[h]), l \in 1..Len(Rows[g]) :
       Rows[h][k] = Rows[g][l] => h = g /\ k = l
<1> DEFINE Mine(h, n) == Rows[h] \in Seq(Ops) /\ Len(Rows[h]) = n
           Apart(h, m, g, n) == \A k \in 1..m, l \in 1..n : Rows[h][k] = Rows[g][l] => h = g /\ k = l
<1>1. \A h \in DOMAIN Rows : h = 1 \/ h = 5 \/ h = 7 BY RowsFacts
<1>2. Mine(1, 12)
  <2>1. <<"CONST", "STRING", "SEXP", "STI", "STA", "JMP", "END", "RET", "DROP", "DUP", "SWAP", "ELEM">> \in Seq(Ops)
    BY DEF Ops, Jumps, Stops
  <2> QED BY <2>1, RowsFacts
<1>3. Mine(5, 11)
  <2>1. <<"CJMPz", "CJMPnz", "BEGIN", "CBEGIN", "CLOSURE", "CALLC", "CALL", "TAG", "ARRAY", "FAIL", "LINE">> \in Seq(Ops)
    BY DEF Ops, Jumps, Stops, CondJumps, Begins
  <2> QED BY <2>1, RowsFacts
<1>4. Mine(7, 5)
  <2>1. <<"CALL_READ", "CALL_WRITE", "CALL_LENGTH", "CALL_STRING", "CALL_ARRAY">> \in Seq(Ops)
    BY DEF Ops
  <2> QED BY <2>1, RowsFacts
<1>5. \A h \in DOMAIN Rows : Rows[h] \in Seq(Ops) /\ Len(Rows[h]) \in 1..16
  <2>1. 12 \in 1..16 /\ 11 \in 1..16 /\ 5 \in 1..16 OBVIOUS
  <2> QED BY <1>1, <1>2, <1>3, <1>4, <2>1
<1>6. Apart(1, 12, 1, 12) BY RowsFacts
<1>7. Apart(5, 11, 5, 11) BY RowsFacts
<1>8. Apart(7, 5, 7, 5) BY RowsFacts
<1>9. Apart(1, 12, 5, 11) /\ Apart(5, 11, 1, 12) BY RowsFacts
<1>10. Apart(1, 12, 7, 5) /\ Apart(7, 5, 1, 12) BY RowsFacts
<1>11. Apart(5, 11, 7, 5) /\ Apart(7, 5, 5, 11) BY RowsFacts
<1>12. \A h, g \in DOMAIN Rows : Apart(h, Len(Rows[h]), g, Len(Rows[g]))
  <2> HIDE DEF Apart
  <2> QED BY <1>1, <1>2, <1>3, <1>4, <1>6, <1>7, <1>8, <1>9, <1>10, <1>11
<1> QED BY <1>5, <1>12

\* Every name that is not of a family is in a row.
LEMMA RowOf ==
  ASSUME NEW op \in Ops, op \notin Grouped, op # "EOF"
  PROVE  \E h \in DOMAIN Rows : \E k \in 1..Len(Rows[h]) : Rows[h][k] = op
<1>1. \/ op \in {"CONST", "STRING", "SEXP", "STI", "STA", "JMP"}
      \/ op \in {"END", "RET", "DROP", "DUP", "SWAP", "ELEM"}
      \/ op \in {"CJMPz", "CJMPnz", "BEGIN", "CBEGIN", "CLOSURE", "CALLC"}
      \/ op \in {"CALL", "TAG", "ARRAY", "FAIL", "LINE"}
      \/ op \in {"CALL_READ", "CALL_WRITE", "CALL_LENGTH", "CALL_STRING", "CALL_ARRAY"}
  BY DEF Ops, Grouped, Begins, Variables, Jumps, CondJumps, Stops
<1>2. Len(Rows[1]) = 12 /\ Len(Rows[5]) = 11 /\ Len(Rows[7]) = 5 BY RowsFacts
<1>3. CASE op \in {"CONST", "STRING", "SEXP", "STI", "STA", "JMP"}
  <2>1. \E k \in 1..12 : Rows[1][k] = op
    <3>1. /\ Rows[1][1] = "CONST" /\ Rows[1][2] = "STRING" /\ Rows[1][3] = "SEXP"
          /\ Rows[1][4] = "STI" /\ Rows[1][5] = "STA" /\ Rows[1][6] = "JMP"
      BY RowsFacts
    <3>2. 1 \in 1..12 /\ 2 \in 1..12 /\ 3 \in 1..12 /\ 4 \in 1..12 /\ 5 \in 1..12 /\ 6 \in 1..12 OBVIOUS
    <3> QED BY <1>3, <3>1, <3>2
  <2> QED BY <1>2, <2>1, RowsFacts
<1>4. CASE op \in {"END", "RET", "DROP", "DUP", "SWAP", "ELEM"}
  <2>1. \E k \in 1..12 : Rows[1][k] = op
    <3>1. /\ Rows[1][7] = "END" /\ Rows[1][8] = "RET" /\ Rows[1][9] = "DROP"
          /\ Rows[1][10] = "DUP" /\ Rows[1][11] = "SWAP" /\ Rows[1][12] = "ELEM"
      BY RowsFacts
    <3>2. 7 \in 1..12 /\ 8 \in 1..12 /\ 9 \in 1..12 /\ 10 \in 1..12 /\ 11 \in 1..12 /\ 12 \in 1..12 OBVIOUS
    <3> QED BY <1>4, <3>1, <3>2
  <2> QED BY <1>2, <2>1, RowsFacts
<1>5. CASE op \in {"CJMPz", "CJMPnz", "BEGIN", "CBEGIN", "CLOSURE", "CALLC"}
  <2>1. \E k \in 1..11 : Rows[5][k] = op
    <3>1. /\ Rows[5][1] = "CJMPz" /\ Rows[5][2] = "CJMPnz" /\ Rows[5][3] = "BEGIN"
          /\ Rows[5][4] = "CBEGIN" /\ Rows[5][5] = "CLOSURE" /\ Rows[5][6] = "CALLC"
      BY RowsFacts
    <3>2. 1 \in 1..11 /\ 2 \in 1..11 /\ 3 \in 1..11 /\ 4 \in 1..11 /\ 5 \in 1..11 /\ 6 \in 1..11 OBVIOUS
    <3> QED BY <1>5, <3>1, <3>2
  <2> QED BY <1>2, <2>1, RowsFacts
<1>6. CASE op \in {"CALL", "TAG", "ARRAY", "FAIL", "LINE"}
  <2>1. \E k \in 1..11 : Rows[5][k] = op
    <3>1. /\ Rows[5][7] = "CALL" /\ Rows[5][8] = "TAG" /\ Rows[5][9] = "ARRAY"
          /\ Rows[5][10] = "FAIL" /\ Rows[5][11] = "LINE"
      BY RowsFacts
    <3>2. 7 \in 1..11 /\ 8 \in 1..11 /\ 9 \in 1..11 /\ 10 \in 1..11 /\ 11 \in 1..11 OBVIOUS
    <3> QED BY <1>6, <3>1, <3>2
  <2> QED BY <1>2, <2>1, RowsFacts
<1>7. CASE op \in {"CALL_READ", "CALL_WRITE", "CALL_LENGTH", "CALL_STRING", "CALL_ARRAY"}
  <2>1. \E k \in 1..5 : Rows[7][k] = op
    <3>1. /\ Rows[7][1] = "CALL_READ" /\ Rows[7][2] = "CALL_WRITE" /\ Rows[7][3] = "CALL_LENGTH"
          /\ Rows[7][4] = "CALL_STRING" /\ Rows[7][5] = "CALL_ARRAY"
      BY RowsFacts
    <3>2. 1 \in 1..5 /\ 2 \in 1..5 /\ 3 \in 1..5 /\ 4 \in 1..5 /\ 5 \in 1..5 OBVIOUS
    <3> QED BY <1>7, <3>1, <3>2
  <2> QED BY <1>2, <2>1, RowsFacts
<1> QED BY <1>1, <1>3, <1>4, <1>5, <1>6, <1>7

\* An instruction whose low bits mean something says what.
Formed(i) == /\ i.op \in Ops
             /\ i.op \in Variables => i.low \in Designations
             /\ i.op = "PATT" => i.low \in Patts

\* What the low bits say: the designation and the kind of pattern, each once.
LEMMA LowBitsTell ==
  /\ \A d \in Designations : IndexIn(LowBits, d) \in 0..3 /\ LowBits[IndexIn(LowBits, d) + 1] = d
  /\ \A d \in Patts : IndexIn(PattBits, d) \in 0..6 /\ PattBits[IndexIn(PattBits, d) + 1] = d
<1>1. ASSUME NEW d \in Designations
      PROVE  IndexIn(LowBits, d) \in 0..3 /\ LowBits[IndexIn(LowBits, d) + 1] = d
  <2>1. LowBits \in Seq(Designations) /\ Len(LowBits) = 4 BY DEF LowBits, Designations
  <2>2. \A j, k \in 1..4 : LowBits[j] = LowBits[k] => j = k BY DEF LowBits
  <2>3. \E k \in 1..4 : LowBits[k] = d
    <3>1. /\ LowBits[1] = "Global" /\ LowBits[2] = "Local" /\ LowBits[3] = "Argument"
          /\ LowBits[4] = "Closure"
      BY DEF LowBits
    <3>2. 1 \in 1..4 /\ 2 \in 1..4 /\ 3 \in 1..4 /\ 4 \in 1..4 OBVIOUS
    <3> QED BY <3>1, <3>2 DEF Designations
  <2>4. PICK k \in 1..4 : LowBits[k] = d BY <2>3
  <2>5. IndexIn(LowBits, d) = k - 1 BY <2>1, <2>2, <2>4, PlaceIn
  <2>6. k - 1 \in 0..3 /\ (k - 1) + 1 = k OBVIOUS
  <2> QED BY <2>4, <2>5, <2>6
<1>2. ASSUME NEW d \in Patts
      PROVE  IndexIn(PattBits, d) \in 0..6 /\ PattBits[IndexIn(PattBits, d) + 1] = d
  <2>1. PattBits \in Seq(Patts) /\ Len(PattBits) = 7 BY DEF PattBits, Patts
  <2>2. \A j, k \in 1..7 : PattBits[j] = PattBits[k] => j = k BY DEF PattBits
  <2>3. \E k \in 1..7 : PattBits[k] = d
    <3>1. /\ PattBits[1] = "PattStrCmp" /\ PattBits[2] = "PattString" /\ PattBits[3] = "PattArray"
          /\ PattBits[4] = "PattSexp" /\ PattBits[5] = "PattBoxed" /\ PattBits[6] = "PattUnBoxed"
          /\ PattBits[7] = "PattClosure"
      BY DEF PattBits
    <3>2. 1 \in 1..7 /\ 2 \in 1..7 /\ 3 \in 1..7 /\ 4 \in 1..7 /\ 5 \in 1..7 /\ 6 \in 1..7 /\ 7 \in 1..7
      OBVIOUS
    <3> QED BY <3>1, <3>2 DEF Patts
  <2>4. PICK k \in 1..7 : PattBits[k] = d BY <2>3
  <2>5. IndexIn(PattBits, d) = k - 1 BY <2>1, <2>2, <2>4, PlaceIn
  <2>6. k - 1 \in 0..6 /\ (k - 1) + 1 = k OBVIOUS
  <2> QED BY <2>4, <2>5, <2>6
<1> QED BY <1>1, <1>2

\* The low bits fit their four bits.
LEMMA LowFits ==
  ASSUME NEW i, Formed(i), i.op \in Grouped
  PROVE  Low(i) \in 0..15
<1>1. CASE i.op = "BINOP" BY <1>1 DEF Low
<1>2. CASE i.op = "PATT"
  <2>1. IndexIn(PattBits, i.low) \in 0..6 BY <1>2, LowBitsTell DEF Formed
  <2> QED BY <1>2, <2>1 DEF Low
<1>3. CASE i.op \in Variables
  <2>1. IndexIn(LowBits, i.low) \in 0..3 BY <1>3, LowBitsTell DEF Formed
  <2>2. i.op # "BINOP" /\ i.op # "PATT" BY <1>3 DEF Variables
  <2> QED BY <2>1, <2>2 DEF Low
<1> QED BY <1>1, <1>2, <1>3 DEF Grouped, Variables

\* The high and the low four bits of a byte.
LEMMA ByHighBits ==
  \A h \in 0..15, k \in 0..15 :
    16 * h + k \in 0..255 /\ (16 * h + k) \div 16 = h /\ (16 * h + k) % 16 = k
OBVIOUS

\* The type of an opcode is that of the instruction it was written for.
LEMMA OpcodeType ==
  ASSUME NEW i, Formed(i)
  PROVE  /\ Opcode(i) \in 0..255
         /\ TypeAt(Opcode(i)) = i.op
         /\ Opcode(i) = END_OF_CODE <=> i.op = "EOF"
<1>1. \A f \in DOMAIN Families : Families[f] \in {0, 2, 3, 4, 6} BY FamiliesFacts
<1>2. CASE i.op = "EOF"
  <2>1. Opcode(i) = 255 BY <1>2 DEF Opcode, END_OF_CODE
  <2>2. 255 \div 16 = 15 /\ 255 % 16 = 15 OBVIOUS
  <2>3. 15 \notin DOMAIN Rows /\ \A f \in DOMAIN Families : Families[f] # 15 BY <1>1, RowsFacts
  <2>4. TypeAt(255) = "EOF" BY <2>2, <2>3 DEF TypeAt
  <2> QED BY <1>2, <2>1, <2>4 DEF END_OF_CODE
<1>3. CASE i.op \in Grouped
  <2>1. PICK k \in 0..15 : k = Low(i) BY <1>3, LowFits
  <2>2. PICK h \in 0..15 : h = Families[i.op] /\ h # 15 BY <1>3, FamiliesFacts
  <2>3. i.op # "EOF" BY <1>3 DEF Grouped
  <2>4. Opcode(i) = 16 * h + k BY <1>3, <2>1, <2>2, <2>3, FamiliesFacts DEF Opcode
  <2>5. 16 * h + k \in 0..255 /\ (16 * h + k) \div 16 = h BY ByHighBits
  <2>6. TypeAt(16 * h + k) = CHOOSE f \in DOMAIN Families : Families[f] = h
    <3>1. \E f \in DOMAIN Families : Families[f] = h BY <1>3, <2>2, FamiliesFacts
    <3> QED BY <2>5, <3>1 DEF TypeAt
  <2>7. (CHOOSE f \in DOMAIN Families : Families[f] = h) = i.op BY <1>3, <2>2, FamiliesFacts
  <2>8. 16 * h + k # 255 BY <2>2
  <2> QED BY <2>3, <2>4, <2>5, <2>6, <2>7, <2>8, ZenonT(60) DEF END_OF_CODE
<1>4. CASE i.op # "EOF" /\ i.op \notin Grouped
  <2>1. PICK h \in DOMAIN Rows : \E k \in 1..Len(Rows[h]) : Rows[h][k] = i.op BY <1>4, RowOf DEF Formed
  <2>2. PICK k \in 1..Len(Rows[h]) : Rows[h][k] = i.op BY <2>1
  <2>3. PICK s \in Seq(Ops) : s = Rows[h] BY RowsDistinct
  <2>4. Len(s) \in 1..16 /\ k \in 1..Len(s) /\ s[k] = i.op BY <2>2, <2>3, RowsDistinct
  <2>5. \A j \in 1..Len(s) : s[j] = s[k] => j = k BY <2>3, <2>4, RowsDistinct
  <2>6. IndexIn(s, i.op) = k - 1
    <3>1. IndexIn(s, s[k]) = k - 1 BY <2>4, <2>5, PlaceIn
    <3> QED BY <2>4, <3>1
  <2>7. (CHOOSE g \in DOMAIN Rows : i.op \in Range(Rows[g])) = h
    <3>1. i.op \in Range(Rows[h]) BY <2>3, <2>4, AtPlace
    <3>2. ASSUME NEW g \in DOMAIN Rows, i.op \in Range(Rows[g]) PROVE g = h
      <4>1. Rows[g] \in Seq(Ops) BY RowsDistinct
      <4>2. PICK l \in 1..Len(Rows[g]) : Rows[g][l] = i.op BY <3>2, <4>1, AtPlace
      <4> QED BY <2>2, <4>2, RowsDistinct
    <3> QED BY <3>1, <3>2
  <2>8. i.op \notin DOMAIN Families BY <1>4, FamiliesFacts
  <2>9. Opcode(i) = 16 * h + (k - 1) BY <1>4, <2>3, <2>6, <2>7, <2>8 DEF Opcode
  <2>10. h \in {1, 5, 7} BY RowsFacts
  <2>11. PICK m \in 0..15 : m = k - 1
    <3>1. PICK n \in 1..16 : n = Len(s) BY <2>4
    <3>2. k \in 1..n BY <2>4, <3>1
    <3>3. k - 1 \in 0..15 BY <3>2
    <3> QED BY <3>3
  <2>12. h \in 0..15 BY <2>10
  <2>13. 16 * h + m \in 0..255 /\ (16 * h + m) \div 16 = h /\ (16 * h + m) % 16 = m BY <2>12, ByHighBits
  <2>14. \A f \in DOMAIN Families : Families[f] # h BY <1>1, <2>10
  <2>15. m + 1 = k /\ k <= Len(Rows[h]) BY <2>3, <2>4, <2>11
  <2>16. TypeAt(16 * h + m) = Rows[h][k] BY <2>13, <2>14, <2>15 DEF TypeAt
  <2>17. 16 * h + m # 255 BY <2>10
  <2> QED BY <1>4, <2>2, <2>9, <2>11, <2>13, <2>16, <2>17 DEF END_OF_CODE
<1> QED BY <1>2, <1>3, <1>4

-----------------------------------------------------------------------------
(* The bytes of a sequence of instructions: those of each after those before. *)

\* g holds at each k the first k elements of s, one after the other.
Joins(g, s, S) ==
  /\ g[0] = <<>>
  /\ \A k \in 0..Len(s) : g[k] \in Seq(S)
  /\ \A k \in 1..Len(s) : g[k] = g[k - 1] \o s[k]

\* There is such a function for every sequence of sequences.
LEMMA JoinsExist ==
  ASSUME NEW S, NEW s \in Seq(Seq(S))
  PROVE  \E g : Joins(g, s, S)
<1> DEFINE L == Len(s)
           step == [n \in 1..L |-> [t \in Seq(S) |-> t \o s[n]]]
<1>1. L \in Nat /\ \A n \in 1..L : s[n] \in Seq(S) OBVIOUS
<1>2. \A n \in 1..L : \A t \in Seq(S) : step[n][t] = t \o s[n] OBVIOUS
<1> HIDE DEF step, L
<1>3. \A n \in 1..L : \A t \in Seq(S) : step[n][t] \in Seq(S)
  <2> SUFFICES ASSUME NEW n \in 1..L, NEW t \in Seq(S) PROVE step[n][t] \in Seq(S) OBVIOUS
  <2>1. PICK u \in Seq(S) : u = s[n] BY <1>1
  <2>2. t \o u \in Seq(S) OBVIOUS
  <2> QED BY <1>2, <2>1, <2>2
<1>4. <<>> \in Seq(S) OBVIOUS
<1>5. PICK g : IsRecursion(g, L, Seq(S), <<>>, step) BY <1>1, <1>3, <1>4, Recursion
<1>6. \A k \in 0..L : g[k] \in Seq(S) BY <1>5 DEF IsRecursion
<1>7. \A k \in 1..L : g[k] = g[k - 1] \o s[k]
  <2> SUFFICES ASSUME NEW k \in 1..L PROVE g[k] = g[k - 1] \o s[k] OBVIOUS
  <2>1. k - 1 \in 0..L BY <1>1
  <2>2. PICK t \in Seq(S) : t = g[k - 1] BY <1>6, <2>1
  <2>3. g[k] = step[k][t] BY <1>5, <2>2 DEF IsRecursion
  <2> QED BY <1>2, <2>2, <2>3
<1> QED BY <1>5, <1>6, <1>7 DEF Joins, IsRecursion, L

\* FlattenSeq joins all of them.
LEMMA FlattenJoins ==
  ASSUME NEW S, NEW s \in Seq(Seq(S)), NEW g, Joins(g, s, S)
  PROVE  FlattenSeq(s) = g[Len(s)]
<1> DEFINE L == Len(s)
           Sat(f) == f = [i \in 1..L |-> IF i = 1 THEN s[i] ELSE f[i - 1] \o s[i]]
<1>1. L \in Nat /\ \A n \in 1..L : s[n] \in Seq(S) OBVIOUS
<1>2. CASE L = 0
  <2>1. FlattenSeq(s) = s BY <1>2 DEF FlattenSeq
  <2>2. s = <<>> BY <1>2
  <2> QED BY <1>2, <2>1, <2>2 DEF Joins
<1>3. CASE L # 0
  <2> DEFINE f == CHOOSE h : Sat(h)
             h == [i \in 1..L |-> g[i]]
  <2>1. FlattenSeq(s) = f[L] BY <1>3 DEF FlattenSeq
  <2> HIDE DEF L
  <2>2. \A i \in 1..L : g[i] = g[i - 1] \o s[i] BY DEF Joins, L
  <2>3. g[1] = s[1]
    <3>1. 1 \in 1..L /\ 1 - 1 = 0 BY <1>1, <1>3
    <3>2. g[1] = <<>> \o s[1] BY <2>2, <3>1 DEF Joins
    <3>3. PICK u \in Seq(S) : u = s[1] BY <1>1, <3>1
    <3>4. <<>> \o u = u OBVIOUS
    <3> QED BY <3>2, <3>3, <3>4
  <2>4. Sat(h)
    <3>1. \A i \in 1..L : i # 1 => i - 1 \in 1..L BY <1>1
    <3>2. \A i \in 1..L : h[i] = IF i = 1 THEN s[i] ELSE h[i - 1] \o s[i] BY <2>2, <2>3, <3>1
    <3> QED BY <3>2
  <2>5. \E x : Sat(x) BY <2>4
  <2>6. Sat(f)
    <3> HIDE DEF Sat
    <3> QED BY <2>5
  <2> HIDE DEF f
  <2> DEFINE T == {n \in 0..L : n = 0 \/ f[n] = g[n]}
  <2>7. 0 \in T BY <1>1
  <2>8. \A n \in 0..L : n < L /\ n \in T => n + 1 \in T
    <3> SUFFICES ASSUME NEW n \in 0..L, n < L, n \in T PROVE n + 1 \in T OBVIOUS
    <3>1. n + 1 \in 1..L /\ n + 1 \in 0..L /\ (n + 1) - 1 = n
      <4>1. PICK d \in Nat : d = L BY <1>1
      <4>2. n \in 0..d /\ n < d BY <4>1
      <4>3. n + 1 \in 1..d /\ n + 1 \in 0..d /\ (n + 1) - 1 = n BY <4>2
      <4> QED BY <4>1, <4>3
    <3>2. f[n + 1] = IF n + 1 = 1 THEN s[n + 1] ELSE f[(n + 1) - 1] \o s[n + 1] BY <2>6, <3>1
    <3>3. CASE n = 0
      <4>1. n + 1 = 1 BY <3>3
      <4>2. f[1] = s[1] BY <3>2, <4>1
      <4> QED BY <2>3, <3>1, <4>1, <4>2
    <3>4. CASE n # 0
      <4>1. n + 1 # 1 BY <3>4
      <4>2. f[n + 1] = g[n] \o s[n + 1] BY <3>1, <3>2, <3>4, <4>1
      <4> QED BY <2>2, <3>1, <4>2
    <3> QED BY <3>3, <3>4
  <2> HIDE DEF T
  <2>9. 0..L \subseteq T BY <1>1, <2>7, <2>8, IntervalInduction
  <2>10. L \in T BY <1>1, <2>9
  <2> QED BY <1>3, <2>1, <2>10 DEF T, L
<1> QED BY <1>2, <1>3

\* A prefix of s joins to the same.
LEMMA FlattenPrefix ==
  ASSUME NEW S, NEW s \in Seq(Seq(S)), NEW g, Joins(g, s, S), NEW k \in 0..Len(s)
  PROVE  FlattenSeq(SubSeq(s, 1, k)) = g[k]
<1>1. PICK t : t = SubSeq(s, 1, k) OBVIOUS
<1>2. t \in Seq(Seq(S)) /\ Len(t) = k /\ \A i \in 1..k : t[i] = s[i] BY <1>1
<1>3. \A i \in 0..k : i \in 0..Len(s) OBVIOUS
<1>4. \A i \in 1..k : i \in 1..Len(s) OBVIOUS
<1>5. Joins(g, t, S) BY <1>2, <1>3, <1>4 DEF Joins
<1> QED BY <1>1, <1>2, <1>5, FlattenJoins

\* The elements of the k-th are found after those of the ones before.
LEMMA FlattenAt ==
  ASSUME NEW S, NEW s \in Seq(Seq(S)), NEW g, Joins(g, s, S), NEW k \in 1..Len(s), NEW m \in 1..Len(s[k])
  PROVE  FlattenSeq(s)[Len(g[k - 1]) + m] = s[k][m]
<1>1. PICK L \in Nat : L = Len(s) OBVIOUS
<1>2. PICK j \in Nat : j = Len(g[k - 1]) + m
  <2>1. k - 1 \in 0..Len(s) OBVIOUS
  <2>2. PICK u \in Seq(S) : u = g[k - 1] BY <2>1 DEF Joins
  <2> QED BY <2>2
<1> DEFINE T == {n \in 0..L : n >= k => j \in 1..Len(g[n]) /\ g[n][j] = s[k][m]}
<1>3. \A n \in 0..L : g[n] \in Seq(S) BY <1>1 DEF Joins
<1>4. \A n \in 1..L : g[n] = g[n - 1] \o s[n] /\ s[n] \in Seq(S)
  <2>1. \A n \in 1..L : s[n] \in Seq(S) BY <1>1
  <2>2. \A n \in 1..L : g[n] = g[n - 1] \o s[n] BY <1>1 DEF Joins
  <2> QED BY <2>1, <2>2
<1>5. j \in 1..Len(g[k]) /\ g[k][j] = s[k][m]
  <2>1. k - 1 \in 0..L /\ k \in 1..L BY <1>1
  <2>2. PICK u \in Seq(S) : u = g[k - 1] BY <1>3, <2>1
  <2>3. PICK v \in Seq(S) : v = s[k] BY <1>4, <2>1
  <2>4. g[k] = u \o v BY <1>4, <2>1, <2>2, <2>3
  <2>5. m \in 1..Len(v) /\ j = Len(u) + m BY <1>2, <2>2, <2>3
  <2>6. j \in 1..Len(u \o v) /\ (u \o v)[j] = v[m] BY <2>5
  <2> QED BY <2>3, <2>4, <2>6
<1>6. 0 \in T OBVIOUS
<1>7. \A n \in 0..L : n < L /\ n \in T => n + 1 \in T
  <2> SUFFICES ASSUME NEW n \in 0..L, n < L, n \in T PROVE n + 1 \in T OBVIOUS
  <2>0. n + 1 \in 0..L /\ (n >= k => j \in 1..Len(g[n]) /\ g[n][j] = s[k][m]) OBVIOUS
  <2> SUFFICES ASSUME n + 1 >= k PROVE j \in 1..Len(g[n + 1]) /\ g[n + 1][j] = s[k][m]
    BY <2>0
  <2>1. CASE n + 1 = k BY <1>5, <2>1
  <2>2. CASE n >= k
    <3>1. n + 1 \in 1..L /\ (n + 1) - 1 = n OBVIOUS
    <3>2. PICK u \in Seq(S) : u = g[n] BY <1>3
    <3>3. PICK v \in Seq(S) : v = s[n + 1] BY <1>4, <3>1
    <3>4. g[n + 1] = u \o v BY <1>4, <3>1, <3>2, <3>3
    <3>5. j \in 1..Len(u) /\ u[j] = s[k][m] BY <2>0, <2>2, <3>2
    <3>6. j \in 1..Len(u \o v) /\ (u \o v)[j] = u[j] BY <3>5
    <3> QED BY <3>4, <3>5, <3>6
  <2>3. k \in Nat OBVIOUS
  <2> QED BY <2>1, <2>2, <2>3
<1> HIDE DEF T
<1>8. 0..L \subseteq T BY <1>6, <1>7, IntervalInduction
<1>9. L \in T /\ L >= k BY <1>1, <1>8
<1>10. g[L][j] = s[k][m] BY <1>9 DEF T
<1> QED BY <1>1, <1>2, <1>10, FlattenJoins

\* Every cell of every element of s is where g says.
Placed(g, s) == \A k \in 1..Len(s) : \A m \in 1..Len(s[k]) :
                  FlattenSeq(s)[Len(g[k - 1]) + m] = s[k][m]

LEMMA FlattenPlaced ==
  ASSUME NEW S, NEW s \in Seq(Seq(S))
  PROVE  \E g : Joins(g, s, S) /\ Placed(g, s)
<1>1. PICK g : Joins(g, s, S) BY JoinsExist
<1>2. Placed(g, s) BY <1>1, FlattenAt DEF Placed
<1> QED BY <1>1, <1>2

-----------------------------------------------------------------------------
(* The shape of an instruction *)

Args(i) ==
  CASE i.op \in {"CALL", "SEXP", "TAG", "FAIL"} \cup Begins -> <<i.a, i.b>>
    [] i.op = "CLOSURE" -> <<i.a, Len(i.caps)>> \o
         FlattenSeq([k \in DOMAIN i.caps |->
                       <<IndexIn(LowBits, i.caps[k].mem_var), i.caps[k].value>>])
    [] i.op \in {"CONST", "STRING", "JMP", "CALLC", "CALL_ARRAY", "ARRAY", "LINE"}
                  \cup CondJumps \cup Variables -> <<i.a>>
    [] OTHER -> <<>>

Captured(caps) == [k \in DOMAIN caps |-> <<IndexIn(LowBits, caps[k].mem_var), caps[k].value>>]

\* The captures of a closure are two cells each.
LEMMA CapturedCells ==
  ASSUME NEW caps \in Seq(Capture)
  PROVE  LET c == FlattenSeq(Captured(caps))
         IN  /\ c \in Seq(Nat)
             /\ Len(c) = 2 * Len(caps)
             /\ \A k \in 1..Len(caps) : /\ c[2 * k - 1] = IndexIn(LowBits, caps[k].mem_var)
                                        /\ c[2 * k] = caps[k].value
<1>1. PICK L \in Nat : L = Len(caps) /\ DOMAIN caps = 1..L OBVIOUS
<1>2. \A k \in 1..L : caps[k] \in Capture BY <1>1
<1>3. \A k \in 1..L : caps[k].mem_var \in Designations /\ caps[k].value \in Nat BY <1>2 DEF Capture
<1>4. \A k \in 1..L : IndexIn(LowBits, caps[k].mem_var) \in Nat
  <2> SUFFICES ASSUME NEW k \in 1..L PROVE IndexIn(LowBits, caps[k].mem_var) \in Nat OBVIOUS
  <2>1. IndexIn(LowBits, caps[k].mem_var) \in 0..3 BY <1>3, LowBitsTell
  <2> QED BY <2>1
<1>5. PICK s : s = Captured(caps) OBVIOUS
<1>6. s = [k \in 1..L |-> <<IndexIn(LowBits, caps[k].mem_var), caps[k].value>>]
  BY <1>1, <1>5 DEF Captured
<1>7. \A k \in 1..L : /\ s[k] \in Seq(Nat) /\ Len(s[k]) = 2
                      /\ s[k][1] = IndexIn(LowBits, caps[k].mem_var) /\ s[k][2] = caps[k].value
  <2> SUFFICES ASSUME NEW k \in 1..L
               PROVE  /\ s[k] \in Seq(Nat) /\ Len(s[k]) = 2
                      /\ s[k][1] = IndexIn(LowBits, caps[k].mem_var) /\ s[k][2] = caps[k].value
    OBVIOUS
  <2>1. PICK x \in Nat : x = IndexIn(LowBits, caps[k].mem_var) BY <1>4
  <2>2. PICK y \in Nat : y = caps[k].value BY <1>3
  <2>3. s[k] = <<x, y>> BY <1>6, <2>1, <2>2
  <2> QED BY <2>1, <2>2, <2>3
<1>8. s \in Seq(Seq(Nat)) /\ Len(s) = L
  <2>1. \A k \in 1..L : <<IndexIn(LowBits, caps[k].mem_var), caps[k].value>> \in Seq(Nat)
    BY <1>6, <1>7
  <2>2. s \in [1..L -> Seq(Nat)] BY <1>6, <2>1
  <2> QED BY <2>2
<1>9. PICK g : Joins(g, s, Nat) BY <1>8, JoinsExist
<1> DEFINE T == {n \in 0..L : Len(g[n]) = 2 * n}
<1>10. /\ g[0] = <<>>
       /\ \A k \in 0..L : g[k] \in Seq(Nat)
       /\ \A k \in 1..L : g[k] = g[k - 1] \o s[k]
  BY <1>8, <1>9 DEF Joins
<1>11. 0 \in T BY <1>10
<1>12. \A n \in 0..L : n < L /\ n \in T => n + 1 \in T
  <2> SUFFICES ASSUME NEW n \in 0..L, n < L, n \in T PROVE n + 1 \in T OBVIOUS
  <2>1. n + 1 \in 1..L /\ n + 1 \in 0..L /\ (n + 1) - 1 = n OBVIOUS
  <2>2. PICK u \in Seq(Nat) : u = g[n] BY <1>10
  <2>3. PICK v \in Seq(Nat) : v = s[n + 1] /\ Len(v) = 2 BY <1>7, <2>1
  <2>4. g[n + 1] = u \o v BY <1>10, <2>1, <2>2, <2>3
  <2>5. Len(u \o v) = Len(u) + Len(v) BY ConcatProperties
  <2>6. Len(u) = 2 * n BY <2>2
  <2>7. Len(g[n + 1]) = 2 * (n + 1) BY <2>3, <2>4, <2>5, <2>6
  <2> QED BY <2>1, <2>7
<1> HIDE DEF T
<1>13. 0..L \subseteq T BY <1>11, <1>12, IntervalInduction
<1>14. \A n \in 0..L : Len(g[n]) = 2 * n BY <1>13 DEF T
<1>15. PICK c : c = FlattenSeq(s) OBVIOUS
<1>16. c = g[L] BY <1>8, <1>9, <1>15, FlattenJoins
<1>17. c \in Seq(Nat) /\ Len(c) = 2 * L BY <1>10, <1>14, <1>16
<1>18. ASSUME NEW k \in 1..L
       PROVE  c[2 * k - 1] = IndexIn(LowBits, caps[k].mem_var) /\ c[2 * k] = caps[k].value
  <2>1. k \in 1..Len(s) /\ k - 1 \in 0..L BY <1>8
  <2>2. 1 \in 1..Len(s[k]) /\ 2 \in 1..Len(s[k]) BY <1>7
  <2>3. c[Len(g[k - 1]) + 1] = s[k][1] /\ c[Len(g[k - 1]) + 2] = s[k][2]
    <3>1. s \in Seq(Seq(Nat)) BY <1>8
    <3>2. FlattenSeq(s)[Len(g[k - 1]) + 1] = s[k][1] BY <1>9, <2>1, <2>2, <3>1, FlattenAt
    <3>3. FlattenSeq(s)[Len(g[k - 1]) + 2] = s[k][2] BY <1>9, <2>1, <2>2, <3>1, FlattenAt
    <3> QED BY <1>15, <3>2, <3>3
  <2>4. Len(g[k - 1]) = 2 * (k - 1) BY <1>14, <2>1
  <2>5. 2 * (k - 1) + 1 = 2 * k - 1 /\ 2 * (k - 1) + 2 = 2 * k OBVIOUS
  <2> QED BY <1>7, <2>3, <2>4, <2>5
<1> QED BY <1>1, <1>5, <1>15, <1>17, <1>18

\* u is c after two cells h.
IsAfterTwo(u, h, c) == /\ Len(u) = Len(h) + Len(c)
                       /\ u[1] = h[1] /\ u[2] = h[2]
                       /\ \A k \in 1..Len(c) : u[k + 2] = c[k]

\* What follows two cells.
LEMMA AfterTwo ==
  ASSUME NEW S, NEW h \in Seq(S), NEW c \in Seq(S), Len(h) = 2
  PROVE  h \o c \in Seq(S) /\ IsAfterTwo(h \o c, h, c)
<1>1. h \o c \in Seq(S) BY ConcatProperties
<1>2. Len(h \o c) = Len(h) + Len(c) BY ConcatProperties
<1>3. PICK n \in Nat : n = Len(c) OBVIOUS
<1>4. \A k \in 1..(Len(h) + Len(c)) : (h \o c)[k] = IF k <= Len(h) THEN h[k] ELSE c[k - Len(h)]
  BY ConcatProperties
<1>5. \A k \in 1..(2 + n) : (h \o c)[k] = IF k <= 2 THEN h[k] ELSE c[k - 2] BY <1>3, <1>4
<1>6. 1 \in 1..(2 + n) /\ 2 \in 1..(2 + n) /\ 1 <= 2 /\ 2 <= 2 OBVIOUS
<1>7. \A k \in 1..n : k + 2 \in 1..(2 + n) /\ ~(k + 2 <= 2) /\ (k + 2) - 2 = k OBVIOUS
<1>8. (h \o c)[1] = h[1] BY <1>5, <1>6
<1>9. (h \o c)[2] = h[2] BY <1>5, <1>6
<1>10. \A k \in 1..n : (h \o c)[k + 2] = c[k]
  <2> SUFFICES ASSUME NEW k \in 1..n PROVE (h \o c)[k + 2] = c[k] OBVIOUS
  <2>1. k + 2 \in 1..(2 + n) /\ ~(k + 2 <= 2) /\ (k + 2) - 2 = k BY <1>7
  <2> QED BY <1>5, <2>1
<1> QED BY <1>1, <1>2, <1>3, <1>8, <1>9, <1>10 DEF IsAfterTwo

\* What is written after an opcode, by the readers' kinds of instruction.
LEMMA ArgsShape ==
  ASSUME NEW i \in Instruction
  PROVE  /\ Args(i) \in Seq(Nat)
         /\ i.op \in print_instructions.none \cup {"EOF"} => Len(Args(i)) = 0
         /\ i.op \in print_instructions.one => Len(Args(i)) = 1 /\ Args(i)[1] = i.a
         /\ i.op \in print_instructions.two => Len(Args(i)) = 2 /\ Args(i)[1] = i.a /\ Args(i)[2] = i.b
         /\ i.op = "CLOSURE" => /\ Len(Args(i)) = 2 + 2 * Len(i.caps)
                                /\ Args(i)[1] = i.a /\ Args(i)[2] = Len(i.caps)
                                /\ \A k \in 1..(2 * Len(i.caps)) :
                                     Args(i)[k + 2] = FlattenSeq(Captured(i.caps))[k]
         /\ i.op \in print_instructions.none \cup print_instructions.one \cup print_instructions.two
                     \cup {"CLOSURE", "EOF"}
<1> DEFINE two == {"CALL", "SEXP", "TAG", "FAIL"} \cup Begins
           one == {"CONST", "STRING", "JMP", "CALLC", "CALL_ARRAY", "ARRAY", "LINE"}
                  \cup CondJumps \cup Variables
<1>1. i.op \in Ops /\ i.a \in Nat /\ i.b \in Nat /\ i.caps \in Seq(Capture) BY DEF Instruction
<1>2. /\ print_instructions.two = two
      /\ print_instructions.one = one
      /\ print_instructions.none = Plain \cup {"RET", "BINOP", "PATT"}
      /\ "CLOSURE" \notin one \cup two
      /\ one \cap two = {}
  BY DEF print_instructions, Begins, CondJumps, Variables
<1>3. (Plain \cup {"RET", "BINOP", "PATT", "EOF"}) \cap (one \cup two \cup {"CLOSURE"}) = {}
  BY DEF Plain, Begins, CondJumps, Variables
<1>4. i.op \in Plain \cup {"RET", "BINOP", "PATT", "EOF"} \cup one \cup two \cup {"CLOSURE"}
  BY <1>1 DEF Ops, Plain, Begins, CondJumps, Variables, Jumps, Stops
<1>5. Args(i) = CASE i.op \in two -> <<i.a, i.b>>
                  [] i.op = "CLOSURE" -> <<i.a, Len(i.caps)>> \o FlattenSeq(Captured(i.caps))
                  [] i.op \in one -> <<i.a>>
                  [] OTHER -> <<>>
  BY DEF Args, Captured
<1> HIDE DEF one, two
<1>6. CASE i.op \in two
  <2>1. Args(i) = <<i.a, i.b>> BY <1>2, <1>5, <1>6
  <2>2. PICK x \in Nat : x = i.a BY <1>1
  <2>3. PICK y \in Nat : y = i.b BY <1>1
  <2>4. Args(i) \in Seq(Nat) /\ Len(Args(i)) = 2 /\ Args(i)[1] = i.a /\ Args(i)[2] = i.b
    BY <2>1, <2>2, <2>3
  <2> QED BY <1>2, <1>3, <1>6, <2>4
<1>7. CASE i.op \in one
  <2>1. Args(i) = <<i.a>> BY <1>2, <1>5, <1>7
  <2>2. PICK x \in Nat : x = i.a BY <1>1
  <2>3. Args(i) \in Seq(Nat) /\ Len(Args(i)) = 1 /\ Args(i)[1] = i.a BY <2>1, <2>2
  <2> QED BY <1>2, <1>3, <1>7, <2>3
<1>8. CASE i.op = "CLOSURE"
  <2>1. PICK c \in Seq(Nat) : c = FlattenSeq(Captured(i.caps)) /\ Len(c) = 2 * Len(i.caps)
    BY <1>1, CapturedCells
  <2>2. PICK x \in Nat : x = i.a BY <1>1
  <2>3. PICK y \in Nat : y = Len(i.caps) BY <1>1
  <2>4. PICK h \in Seq(Nat) : h = <<x, y>>
    <3>1. <<x, y>> \in Seq(Nat) BY <2>2, <2>3
    <3> QED BY <3>1
  <2>5. Len(h) = 2 /\ h[1] = x /\ h[2] = y BY <2>4
  <2>6. Args(i) = h \o c BY <1>2, <1>5, <1>8, <2>1, <2>2, <2>3, <2>4
  <2>7. /\ h \o c \in Seq(Nat) /\ Len(h \o c) = Len(h) + Len(c)
        /\ (h \o c)[1] = h[1] /\ (h \o c)[2] = h[2]
        /\ \A k \in 1..Len(c) : (h \o c)[k + 2] = c[k]
    <3>1. Len(h) = 2 BY <2>5
    <3>2. h \o c \in Seq(Nat) /\ IsAfterTwo(h \o c, h, c) BY <3>1, AfterTwo
    <3> QED BY <3>2 DEF IsAfterTwo
  <2>8. /\ Args(i) \in Seq(Nat) /\ Len(Args(i)) = 2 + 2 * Len(i.caps)
        /\ Args(i)[1] = i.a /\ Args(i)[2] = Len(i.caps)
        /\ \A k \in 1..(2 * Len(i.caps)) : Args(i)[k + 2] = FlattenSeq(Captured(i.caps))[k]
    BY <2>1, <2>2, <2>3, <2>5, <2>6, <2>7
  <2> QED BY <1>2, <1>3, <1>8, <2>8
<1>9. CASE i.op \in Plain \cup {"RET", "BINOP", "PATT", "EOF"}
  <2>1. Args(i) = <<>> BY <1>3, <1>5, <1>9
  <2>2. Args(i) \in Seq(Nat) /\ Len(Args(i)) = 0 BY <2>1
  <2> QED BY <1>2, <1>3, <1>9, <2>2
<1> QED BY <1>4, <1>6, <1>7, <1>8, <1>9

\* An instruction is some cells.
LEMMA EncodeType ==
  ASSUME NEW i \in Instruction, Formed(i)
  PROVE  Encode(i) \in Seq(Nat) /\ Len(Encode(i)) \in Nat \ {0}
<1>1. PICK o \in Nat : o = Opcode(i)
  <2>1. Opcode(i) \in 0..255 BY OpcodeType
  <2>2. \A w \in 0..255 : w \in Nat OBVIOUS
  <2> QED BY <2>1, <2>2
<1>2. PICK r \in Seq(Nat) : r = Args(i) BY ArgsShape
<1>3. Encode(i) = <<o>> \o r BY <1>1, <1>2 DEF Encode, Args
<1>4. <<o>> \o r \in Seq(Nat) /\ Len(<<o>> \o r) = 1 + Len(r) OBVIOUS
<1> QED BY <1>3, <1>4

\* A reader takes what is at an offset for i, and goes on after it.
ReadAs(i, cells, at) ==
  /\ TypeAt(cells[at]) = i.op
  /\ cells[at] = END_OF_CODE <=> i.op = "EOF"
  /\ Passed(print_instructions, cells, at) = IF i.op = "EOF" THEN 0 ELSE at + Len(Encode(i))

\* Where a reader goes from an instruction that begins at an offset at.
LEMMA PassedInstruction ==
  ASSUME NEW i \in Instruction, Formed(i), NEW at \in Nat \ {0}, NEW cells,
         \A m \in 1..Len(Encode(i)) : cells[at - 1 + m] = Encode(i)[m]
  PROVE  ReadAs(i, cells, at)
<1>1. PICK o \in Nat : o = Opcode(i) /\ TypeAt(o) = i.op /\ (o = END_OF_CODE <=> i.op = "EOF")
  <2>1. Opcode(i) \in 0..255 BY OpcodeType
  <2>2. \A w \in 0..255 : w \in Nat OBVIOUS
  <2>3. Opcode(i) \in Nat BY <2>1, <2>2
  <2> QED BY <2>3, OpcodeType
<1>2. PICK r \in Seq(Nat) : r = Args(i) BY ArgsShape
<1>3. PICK e \in Seq(Nat) : e = Encode(i) /\ e = <<o>> \o r
  <2>1. Encode(i) = <<Opcode(i)>> \o Args(i) BY DEF Encode, Args
  <2>2. <<o>> \o r \in Seq(Nat) OBVIOUS
  <2> QED BY <1>1, <1>2, <2>1, <2>2
<1>4. Len(e) = 1 + Len(r) /\ e[1] = o /\ \A m \in 1..Len(r) : e[m + 1] = r[m] BY <1>3
<1>5. \A m \in 1..Len(e) : cells[at - 1 + m] = e[m] BY <1>3
<1>6. cells[at] = o
  <2>1. 1 \in 1..Len(e) /\ at - 1 + 1 = at BY <1>4
  <2> QED BY <1>4, <1>5, <2>1
<1>7. TypeAt(cells[at]) = i.op BY <1>1, <1>6
<1> DEFINE none == print_instructions.none
           one == print_instructions.one
           two == print_instructions.two
<1>8. Passed(print_instructions, cells, at) =
        CASE i.op \in none -> at + 1
          [] i.op \in one -> at + 2
          [] i.op \in two -> at + 3
          [] i.op = "CLOSURE" -> at + 3 + 2 * cells[at + 2]
          [] OTHER -> 0
  BY <1>7 DEF Passed
<1>9. /\ none \cap one = {} /\ none \cap two = {} /\ one \cap two = {}
      /\ "CLOSURE" \notin none \cup one \cup two /\ "EOF" \notin none \cup one \cup two
  BY DEF print_instructions, Plain
<1>10. i.op \in none \cup one \cup two \cup {"CLOSURE", "EOF"} BY ArgsShape
<1> HIDE DEF none, one, two
<1>11. CASE i.op = "EOF"
  BY <1>1, <1>3, <1>4, <1>6, <1>8, <1>9, <1>11 DEF ReadAs
<1>12. CASE i.op \in none
  <2>1. Len(r) = 0 BY <1>2, <1>12, ArgsShape DEF none
  <2> QED BY <1>1, <1>3, <1>4, <1>6, <1>8, <1>9, <1>12, <2>1 DEF ReadAs
<1>13. CASE i.op \in one
  <2>1. Len(r) = 1 BY <1>2, <1>13, ArgsShape DEF one
  <2> QED BY <1>1, <1>3, <1>4, <1>6, <1>8, <1>9, <1>13, <2>1 DEF ReadAs
<1>14. CASE i.op \in two
  <2>1. Len(r) = 2 BY <1>2, <1>14, ArgsShape DEF two
  <2> QED BY <1>1, <1>3, <1>4, <1>6, <1>8, <1>9, <1>14, <2>1 DEF ReadAs
<1>15. CASE i.op = "CLOSURE"
  <2>1. PICK n \in Nat : n = Len(i.caps)
    <3>1. i.caps \in Seq(Capture) BY DEF Instruction
    <3> QED BY <3>1
  <2>2. Len(r) = 2 + 2 * n /\ r[2] = n BY <1>2, <1>15, <2>1, ArgsShape
  <2>3. 2 \in 1..Len(r) BY <2>1, <2>2
  <2>4. e[3] = n /\ 3 \in 1..Len(e) BY <1>4, <2>1, <2>2, <2>3
  <2>5. cells[at + 2] = n
    <3>1. at - 1 + 3 = at + 2 OBVIOUS
    <3> QED BY <1>5, <2>4, <3>1
  <2>6. Passed(print_instructions, cells, at) = at + 3 + 2 * n BY <1>8, <1>9, <1>15, <2>5
  <2>7. Len(e) = 3 + 2 * n BY <1>4, <2>2
  <2>8. at + 3 + 2 * n = at + Len(e) /\ Len(e) \in Nat \ {0} BY <2>7
  <2> QED BY <1>1, <1>3, <1>6, <1>15, <2>6, <2>8 DEF ReadAs
<1> QED BY <1>10, <1>11, <1>12, <1>13, <1>14, <1>15

-----------------------------------------------------------------------------
(* The program, with its modes *)

\* A mode is a step of the analyzer, or leaves its variables.
LEMMA ModesAnalyze ==
  /\ ModesInit => Init
  /\ [ModesNext]_modeVars => [Next]_vars
<1>1. ModesInit => Init BY DEF ModesInit
<1>2. [ModesNext]_modeVars => [Next]_vars
  BY DEF ModesNext, modeVars, Analyze_a, PrintInstruction, PrintEnd, Printed_p
<1> QED BY <1>1, <1>2

\* All that is proved of the analyzer holds of the program in its two modes.
THEOREM ModesRunAnalyzer == ModesSpec => Spec
BY ModesAnalyze, PTL DEF ModesSpec, Spec

\* The bytes are those of the program.
Encoded == bytes = [i \in Offsets |-> Encode(program[i])]

\* Once the analysis ends, the bytes of two instructions are compared as a strict
\* weak order would, in which equal instructions alone are equivalent.
THEOREM OrdersAreStrict ==
  ASSUME \A p \in Programs : Readable(p)
  PROVE  ModesSpec => []ComparatorsAreOrders
<1> DEFINE J == IInv /\ Encoded
<1>1. Init => J
  <2>1. Init => Encoded BY DEF Init, Encoded
  <2> QED BY <2>1, Initially
<1>2. J /\ [Next]_vars => J'
  <2> SUFFICES ASSUME IInv, Encoded, [Next]_vars PROVE IInv' /\ Encoded' OBVIOUS
  <2>1. IInv' BY Steps
  <2>2. UNCHANGED file BY FileKept
  <2>3. Encoded' BY <2>2 DEF Encoded, file, Offsets
  <2> QED BY <2>1, <2>3
<1>3. J => ComparatorsAreOrders
  <2> SUFFICES ASSUME IInv, Encoded, phase = "done", NEW pair \in BOOLEAN
               PROVE  LET S == Range(IF pair THEN collect_pairs ELSE collect_single)
                          before == {ij \in S \X S : Cmp(ij[1], ij[2], pair)}
                      IN  /\ \A ij \in before : <<ij[2], ij[1]>> \notin before
                          /\ \A ij \in before : \A k \in S : <<ij[2], k>> \in before => <<ij[1], k>> \in before
                          /\ \A i, j \in S : ({<<i, j>>, <<j, i>>} \cap before = {}) <=>
                               (program[i] = program[j] /\ (pair => program[i + 1] = program[j + 1]))
    BY DEF ComparatorsAreOrders
  <2> DEFINE S == Range(IF pair THEN collect_pairs ELSE collect_single)
             before == {ij \in S \X S : Cmp(ij[1], ij[2], pair)}
  <2>1. BytesInv BY BytesTell DEF IInv, Encoded
  <2>2. Done = Known /\ Known = Reachable /\ CodeFacts BY AllCollected
  <2>3. /\ collect_single \in Seq(Offsets) /\ collect_pairs \in Seq(Offsets)
        /\ Range(collect_pairs) \subseteq {i \in Done : Falls(i) # {}}
    BY DEF IInv, WalkInv, PairsInv
  <2>4. S \in SUBSET Offsets
    <3>1. CASE pair BY <2>3, <3>1, AtPlace
    <3>2. CASE ~pair BY <2>3, <3>2, AtPlace
    <3> QED BY <3>1, <3>2
  <2>5. pair => \A i \in S : i + 1 \in Offsets
    <3> SUFFICES ASSUME pair, NEW i \in S PROVE i + 1 \in Offsets OBVIOUS
    <3>1. i \in Range(collect_pairs) OBVIOUS
    <3>2. Falls(i) # {} /\ i \in Offsets BY <2>3, <2>4, <3>1
    <3>3. program[i].op # "EOF" BY <3>2 DEF Falls
    <3> QED BY <2>2, <3>2, <3>3, GoesInCode
  <2> HIDE DEF S
  <2>6. Orders(S, pair) BY <2>1, <2>4, <2>5, CmpOrders
  <2>7. \A i, j \in S : <<i, j>> \in before <=> Cmp(i, j, pair) OBVIOUS
  <2>8. \A ij \in before : ij[1] \in S /\ ij[2] \in S /\ Cmp(ij[1], ij[2], pair) OBVIOUS
  <2> HIDE DEF before
  <2>9. \A ij \in before : <<ij[2], ij[1]>> \notin before BY <2>6, <2>7, <2>8 DEF Orders
  <2>10. \A ij \in before : \A k \in S : <<ij[2], k>> \in before => <<ij[1], k>> \in before
    BY <2>6, <2>7, <2>8 DEF Orders
  <2>11. \A i, j \in S : ({<<i, j>>, <<j, i>>} \cap before = {}) <=> Same(pair, i, j)
    <3> SUFFICES ASSUME NEW i \in S, NEW j \in S
                 PROVE  ({<<i, j>>, <<j, i>>} \cap before = {}) <=> Same(pair, i, j)
      OBVIOUS
    <3>1. Same(pair, i, j) <=> ~Cmp(i, j, pair) /\ ~Cmp(j, i, pair) BY <2>6 DEF Orders
    <3>2. (<<i, j>> \in before <=> Cmp(i, j, pair)) /\ (<<j, i>> \in before <=> Cmp(j, i, pair)) BY <2>7
    <3>3. ({<<i, j>>, <<j, i>>} \cap before = {}) <=> <<i, j>> \notin before /\ <<j, i>> \notin before OBVIOUS
    <3> QED BY <3>1, <3>2, <3>3
  <2>12. \A i, j : Same(pair, i, j) <=> program[i] = program[j] /\ (pair => program[i + 1] = program[j + 1])
    BY DEF Same
  <2> QED BY <2>9, <2>10, <2>11, <2>12 DEF S, before
<1> QED BY <1>1, <1>2, <1>3, ModesAnalyze, PTL DEF ModesSpec

\* The four readers pass over the same bytes, but that RET has no handler.
THEOREM ReadersAlike == ModesSpec => []ReadersAgree
<1>1. ReadersAgree
  <2> DEFINE t == TypeAt(code[code_ptr])
  <2>1. /\ general_byterun.none = print_instructions.none
        /\ general_byterun.one = print_instructions.one
        /\ general_byterun.two = print_instructions.two
    BY DEF general_byterun, print_instructions
  <2>2. Passed(general_byterun, code, code_ptr) = Passed(print_instructions, code, code_ptr)
    BY <2>1 DEF Passed
  <2>3. /\ handlers.none = print_instructions.none \ {"RET"}
        /\ handlers.one = print_instructions.one
        /\ handlers.two = print_instructions.two
    BY DEF handlers, print_instructions, Plain, Variables, Begins
  <2>4. /\ "RET" \in print_instructions.none
        /\ "RET" \notin print_instructions.one \cup print_instructions.two \cup {"CLOSURE"}
    BY DEF print_instructions, Begins
  <2>5. Passed(handlers, code, code_ptr) = IF t = "RET" THEN 0 ELSE Passed(print_instructions, code, code_ptr)
    <3>1. CASE t = "RET" BY <2>3, <2>4, <3>1 DEF Passed
    <3>2. CASE t # "RET"
      <4>1. t \in handlers.none <=> t \in print_instructions.none BY <2>3, <3>2
      <4> QED BY <2>3, <3>2, <4>1 DEF Passed
    <3> QED BY <3>1, <3>2
  <2> QED BY <2>2, <2>5 DEF ReadersAgree
<1> QED BY <1>1, PTL

-----------------------------------------------------------------------------
(* The listing *)

Start(k) == Len(FlattenSeq(SubSeq(bytes, 1, k - 1))) + 1

\* The printer is at the beginning of an instruction, has printed those before it,
\* and ends at the last.
PrintedTo(k) == /\ code_ptr = Start(k)
                /\ listing = [j \in 1..(k - 1) |-> <<Start(j), program[j].op>>]
                /\ ended \in {"", "<end>"}
                /\ ended = "<end>" => k = Len(program)
PrintInv == /\ FileInv /\ Encoded
            /\ mode = "-p" => \E k \in 1..Len(program) : PrintedTo(k)
            /\ mode # "-p" => ended = ""

\* The bytes of the instructions are those of the code, one after the other.
LEMMA CodeAt ==
  ASSUME FileInv, Encoded, \A p \in Programs : \A i \in DOMAIN p : Formed(p[i]), NEW k \in 1..Len(program)
  PROVE  /\ Start(k) \in Nat \ {0}
         /\ TypeAt(code[Start(k)]) = program[k].op
         /\ code[Start(k)] = END_OF_CODE <=> k = Len(program)
         /\ Passed(print_instructions, code, Start(k)) = IF k = Len(program) THEN 0 ELSE Start(k + 1)
<1>1. CodeFacts BY CodeOf
<1>2. program \in Seq(Instruction) BY AnalyzerAssumption DEF FileInv, IsCode
<1>3. PICK L \in Nat : L = Len(program) /\ L # 0 /\ Offsets = 1..L BY <1>1 DEF CodeFacts
<1>4. \A i \in 1..L : program[i] \in Instruction /\ Formed(program[i]) BY <1>2, <1>3 DEF FileInv, Offsets
<1>5. \A i \in 1..L : Encode(program[i]) \in Seq(Nat) /\ Len(Encode(program[i])) \in Nat \ {0}
  BY <1>4, EncodeType
<1>6. PICK s : s = bytes OBVIOUS
<1>7. s = [i \in 1..L |-> Encode(program[i])] BY <1>3, <1>6 DEF Encoded
<1>8. s \in Seq(Seq(Nat)) /\ Len(s) = L
  <2>1. s \in [1..L -> Seq(Nat)] BY <1>5, <1>7
  <2> QED BY <2>1
<1>9. PICK g : Joins(g, s, Nat) /\ Placed(g, s)
  <2>1. s \in Seq(Seq(Nat)) BY <1>8
  <2> QED BY <2>1, FlattenPlaced
<1>10. \A j \in 1..Len(s) : \A m \in 1..Len(s[j]) : FlattenSeq(s)[Len(g[j - 1]) + m] = s[j][m]
  BY <1>9 DEF Placed
<1>11. /\ g[0] = <<>>
       /\ \A j \in 0..L : g[j] \in Seq(Nat)
       /\ \A j \in 1..L : g[j] = g[j - 1] \o s[j]
  BY <1>8, <1>9 DEF Joins
<1>12. \A j \in 0..L : Start(j + 1) = Len(g[j]) + 1
  <2> SUFFICES ASSUME NEW j \in 0..L PROVE Start(j + 1) = Len(g[j]) + 1 OBVIOUS
  <2>1. (j + 1) - 1 = j OBVIOUS
  <2>2. FlattenSeq(SubSeq(s, 1, j)) = g[j] BY <1>8, <1>9, FlattenPrefix
  <2> QED BY <1>6, <2>1, <2>2 DEF Start
<1>13. k \in 1..L /\ k - 1 \in 0..L /\ (k - 1) + 1 = k /\ k \in 0..L BY <1>3
<1>14. PICK u \in Seq(Nat) : u = g[k - 1] BY <1>11, <1>13
<1>15. PICK e \in Seq(Nat) : e = Encode(program[k]) /\ Len(e) \in Nat \ {0} BY <1>5, <1>13
<1>16. s[k] = e BY <1>7, <1>13, <1>15
<1>17. Start(k) = Len(u) + 1
  <2>1. Start((k - 1) + 1) = Len(g[k - 1]) + 1 BY <1>12, <1>13
  <2> QED BY <1>13, <1>14, <2>1
<1>18. Start(k + 1) = Len(u) + Len(e) + 1
  <2>1. g[k] = u \o e BY <1>11, <1>13, <1>14, <1>16
  <2>2. Len(u \o e) = Len(u) + Len(e) BY ConcatProperties
  <2>3. Start(k + 1) = Len(g[k]) + 1 BY <1>12, <1>13
  <2> QED BY <2>1, <2>2, <2>3
<1>19. PICK at \in Nat \ {0} : at = Start(k) /\ at - 1 = Len(u) /\ Start(k + 1) = at + Len(e)
  BY <1>17, <1>18
<1>20. \A m \in 1..Len(e) : code[at - 1 + m] = e[m]
  <2> SUFFICES ASSUME NEW m \in 1..Len(e) PROVE code[at - 1 + m] = e[m] OBVIOUS
  <2>1. k \in 1..Len(s) /\ m \in 1..Len(s[k]) BY <1>8, <1>13, <1>16
  <2>2. FlattenSeq(s)[Len(g[k - 1]) + m] = s[k][m] BY <1>10, <2>1
  <2> QED BY <1>6, <1>14, <1>16, <1>19, <2>2 DEF code
<1>21. PICK i \in Instruction : i = program[k] /\ Formed(i) BY <1>4, <1>13
<1>22. i.op = "EOF" <=> k = Len(program) BY <1>1, <1>3, <1>13, <1>21 DEF CodeFacts
<1>23. /\ TypeAt(code[at]) = i.op
       /\ code[at] = END_OF_CODE <=> i.op = "EOF"
       /\ Passed(print_instructions, code, at) = IF i.op = "EOF" THEN 0 ELSE at + Len(e)
  <2>1. \A m \in 1..Len(Encode(i)) : code[at - 1 + m] = Encode(i)[m] BY <1>15, <1>20, <1>21
  <2>2. Formed(i) BY <1>21
  <2>3. ReadAs(i, code, at) BY <2>1, <2>2, PassedInstruction
  <2>4. Len(Encode(i)) = Len(e) BY <1>15, <1>21
  <2> QED BY <2>3, <2>4 DEF ReadAs
<1> QED BY <1>19, <1>21, <1>22, <1>23

\* One more element of a sequence given by its elements.
LEMMA AppendedNext ==
  ASSUME NEW k \in Nat \ {0}, NEW f
  PROVE  Append([j \in 1..(k - 1) |-> f[j]], f[k]) = [j \in 1..k |-> f[j]]
OBVIOUS

\* What -p prints is each instruction of the code once, in order, and then the
\* end, if the low bits of its instructions mean something.
THEOREM ListsProgram ==
  ASSUME \A p \in Programs : \A i \in DOMAIN p : Formed(p[i])
  PROVE  ModesSpec => []ListingIsProgram
<1>1. ModesInit => PrintInv
  <2> SUFFICES ASSUME ModesInit PROVE PrintInv OBVIOUS
  <2>1. FileInv /\ Encoded BY DEF ModesInit, Init, FileInv, Encoded
  <2>2. CodeFacts BY <2>1, CodeOf
  <2>3. 1 \in 1..Len(program) BY <2>2 DEF CodeFacts
  <2>4. Start(1) = 1
    <3>1. bytes \in Seq({b : b \in {Encode(program[i]) : i \in Offsets}})
      <4>1. PICK n \in Nat : n = Len(program) /\ Offsets = 1..n BY <2>2 DEF CodeFacts
      <4>2. bytes \in [1..n -> {b : b \in {Encode(program[i]) : i \in Offsets}}] BY <2>1, <4>1 DEF Encoded
      <4> QED BY <4>2
    <3>2. SubSeq(bytes, 1, 1 - 1) = <<>> BY <3>1
    <3>3. FlattenSeq(<<>>) = <<>> BY DEF FlattenSeq
    <3>4. PICK z : z = SubSeq(bytes, 1, 1 - 1) /\ z = <<>> BY <3>2
    <3>5. FlattenSeq(z) = <<>> BY <3>3, <3>4
    <3>6. Len(<<>>) + 1 = 1 OBVIOUS
    <3> QED BY <3>4, <3>5, <3>6 DEF Start
  <2>5. PrintedTo(1)
    <3>1. code_ptr = 1 /\ listing = <<>> /\ ended = "" BY DEF ModesInit
    <3>2. PICK f : f = [j \in 1..(1 - 1) |-> <<Start(j), program[j].op>>] OBVIOUS
    <3>3. f = <<>> BY <3>2
    <3> QED BY <2>4, <3>1, <3>2, <3>3 DEF PrintedTo
  <2> QED BY <2>1, <2>3, <2>5 DEF PrintInv, ModesInit
<1>2. PrintInv /\ [ModesNext]_modeVars => PrintInv'
  <2> SUFFICES ASSUME PrintInv, [ModesNext]_modeVars PROVE PrintInv' OBVIOUS
  <2>1. UNCHANGED file /\ mode' = mode
    <3>1. [Next]_vars BY ModesAnalyze
    <3> QED BY <3>1, FileKept DEF ModesNext, modeVars, Analyze_a, PrintInstruction, PrintEnd, Printed_p
  <2>2. FileInv' /\ Encoded' BY <2>1 DEF PrintInv, FileInv, Encoded, file, Offsets
  <2>3. \A j : Start(j)' = Start(j) /\ program' = program BY <2>1 DEF file, Start
  <2>4. CASE UNCHANGED <<code_ptr, listing, ended>>
    <3>1. \A j : PrintedTo(j)' <=> PrintedTo(j) BY <2>3, <2>4 DEF PrintedTo
    <3> QED BY <2>1, <2>2, <2>3, <2>4, <3>1 DEF PrintInv
  <2>5. CASE PrintInstruction
    <3>1. /\ mode = "-p" /\ ended' = ended
          /\ Passed(print_instructions, code, code_ptr) # 0
          /\ listing' = Append(listing, <<code_ptr, TypeAt(code[code_ptr])>>)
          /\ code_ptr' = Passed(print_instructions, code, code_ptr) /\ ended = ""
      BY <2>5 DEF PrintInstruction
    <3>2. PICK k \in 1..Len(program) : PrintedTo(k) BY <3>1 DEF PrintInv
    <3>3. code_ptr = Start(k) /\ listing = [j \in 1..(k - 1) |-> <<Start(j), program[j].op>>]
      BY <3>2 DEF PrintedTo
    <3>4. /\ TypeAt(code[code_ptr]) = program[k].op
          /\ Passed(print_instructions, code, code_ptr) = IF k = Len(program) THEN 0 ELSE Start(k + 1)
      BY <3>3, CodeAt DEF PrintInv
    <3>5. k # Len(program) /\ code_ptr' = Start(k + 1) BY <3>1, <3>4
    <3>6. CodeFacts BY CodeOf DEF PrintInv
    <3>7. k + 1 \in 1..Len(program) /\ k \in Nat \ {0} /\ (k + 1) - 1 = k BY <3>5, <3>6 DEF CodeFacts
    <3>8. listing' = [j \in 1..k |-> <<Start(j), program[j].op>>]
      <4>1. PICK f : f = [j \in 1..k |-> <<Start(j), program[j].op>>] OBVIOUS
      <4>2. \A j \in 1..k : f[j] = <<Start(j), program[j].op>> BY <4>1
      <4>3. k \in 1..k /\ \A j \in 1..(k - 1) : j \in 1..k BY <3>7
      <4>4. listing = [j \in 1..(k - 1) |-> f[j]] BY <3>3, <4>2, <4>3
      <4>5. listing' = Append(listing, f[k]) BY <3>1, <3>3, <3>4, <4>2, <4>3
      <4>6. [j \in 1..k |-> f[j]] = f BY <4>1
      <4> QED BY <3>7, <4>1, <4>4, <4>5, <4>6, AppendedNext
    <3>9. PrintedTo(k + 1)' BY <2>3, <3>1, <3>5, <3>7, <3>8 DEF PrintedTo
    <3> QED BY <2>1, <2>2, <2>3, <3>1, <3>7, <3>9 DEF PrintInv
  <2>6. CASE PrintEnd
    <3>1. /\ mode = "-p" /\ code_ptr' = code_ptr /\ listing' = listing
          /\ Passed(print_instructions, code, code_ptr) = 0
          /\ ended' = IF code[code_ptr] = END_OF_CODE THEN "<end>" ELSE "unknown"
      BY <2>6 DEF PrintEnd
    <3>2. PICK k \in 1..Len(program) : PrintedTo(k) BY <3>1 DEF PrintInv
    <3>3. code_ptr = Start(k) BY <3>2 DEF PrintedTo
    <3>4. /\ code[code_ptr] = END_OF_CODE <=> k = Len(program)
          /\ Passed(print_instructions, code, code_ptr) = IF k = Len(program) THEN 0 ELSE Start(k + 1)
      BY <3>3, CodeAt DEF PrintInv
    <3>5. CodeFacts BY CodeOf DEF PrintInv
    <3>6. k = Len(program)
      <4> SUFFICES ASSUME k # Len(program) PROVE FALSE OBVIOUS
      <4>1. k + 1 \in 1..Len(program) BY <3>5 DEF CodeFacts
      <4>2. Start(k + 1) \in Nat \ {0} BY <4>1, CodeAt DEF PrintInv
      <4> QED BY <3>1, <3>4, <4>2
    <3>7. ended' = "<end>" BY <3>1, <3>4, <3>6
    <3>8. PrintedTo(k)' BY <2>3, <3>1, <3>2, <3>6, <3>7 DEF PrintedTo
    <3> QED BY <2>1, <2>2, <2>3, <3>1, <3>8 DEF PrintInv
  <2> QED BY <2>4, <2>5, <2>6 DEF ModesNext, modeVars, Analyze_a, Printed_p
<1>3. PrintInv => ListingIsProgram
  <2> SUFFICES ASSUME PrintInv
               PROVE  /\ ended # "unknown"
                      /\ ended = "<end>" =>
                           listing = [k \in 1..(Len(program) - 1) |-> <<Start(k), program[k].op>>]
    BY DEF ListingIsProgram, Start
  <2>1. CASE mode # "-p" BY <2>1 DEF PrintInv
  <2>2. CASE mode = "-p"
    <3>1. PICK k \in 1..Len(program) : PrintedTo(k) BY <2>2 DEF PrintInv
    <3> QED BY <3>1 DEF PrintedTo
  <2> QED BY <2>1, <2>2
<1> QED BY <1>1, <1>2, <1>3, PTL DEF ModesSpec

-----------------------------------------------------------------------------
(* Two instructions of the same bytes are the same *)

\* What of an instruction its bytes do not say.
Silent(i) ==
  [low |-> IF i.op \in Variables \cup {"PATT"} THEN "" ELSE i.low,
   a |-> IF i.op \in print_instructions.none \cup {"EOF"} THEN i.a ELSE 0,
   b |-> IF i.op \in print_instructions.two THEN 0 ELSE IF i.op = "CLOSURE" THEN i.b - Len(i.caps) ELSE i.b,
   caps |-> IF i.op = "CLOSURE" THEN <<>> ELSE i.caps]

\* A code whose numbers are bytes, and whose instructions of one name do not differ
\* in what their bytes do not say.
Written(p) ==
  /\ \A i \in DOMAIN p : /\ Formed(p[i]) /\ p[i].a \in Byte /\ p[i].b \in Byte /\ Len(p[i].caps) \in Byte
                         /\ \A k \in DOMAIN p[i].caps : p[i].caps[k].value \in Byte
  /\ \A i, j \in DOMAIN p : p[i].op = p[j].op => Silent(p[i]) = Silent(p[j])

\* The first byte says the name and the low bits.
LEMMA OpcodeTells ==
  ASSUME NEW i \in Instruction, NEW j \in Instruction, Formed(i), Formed(j), Opcode(i) = Opcode(j)
  PROVE  i.op = j.op /\ (i.op \in Variables \cup {"PATT"} => i.low = j.low)
<1>1. i.op = j.op BY OpcodeType
<1>2. ASSUME i.op \in Variables \cup {"PATT"} PROVE i.low = j.low
  <2>1. i.op \in Grouped /\ j.op \in Grouped /\ i.op # "EOF" /\ i.op # "BINOP"
    BY <1>1, <1>2 DEF Grouped, Variables
  <2>2. PICK k \in 0..15 : k = Low(i) BY <2>1, LowFits
  <2>3. PICK l \in 0..15 : l = Low(j) BY <2>1, LowFits
  <2>4. PICK h \in 0..15 : h = Families[i.op]
    <3>1. \A h \in {0, 2, 3, 4, 6} : h \in 0..15 OBVIOUS
    <3> QED BY <2>1, <3>1, FamiliesFacts
  <2>5. Opcode(i) = 16 * h + k /\ Opcode(j) = 16 * h + l
    BY <1>1, <2>1, <2>2, <2>3, <2>4, FamiliesFacts DEF Opcode
  <2>6. k = l
    <3>1. 16 * h + k = 16 * h + l BY <2>5
    <3>2. (16 * h + k) % 16 = k /\ (16 * h + l) % 16 = l BY ByHighBits
    <3> QED BY <3>1, <3>2
  <2>7. CASE i.op = "PATT"
    <3>1. Low(i) = IndexIn(PattBits, i.low) /\ Low(j) = IndexIn(PattBits, j.low) BY <1>1, <2>7 DEF Low
    <3>2. i.low \in Patts /\ j.low \in Patts BY <1>1, <2>7 DEF Formed
    <3>3. PattBits[k + 1] = i.low /\ PattBits[l + 1] = j.low BY <2>2, <2>3, <3>1, <3>2, LowBitsTell
    <3> QED BY <2>6, <3>3
  <2>8. CASE i.op \in Variables
    <3>0. i.op # "PATT" BY <2>8 DEF Variables
    <3>1. Low(i) = IndexIn(LowBits, i.low) /\ Low(j) = IndexIn(LowBits, j.low) BY <1>1, <2>1, <3>0 DEF Low
    <3>2. i.low \in Designations /\ j.low \in Designations BY <1>1, <2>8 DEF Formed
    <3>3. LowBits[k + 1] = i.low /\ LowBits[l + 1] = j.low BY <2>2, <2>3, <3>1, <3>2, LowBitsTell
    <3> QED BY <2>6, <3>3
  <2> QED BY <1>2, <2>7, <2>8
<1> QED BY <1>1, <1>2

\* An element of a sequence.
LEMMA ElementOf == ASSUME NEW S, NEW s \in Seq(S), NEW k \in 1..Len(s) PROVE s[k] \in S
OBVIOUS

\* A capture is its two parts.
LEMMA CaptureParts ==
  ASSUME NEW m \in Capture, NEW n \in Capture, m.mem_var = n.mem_var, m.value = n.value
  PROVE  m = n
BY DEF Capture

\* The arguments say the rest.
LEMMA ArgsTell ==
  ASSUME NEW i \in Instruction, NEW j \in Instruction, i.op = j.op, Args(i) = Args(j)
  PROVE  /\ i.op \in print_instructions.one \cup print_instructions.two \cup {"CLOSURE"} => i.a = j.a
         /\ i.op \in print_instructions.two => i.b = j.b
         /\ i.op = "CLOSURE" => i.caps = j.caps
<1>1. i.op \in print_instructions.one => i.a = j.a BY ArgsShape
<1>2. i.op \in print_instructions.two => i.a = j.a /\ i.b = j.b BY ArgsShape
<1>3. ASSUME i.op = "CLOSURE" PROVE i.a = j.a /\ i.caps = j.caps
  <2>1. i.a = j.a /\ Len(i.caps) = Len(j.caps) BY <1>3, ArgsShape
  <2>2. PICK c \in Seq(Capture) : c = i.caps BY DEF Instruction
  <2>3. PICK d \in Seq(Capture) : d = j.caps BY DEF Instruction
  <2>4. PICK L \in Nat : L = Len(c) /\ L = Len(d) BY <2>1, <2>2, <2>3
  <2>5. PICK x : x = FlattenSeq(Captured(c)) OBVIOUS
  <2>6. PICK y : y = FlattenSeq(Captured(d)) OBVIOUS
  <2>7. \A k \in 1..(2 * L) : Args(i)[k + 2] = x[k] BY <1>3, <2>2, <2>4, <2>5, ArgsShape
  <2>8. \A k \in 1..(2 * L) : Args(j)[k + 2] = y[k] BY <1>3, <2>3, <2>4, <2>6, ArgsShape
  <2>9. \A k \in 1..(2 * L) : x[k] = y[k] BY <2>7, <2>8
  <2>10. \A k \in 1..L : /\ x[2 * k - 1] = IndexIn(LowBits, c[k].mem_var) /\ x[2 * k] = c[k].value
                         /\ y[2 * k - 1] = IndexIn(LowBits, d[k].mem_var) /\ y[2 * k] = d[k].value
    BY <2>4, <2>5, <2>6, CapturedCells
  <2>11. ASSUME NEW k \in 1..L PROVE c[k] = d[k]
    <3>1. 2 * k - 1 \in 1..(2 * L) /\ 2 * k \in 1..(2 * L) OBVIOUS
    <3>2. IndexIn(LowBits, c[k].mem_var) = IndexIn(LowBits, d[k].mem_var) /\ c[k].value = d[k].value
      BY <2>9, <2>10, <3>1
    <3>3. k \in 1..Len(c) /\ k \in 1..Len(d) BY <2>4
    <3>4. PICK m \in Capture : m = c[k] BY <3>3, ElementOf
    <3>5. PICK n \in Capture : n = d[k] BY <3>3, ElementOf
    <3>6. m.mem_var \in Designations /\ n.mem_var \in Designations BY DEF Capture
    <3>7. m.mem_var = n.mem_var /\ m.value = n.value BY <3>2, <3>4, <3>5, <3>6, LowBitsTell
    <3>8. m = n BY <3>7, CaptureParts
    <3> QED BY <3>4, <3>5, <3>8
  <2>12. c = d
    <3>1. Len(c) = Len(d) /\ \A k \in 1..Len(c) : c[k] = d[k] BY <2>4, <2>11
    <3> QED BY <3>1, SeqEqual
  <2> QED BY <2>1, <2>2, <2>3, <2>12
<1> QED BY <1>1, <1>2, <1>3

\* An instruction is its fields.
LEMMA InstructionParts ==
  ASSUME NEW i \in Instruction, NEW j \in Instruction,
         i.op = j.op, i.low = j.low, i.a = j.a, i.b = j.b, i.caps = j.caps
  PROVE  i = j
<1>1. \A A, B, C, D, E : \A x \in [op : A, low : B, a : C, b : D, caps : E] :
        x = [op |-> x.op, low |-> x.low, a |-> x.a, b |-> x.b, caps |-> x.caps]
  OBVIOUS
<1>2. i = [op |-> i.op, low |-> i.low, a |-> i.a, b |-> i.b, caps |-> i.caps] BY <1>1 DEF Instruction
<1>3. j = [op |-> j.op, low |-> j.low, a |-> j.a, b |-> j.b, caps |-> j.caps] BY <1>1 DEF Instruction
<1> QED BY <1>2, <1>3

LEMMA SmallBytes == ASSUME NEW w \in 0..3 PROVE w \in Byte
BY DEF Byte

\* The cells of an instruction whose numbers are bytes are bytes.
LEMMA BytesOfWritten ==
  ASSUME NEW i \in Instruction, Formed(i), i.a \in Byte, i.b \in Byte, Len(i.caps) \in Byte,
         \A k \in DOMAIN i.caps : i.caps[k].value \in Byte
  PROVE  Encode(i) \in Seq(Byte)
<1>1. PICK o \in Byte : o = Opcode(i) BY OpcodeType DEF Byte
<1>2. PICK r \in Seq(Nat) : r = Args(i) BY ArgsShape
<1>3. PICK c \in Seq(Capture) : c = i.caps BY DEF Instruction
<1>4. PICK n \in Nat : n = Len(c) OBVIOUS
<1>5. \A k \in 1..n : IndexIn(LowBits, c[k].mem_var) \in Byte /\ c[k].value \in Byte
  <2> SUFFICES ASSUME NEW k \in 1..n PROVE IndexIn(LowBits, c[k].mem_var) \in Byte /\ c[k].value \in Byte
    OBVIOUS
  <2>1. k \in 1..Len(c) /\ k \in DOMAIN c BY <1>4
  <2>2. PICK m \in Capture : m = c[k] BY <2>1, ElementOf
  <2>3. m.mem_var \in Designations BY DEF Capture
  <2>4. IndexIn(LowBits, m.mem_var) \in 0..3 BY <2>3, LowBitsTell
  <2>6. IndexIn(LowBits, c[k].mem_var) \in Byte BY <2>2, <2>4, SmallBytes
  <2>7. c[k].value \in Byte BY <1>3, <2>1
  <2> QED BY <2>6, <2>7
<1>6. \A m \in 1..Len(r) : r[m] \in Byte
  <2>1. CASE i.op \in print_instructions.none \cup {"EOF"}
    <3>1. Len(r) = 0 BY <1>2, <2>1, ArgsShape
    <3> QED BY <3>1
  <2>2. CASE i.op \in print_instructions.one
    <3>1. Len(r) = 1 /\ r[1] = i.a BY <1>2, <2>2, ArgsShape
    <3>2. \A m \in 1..1 : m = 1 OBVIOUS
    <3> QED BY <3>1, <3>2
  <2>3. CASE i.op \in print_instructions.two
    <3>1. Len(r) = 2 /\ r[1] = i.a /\ r[2] = i.b BY <1>2, <2>3, ArgsShape
    <3>2. \A m \in 1..2 : m = 1 \/ m = 2 OBVIOUS
    <3> QED BY <3>1, <3>2
  <2>4. CASE i.op = "CLOSURE"
    <3>1. PICK x : x = FlattenSeq(Captured(c)) OBVIOUS
    <3>2. \A k \in 1..n : /\ x[2 * k - 1] = IndexIn(LowBits, c[k].mem_var)
                          /\ x[2 * k] = c[k].value
      BY <1>4, <3>1, CapturedCells
    <3>3. /\ Len(r) = 2 + 2 * n /\ r[1] = i.a /\ r[2] = Len(i.caps)
          /\ \A k \in 1..(2 * n) : r[k + 2] = x[k]
      BY <1>2, <1>3, <1>4, <2>4, <3>1, ArgsShape
    <3>4. ASSUME NEW m \in 1..(2 * n) PROVE x[m] \in Byte
      <4>1. \E k \in 1..n : m = 2 * k - 1 \/ m = 2 * k
        <5>1. m = 2 * (m \div 2) \/ m = 2 * (m \div 2) + 1 OBVIOUS
        <5>2. CASE m = 2 * (m \div 2)
          <6>1. PICK k \in Int : k = m \div 2 OBVIOUS
          <6>2. k \in 1..n BY <5>2, <6>1
          <6> QED BY <5>2, <6>1, <6>2
        <5>3. CASE m = 2 * (m \div 2) + 1
          <6>1. PICK k \in Int : k = (m \div 2) + 1 OBVIOUS
          <6>2. k \in 1..n /\ m = 2 * k - 1 BY <5>3, <6>1
          <6> QED BY <6>2
        <5> QED BY <5>1, <5>2, <5>3
      <4>2. PICK k \in 1..n : m = 2 * k - 1 \/ m = 2 * k BY <4>1
      <4> QED BY <1>5, <3>2, <4>2
    <3>5. \A m \in 1..(2 + 2 * n) : m = 1 \/ m = 2 \/ (m - 2 \in 1..(2 * n) /\ (m - 2) + 2 = m) OBVIOUS
    <3>6. ASSUME NEW m \in 1..Len(r) PROVE r[m] \in Byte
      <4>1. m = 1 \/ m = 2 \/ (m - 2 \in 1..(2 * n) /\ (m - 2) + 2 = m) BY <3>3, <3>5
      <4> QED BY <3>3, <3>4, <4>1
    <3> QED BY <3>6
  <2> QED BY <2>1, <2>2, <2>3, <2>4, ArgsShape
<1>7. r \in Seq(Byte)
  <2>1. Len(r) \in Nat OBVIOUS
  <2>2. r = [m \in 1..Len(r) |-> r[m]] OBVIOUS
  <2> QED BY <1>6, <2>1, <2>2, IsASeq, SMTT(40)
<1>8. Encode(i) = <<o>> \o r BY <1>1, <1>2 DEF Encode, Args
<1>9. <<o>> \in Seq(Byte) OBVIOUS
<1>10. <<o>> \o r \in Seq(Byte) BY <1>7, <1>9, ConcatProperties
<1> QED BY <1>8, <1>10

\* A byte and what follows it are told apart.
Prefixed(o, r) == <<o>> \o r

LEMMA PrefixedCells ==
  ASSUME NEW o \in Nat, NEW r \in Seq(Nat)
  PROVE  /\ Prefixed(o, r)[1] = o /\ Len(Prefixed(o, r)) = 1 + Len(r)
         /\ \A k \in 1..Len(r) : Prefixed(o, r)[k + 1] = r[k]
BY DEF Prefixed

LEMMA SameConcat ==
  ASSUME NEW o \in Nat, NEW q0 \in Nat, NEW r \in Seq(Nat), NEW s \in Seq(Nat),
         Prefixed(o, r) = Prefixed(q0, s)
  PROVE  o = q0 /\ r = s
<1>1. PICK u : u = Prefixed(o, r) /\ u = Prefixed(q0, s) OBVIOUS
<1>2. u[1] = o /\ Len(u) = 1 + Len(r) /\ \A k \in 1..Len(r) : u[k + 1] = r[k]
  BY <1>1, PrefixedCells
<1>3. u[1] = q0 /\ Len(u) = 1 + Len(s) /\ \A k \in 1..Len(s) : u[k + 1] = s[k]
  BY <1>1, PrefixedCells
<1>4. Len(r) = Len(s) BY <1>2, <1>3
<1>5. \A k \in 1..Len(r) : r[k] = s[k] BY <1>2, <1>3, <1>4
<1>6. r = s BY <1>4, <1>5, SeqEqual
<1> QED BY <1>2, <1>3, <1>6

\* What the counts are exact for: a code of which the bytes say everything that
\* differs between two instructions.
LEMMA WrittenReadable ==
  ASSUME NEW p, IsCode(p), Written(p)
  PROVE  Readable(p)
<1>1. p \in Seq(Instruction) BY DEF IsCode
<1>2. \A i \in DOMAIN p : p[i] \in Instruction BY <1>1
<1>3. \A i \in DOMAIN p : Encode(p[i]) \in Seq(Byte)
  <2> SUFFICES ASSUME NEW k \in DOMAIN p PROVE Encode(p[k]) \in Seq(Byte) OBVIOUS
  <2>1. PICK i \in Instruction : i = p[k] BY <1>2
  <2>2. /\ Formed(i) /\ i.a \in Byte /\ i.b \in Byte /\ Len(i.caps) \in Byte
        /\ \A m \in DOMAIN i.caps : i.caps[m].value \in Byte
    BY <2>1 DEF Written
  <2> QED BY <2>1, <2>2, BytesOfWritten
<1>4. ASSUME NEW k \in DOMAIN p, NEW l \in DOMAIN p, Encode(p[k]) = Encode(p[l]) PROVE p[k] = p[l]
  <2>1. PICK i \in Instruction : i = p[k] BY <1>2
  <2>2. PICK j \in Instruction : j = p[l] BY <1>2
  <2>3. Formed(i) /\ Formed(j) /\ (i.op = j.op => Silent(i) = Silent(j)) BY <2>1, <2>2 DEF Written
  <2>4. PICK r \in Seq(Nat) : r = Args(i) BY ArgsShape
  <2>5. PICK s \in Seq(Nat) : s = Args(j) BY ArgsShape
  <2>0. \A w \in 0..255 : w \in Nat OBVIOUS
  <2>6. PICK o \in Nat : o = Opcode(i) BY <2>0, <2>3, OpcodeType
  <2>7. PICK q0 \in Nat : q0 = Opcode(j) BY <2>0, <2>3, OpcodeType
  <2>8. Prefixed(o, r) = Prefixed(q0, s)
    BY <1>4, <2>1, <2>2, <2>4, <2>5, <2>6, <2>7 DEF Encode, Args, Prefixed
  <2>9. o = q0 /\ r = s BY <2>8, SameConcat
  <2>10. i.op = j.op /\ (i.op \in Variables \cup {"PATT"} => i.low = j.low)
    BY <2>3, <2>6, <2>7, <2>9, OpcodeTells
  <2>11. /\ i.op \in print_instructions.one \cup print_instructions.two \cup {"CLOSURE"} => i.a = j.a
         /\ i.op \in print_instructions.two => i.b = j.b
         /\ i.op = "CLOSURE" => i.caps = j.caps
    BY <2>4, <2>5, <2>9, <2>10, ArgsTell
  <2>12. Silent(i) = Silent(j) BY <2>3, <2>10
  <2>13. /\ Silent(i).low = Silent(j).low /\ Silent(i).a = Silent(j).a
         /\ Silent(i).b = Silent(j).b /\ Silent(i).caps = Silent(j).caps
    BY <2>12
  <2>14. i.low = j.low BY <2>10, <2>13 DEF Silent
  <2>15. i.a = j.a
    <3>1. i.op \in print_instructions.none \cup print_instructions.one \cup print_instructions.two
                   \cup {"CLOSURE", "EOF"}
      BY ArgsShape
    <3> QED BY <2>10, <2>11, <2>13, <3>1 DEF Silent
  <2>16. i.caps = j.caps BY <2>10, <2>11, <2>13 DEF Silent
  <2>17. i.b = j.b
    <3>1. CASE i.op \in print_instructions.two BY <2>11, <3>1
    <3>2. CASE i.op \notin print_instructions.two /\ i.op = "CLOSURE"
      <4>1. i.b - Len(i.caps) = j.b - Len(i.caps) BY <2>10, <2>13, <2>16, <3>2 DEF Silent
      <4>2. i.caps \in Seq(Capture) /\ i.b \in Nat /\ j.b \in Nat BY DEF Instruction
      <4>3. PICK n \in Nat : n = Len(i.caps) BY <4>2
      <4>4. i.b - n = j.b - n BY <4>1, <4>3
      <4> QED BY <4>2, <4>4
    <3>3. CASE i.op \notin print_instructions.two /\ i.op # "CLOSURE"
      BY <2>10, <2>13, <3>3 DEF Silent
    <3> QED BY <3>1, <3>2, <3>3
  <2>18. i = j BY <2>10, <2>14, <2>15, <2>16, <2>17, InstructionParts
  <2> QED BY <2>1, <2>2, <2>18
<1> QED BY <1>3, <1>4 DEF Readable

\* What the two modes print is right, for every code that is written so: each
\* property of the analyzer and of the printer in every state of the program.
THEOREM ModesAreRight ==
  ASSUME \A p \in Programs : Written(p)
  PROVE  ModesSpec => [](/\ TypeOK /\ TraversalOnMarks /\ SinglesAreReachable /\ PairsAreStraight
                         /\ CountsAreOccurrences /\ ComparatorsAreOrders
                         /\ ReadersAgree /\ ListingIsProgram)
<1>1. \A p \in Programs : Readable(p)
  <2> SUFFICES ASSUME NEW p \in Programs PROVE Readable(p) OBVIOUS
  <2>1. IsCode(p) BY AnalyzerAssumption
  <2> QED BY <2>1, WrittenReadable
<1>2. \A p \in Programs : \A i \in DOMAIN p : Formed(p[i]) BY DEF Written
<1>3. Spec => []CountsAreOccurrences BY <1>1, OccurrencesCounted
<1>4. ModesSpec => []ComparatorsAreOrders BY <1>1, OrdersAreStrict
<1>5. ModesSpec => []ListingIsProgram BY <1>2, ListsProgram
<1> QED BY <1>3, <1>4, <1>5, ModesRunAnalyzer, TypesHold, LabelsAreLeaders, ReachableCollected,
           StraightCollected, ReadersAlike, PTL
=============================================================================
