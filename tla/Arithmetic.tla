------------------------------- MODULE Arithmetic -------------------------------
(***************************************************************************)
(* Boxed integers and the operators on them, twice: the handlers of BINOP  *)
(* in single_interpreters/binop_interpreter.hpp and the functions of       *)
(* runtime.c that stand for operators as values.  A word is a number here. *)
(***************************************************************************)
EXTENDS Integers

CONSTANT BITS            \* the bits of an unboxed integer, one less than a word's

ASSUME ArithmeticAssumption == BITS \in Nat \ {0}

BinOps == {"PLUS", "MINUS", "MUL", "DIV", "MOD", "LT", "LE", "GT", "GE", "EQ", "NEQ", "AND", "OR"}
Dividing == {"DIV", "MOD"}

\* What 64 bits keep of a number: of a product, which overflows an int64_t, too.
Word(n) == ((n + 2^BITS) % 2^(BITS + 1)) - 2^BITS
box_int(n) == Word(2 * n + 1)
\* Mutant: the shift is that of the uint64_t that peek_op returns.
unboxUnsigned(w) == (w % 2^(BITS + 1)) \div 2
unbox(w) == w \div 2

Truth(b) == IF b THEN 1 ELSE 0
Abs(n) == IF n < 0 THEN -n ELSE n
\* Division of C rounds towards zero.
Quotient(a, b) == LET q == Abs(a) \div Abs(b) IN IF (a < 0) = (b < 0) THEN q ELSE -q

\* BinOpMap, on what is popped first and what second.
BinOpMap(op, b, a) ==
  CASE op = "PLUS" -> a + b
    [] op = "MINUS" -> a - b
    [] op = "MUL" -> Word(a * b)
    [] op = "DIV" -> Quotient(a, b)
    [] op = "MOD" -> a - b * Quotient(a, b)
    [] op = "LT" -> Truth(a < b)
    [] op = "LE" -> Truth(a <= b)
    [] op = "GT" -> Truth(a > b)
    [] op = "GE" -> Truth(a >= b)
    [] op = "AND" -> Truth(a # 0 /\ b # 0)
    [] op = "OR" -> Truth(a # 0 \/ b # 0)
    [] op = "EQ" -> Truth(a = b)
    [] op = "NEQ" -> Truth(a # b)

\* boxed and boxed_unboxed: EQ and NEQ compare the words.
binop(op, top, below) ==
  box_int(IF op \in {"EQ", "NEQ"} THEN BinOpMap(op, top, below)
          ELSE BinOpMap(op, unbox(top), unbox(below)))

\* Ls__Infix_43 and the others: EQ alone compares the words.
Ls__Infix(op, p, q) ==
  LET a == unbox(p)
      b == unbox(q)
  IN  box_int(
        CASE op = "OR" -> Truth(a # 0 \/ b # 0)
          [] op = "AND" -> Truth(a # 0 /\ b # 0)
          [] op = "EQ" -> Truth(p = q)
          [] op = "NEQ" -> Truth(a # b)
          [] op \in {"LE", "LT", "GE", "GT"} ->
               Truth((a < b /\ op \in {"LE", "LT"}) \/ (a > b /\ op \in {"GE", "GT"})
                     \/ (a = b /\ op \in {"LE", "GE"}))
          [] op = "PLUS" -> a + b
          [] op = "MINUS" -> a - b
          [] op = "MUL" -> Word(a * b)
          [] op = "DIV" -> Quotient(a, b)
          [] op = "MOD" -> a - b * Quotient(a, b))
===============================================================================
