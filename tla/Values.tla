--------------------------------- MODULE Values ---------------------------------
(***************************************************************************)
(* What the allocating calls of runtime/runtime.c promise their caller:    *)
(* operations on values that nothing moves.  vals holds the values of the  *)
(* caller's stack, the newest last; a call adds its result.                *)
(***************************************************************************)
EXTENDS Tags

CONSTANTS
  Ints, Texts, Names,    \* the integers, C strings and tags a program has
  BITS,                  \* the bits of an integer
  MaxLength,             \* bound: elements of an array, bytes of a makeString
  MaxVals                \* bound: values on the caller's stack

VARIABLE vals

\* A value is its kind, its number -- of an integer, the tag of an s-expression,
\* the code of a closure -- and its elements, which are bytes for a string.
Integer(n) == <<"int", n, <<>>>>
String(bytes) == <<"string", 0, bytes>>
Array(vs) == <<"array", 0, vs>>
Sexp(tag, vs) == <<"sexp", tag, vs>>
Closure(code, vs) == <<"closure", code, vs>>

Cloned(v) == IF v[1] = "string" THEN String(Text(v[3])) ELSE v

IsCons(v) == v[1] = "sexp" /\ v[2] = cons

\* The tails of a list are s-expressions of any tag; the last is an integer or empty.
RECURSIVE IsTail(_)
IsTail(v) == \/ v[1] = "int"
             \/ v[1] = "sexp" /\ v[3] = <<>>
             \/ /\ v[1] = "sexp" /\ Len(v[3]) >= 2
                /\ IsCons(v[3][1]) => IsTail(v[3][1])
                /\ IsTail(v[3][2])
Joinable(v) == IsCons(v) => IsTail(v)

\* The strings of a list and of the lists in it, joined; integers add nothing, and
\* what is neither a message.
RECURSIVE Joined(_), TailJoined(_)
Joined(v) == CASE v[1] = "int" -> <<>>
               [] v[1] = "string" -> Text(v[3])
               [] IsCons(v) -> TailJoined(v)
               [] v[1] = "sexp" /\ ~IsCons(v) -> NonList
               [] v[1] \in {"array", "closure"} -> InvalidHeader
TailJoined(v) == IF v[3] = <<>> THEN <<>> ELSE Joined(v[3][1]) \o TailJoined(v[3][2])

\* Integers have BITS bits: sums, differences, products and quotients are what they
\* are modulo the number of these.
Numbers == -(2^(BITS - 1))..(2^(BITS - 1) - 1)
Keeps(c, n) == c \in Numbers /\ (c - n) % 2^BITS = 0
Tells(c, holds) == c = IF holds THEN 1 ELSE 0

\* q and r are the quotient of a by b, rounded towards zero, and the remainder.
Division(a, b, q, r) == a = q * b + r /\ r * r < b * b /\ r * a >= 0

Operators == {"PLUS", "MINUS", "MUL", "DIV", "MOD", "LT", "LE", "GT", "GE", "EQ", "NEQ", "AND", "OR"}

\* An operator on a and b gives c.
Computes(op, a, b, c) ==
  CASE op = "PLUS" -> Keeps(c, a + b)
    [] op = "MINUS" -> Keeps(c, a - b)
    [] op = "MUL" -> Keeps(c, a * b)
    [] op = "DIV" -> \E q \in -(2^BITS)..2^BITS : Division(a, b, q, a - q * b) /\ Keeps(c, q)
    [] op = "MOD" -> \E q \in -(2^BITS)..2^BITS : Division(a, b, q, c)
    [] op = "LT" -> Tells(c, a < b)
    [] op = "LE" -> Tells(c, a <= b)
    [] op = "GT" -> Tells(c, a > b)
    [] op = "GE" -> Tells(c, a >= b)
    [] op = "EQ" -> Tells(c, a = b)
    [] op = "NEQ" -> Tells(c, a # b)
    [] op = "AND" -> Tells(c, a # 0 /\ b # 0)
    [] op = "OR" -> Tells(c, a # 0 \/ b # 0)

------------------------------------------------------------------------------
Init == vals = <<>>

Room == Len(vals) < MaxVals
Result(v) == Room /\ Len(v[3]) <= MaxLength /\ vals' = Append(vals, v)

Older(n) == SubSeq(vals, 1, Len(vals) - n)
Newest(n) == SubSeq(vals, Len(vals) - n + 1, Len(vals))

Next ==
  \/ \E n \in Ints : Result(Integer(n))
  \/ vals # <<>> /\ vals' = Older(1)
  \/ /\ Len(vals) >= 2 /\ Len(vals') = Len(vals) - 1
     /\ LET a == vals[Len(vals) - 1]
            b == vals[Len(vals)]
            c == vals'[Len(vals')]
        IN  /\ a[1] = "int" /\ b[1] = "int" /\ c[1] = "int" /\ vals' = Append(Older(2), c)
            /\ \E op \in Operators : (b[2] = 0 => op \notin {"DIV", "MOD"}) /\ Computes(op, a[2], b[2], c[2])
  \/ \E t \in Texts : Result(String(t))
  \/ \E n \in 0..MaxLength : Result(String(Zeros(n, 0))) \/ Result(Array(Zeros(n, Integer(0))))
  \/ \E n \in 0..MaxLength :
       /\ n <= Len(vals) /\ (n = 0 => Room)
       /\ \/ vals' = Append(Older(n), Array(Newest(n)))
          \/ \E name \in Names : vals' = Append(Older(n), Sexp(TagHash(name), Newest(n)))
          \/ vals' = Append(Older(n), Closure(1, Newest(n)))
  \/ \E i \in DOMAIN vals :
       LET v == vals[i]
       IN  \/ Result(Cloned(v))
           \/ \E k \in DOMAIN v[3] : Result(IF v[1] = "string" THEN Integer(v[3][k]) ELSE v[3][k])
           \/ \E p, l \in 0..Len(v[3]) :
                v[1] = "string" /\ p + l <= Len(v[3]) /\ Result(String(Padded(SubSeq(v[3], p + 1, p + l))))
           \* The byte before a string is a zero.
           \/ \E l \in 1..Len(v[3]) + 1 : v[1] = "string" /\ Result(String(Zeros(l, 0)))
           \/ \E j \in DOMAIN vals :
                /\ v[1] = "string" /\ vals[j][1] = "string"
                /\ Result(String(Padded(v[3]) \o Padded(vals[j][3])))
           \/ Joinable(v) /\ Result(String(Joined(v)))

Spec == Init /\ [][Next]_vals
==============================================================================
