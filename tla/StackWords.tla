------------------------------ MODULE StackWords ------------------------------
(* The words of the interpreter's stack, by what they are.                   *)
EXTENDS Integers

Integer(n) == <<"int", n>>            \* box_int(n)
Box == <<"box", 0>>                   \* an array, s-expression or string
Closure(k) == <<"closure", k>>        \* the k-th closure created
At(j) == <<"at", j>>                  \* the address of a word of the stack
Code(i) == <<"code", i>>              \* a return address
Null == <<"null", 0>>
Junk == <<"junk", 0>>                 \* what was never assigned

AnyWord == {"int", "box", "closure", "at", "code", "null", "junk"} \X Int

IsInt(w) == w[1] = "int"
Bools == {Integer(0), Integer(1)}
===============================================================================
