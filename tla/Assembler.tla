------------------------------- MODULE Assembler -------------------------------
(* Instructions and codes, written short, for the modules that enumerate     *)
(* programs.                                                                 *)
EXTENDS Bytecode

Insn(op, low, a, b) == [op |-> op, low |-> low, a |-> a, b |-> b, caps |-> <<>>]
Do(op) == Insn(op, "", 0, 0)
With(op, a) == Insn(op, "", a, 0)
To(op, target) == Insn(op, "", target, 0)
Var(op, low, k) == Insn(op, low, k, 0)
Begin(args, locals) == Insn("BEGIN", "", args, locals)
Cap(low, k) == [mem_var |-> low, value |-> k]
MakeClo(at, caps) == [Insn("CLOSURE", "", at, Len(caps)) EXCEPT !.caps = caps]
Eof == Do("EOF")

Bodies(n, S) == [1..n -> S]

\* The depth after the first k instructions of s, -1 once one lacks operands.
DepthAfter(s) ==
  LET d[k \in 0..Len(s)] == IF k = 0 THEN 0
                            ELSE IF d[k - 1] < Needs(s[k]) THEN -1
                            ELSE d[k - 1] + Effect(s[k])
  IN  d[Len(s)]
================================================================================
