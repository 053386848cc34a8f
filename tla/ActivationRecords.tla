--------------------------- MODULE ActivationRecords ---------------------------
(***************************************************************************)
(* What the interpreter promises, with no addresses: a call is a record of *)
(* its own with arguments, locals and operands, an instruction works on    *)
(* the innermost record only, and END leaves the caller as it was, with    *)
(* the result in the place of the arguments.  The program may stop with an *)
(* error at any instruction.                                               *)
(***************************************************************************)
EXTENDS Bytecode, StackWords

CONSTANTS Ints, Globals,
          Links                 \* what LDA may push

VARIABLES program, ip,
          frames,               \* the innermost call first
          globals, closures, status
vars == <<program, ip, frames, globals, closures, status>>

Record(args, closure, ra) ==
  [args |-> args, closure |-> closure, locals |-> <<>>, operands |-> <<>>, ra |-> ra]

Instr == program[ip]
Operands == frames[1].operands
Captured == closures[frames[1].closure[2]].captured

Init == /\ IsCode(program) /\ ip = 1
        /\ frames = <<Record(<<>>, Null, Null)>>
        /\ globals = [k \in 0..(Globals - 1) |-> Junk]
        /\ closures = <<>>
        /\ status = "running"

Variable(low, k) == CASE low = "Global"   -> globals[k]
                      [] low = "Local"    -> frames[1].locals[k + 1]
                      [] low = "Argument" -> frames[1].args[k + 1]
                      [] low = "Closure"  -> Captured[k + 1]

Results == CASE Instr.op = "CONST" -> {Integer(Instr.a)}
             [] Instr.op \in {"STRING", "CALL_STRING", "CALL_ARRAY", "SEXP"} -> {Box}
             [] Instr.op \in {"CALL_READ", "CALL_LENGTH", "BINOP"} -> {Integer(n) : n \in Ints}
             [] Instr.op = "ELEM" -> {Integer(n) : n \in Ints} \cup {Box}
             [] Instr.op \in {"TAG", "ARRAY", "PATT"} -> Bools
             [] Instr.op = "LD" -> {Variable(Instr.low, Instr.a)}
             [] Instr.op = "LDA" -> IF Instr.low = "Closure" THEN {Captured[Instr.a + 1]} ELSE Links
             [] Instr.op = "STA" -> {Operands[1]}

\* The innermost record becomes r.
Becomes(r) == frames' = <<r>> \o Tail(frames)

\* The operands an instruction takes are replaced, and control goes to nxt.
Leave(ws, nxt) ==
  /\ Becomes([frames[1] EXCEPT !.operands = ws \o SubSeq(@, Needs(Instr) + 1, Len(@))])
  /\ ip' = nxt
  /\ UNCHANGED <<program, globals, status>>

Compute == /\ Instr.op \in {"CONST", "STRING", "CALL_STRING", "CALL_ARRAY", "SEXP", "CALL_READ",
                            "CALL_LENGTH", "BINOP", "ELEM", "TAG", "ARRAY", "PATT", "LD", "LDA", "STA"}
           /\ Instr.op = "STA" => IsInt(Operands[2])
           /\ \E w \in Results : Leave(<<w>>, ip + 1)
           /\ UNCHANGED closures

Arrange == /\ Instr.op \in {"DUP", "DROP", "SWAP", "LINE", "CALL_WRITE"}
           /\ Leave(CASE Instr.op = "DUP" -> <<Operands[1], Operands[1]>>
                      [] Instr.op = "SWAP" -> <<Operands[2], Operands[1]>>
                      [] Instr.op = "CALL_WRITE" -> <<Operands[1]>>
                      [] Instr.op \in {"DROP", "LINE"} -> <<>>, ip + 1)
           /\ UNCHANGED closures

Jump == /\ Instr.op \in {"JMP"} \cup CondJumps
        /\ LET taken == \/ Instr.op = "JMP"
                        \/ Instr.op = "CJMPz" /\ Operands[1] = Integer(0)
                        \/ Instr.op = "CJMPnz" /\ Operands[1] # Integer(0)
           IN  Leave(<<>>, IF taken THEN Instr.a ELSE ip + 1)
        /\ UNCHANGED closures

Store == /\ Instr.op = "ST" /\ ip' = ip + 1
         /\ \/ /\ Instr.low = "Global"
               /\ globals' = [globals EXCEPT ![Instr.a] = Operands[1]]
               /\ UNCHANGED <<frames, closures>>
            \/ /\ Instr.low = "Local"
               /\ Becomes([frames[1] EXCEPT !.locals[Instr.a + 1] = Operands[1]])
               /\ UNCHANGED <<globals, closures>>
            \/ /\ Instr.low = "Argument"
               /\ Becomes([frames[1] EXCEPT !.args[Instr.a + 1] = Operands[1]])
               /\ UNCHANGED <<globals, closures>>
            \/ /\ Instr.low = "Closure"
               /\ closures' = [closures EXCEPT
                                 ![frames[1].closure[2]].captured[Instr.a + 1] = Operands[1]]
               /\ UNCHANGED <<frames, globals>>
         /\ UNCHANGED <<program, status>>

MakeClosure ==
  /\ Instr.op = "CLOSURE"
  /\ closures' = Append(closures,
       [at |-> Instr.a,
        captured |-> [k \in DOMAIN Instr.caps |-> Variable(Instr.caps[k].mem_var, Instr.caps[k].value)]])
  /\ Leave(<<Closure(Len(closures) + 1)>>, ip + 1)

\* The caller keeps the operands below those the call takes; the first argument
\* is the one pushed first.
Call == /\ Instr.op \in {"CALL", "CALLC"}
        /\ LET n == IF Instr.op = "CALL" THEN Instr.b ELSE Instr.a
               closure == IF Instr.op = "CALL" THEN Null ELSE Operands[n + 1]
               args == [k \in 1..n |-> Operands[n + 1 - k]]
               rest == SubSeq(Operands, Needs(Instr) + 1, Len(Operands))
           IN  /\ frames' = <<Record(args, closure, Code(ip + 1)),
                               [frames[1] EXCEPT !.operands = rest]>> \o Tail(frames)
               /\ ip' = IF Instr.op = "CALL" THEN Instr.a ELSE closures[closure[2]].at
        /\ UNCHANGED <<program, globals, closures, status>>

\* The locals hold any words until they are assigned.
Begin == /\ Instr.op \in Begins /\ ip' = ip + 1
         /\ frames'[1].locals \in [1..Instr.b -> AnyWord]
         /\ Becomes([frames[1] EXCEPT !.locals = frames'[1].locals])
         /\ UNCHANGED <<program, globals, closures, status>>

End == /\ Instr.op = "END"
       /\ IF Len(frames) = 1
            THEN status' = "finished" /\ UNCHANGED <<ip, frames>>
            ELSE /\ frames' = <<[frames[2] EXCEPT !.operands = <<Operands[1]>> \o @]>>
                              \o SubSeq(frames, 3, Len(frames))
                 /\ ip' = frames[1].ra[2]
                 /\ UNCHANGED status
       /\ UNCHANGED <<program, globals, closures>>

Fault == /\ status' \in {"error", "outside", "undefined"}
         /\ UNCHANGED <<program, ip, frames, globals, closures>>

Next == /\ status = "running"
        /\ \/ Compute \/ Arrange \/ Jump \/ Store \/ MakeClosure
           \/ Call \/ Begin \/ End \/ Fault

Spec == Init /\ [][Next]_vars
================================================================================
