------------------------------ MODULE VerifiedRun ------------------------------
(***************************************************************************)
(* main -i: verify, and if it throws nothing, interpret the same code with *)
(* the BEGINs it has patched.                                              *)
(***************************************************************************)
EXTENDS Verifier, StackWords

CONSTANTS Ints, STACK, string_size, string_counter

ASSUME VerifiedRunAssumption ==
  /\ {0, 1} \subseteq Ints /\ Ints \subseteq Int
  /\ {STACK, string_size, string_counter} \subseteq Nat
  \* A string takes its bytes and a zero byte, and main's frame three words.
  /\ string_counter < string_size
  /\ STACK - string_size - global_area_size >= 2

VARIABLES ip, memory, top, fp, arg_sizes, closures, status
machine == <<ip, memory, top, fp, arg_sizes, closures, status>>

VARIABLE
  orderly             \* of the specification only: every state so far was InOrder

Interpret == INSTANCE InterpreterRefinement

------------------------------------------------------------------------------
(* What a run must keep to and no pass over the code can find out. *)

\* The operands of the running call; its locals are there once BEGIN is done.
OperandDepth == fp - top - (IF program[ip].op \in Begins THEN 0 ELSE program[BeginOf(program, ip)].b)

\* A function the verifier has entered.
VerifiedFunction(i) == BeginOf(program, i) \in Visited

\* The places of the variables of the running call, and of the globals.
Live == {fp - k : k \in 0..(program[BeginOf(program, ip)].b - 1)}
  \cup {fp + 4 + k : k \in 0..(arg_sizes[1] - 1)}
  \cup {j \in Interpret!Words : j > Interpret!START}

InOrder ==
  (outcome = "accepted" /\ status = "running" /\ ip \in Offsets) =>
    \* The call has passed the arguments that its function declares.
    /\ Len(arg_sizes) = 1 \/ program[BeginOf(program, ip)].a <= arg_sizes[1]
    \* What the verifier has not entered has the operands and variables it takes.
    /\ ~VerifiedFunction(ip) => Needs(program[ip]) <= OperandDepth /\ Exist(ip)
    \* STA is told an index: by reference it takes two operands, and get_new_stack
    \* counts three.
    /\ program[ip].op = "STA" => IsInt(Interpret!Peek(2))
    \* A link that STI stores through leads to a variable that still exists.
    /\ program[ip].op = "STI" /\ Interpret!IsLink(Interpret!Peek(1)) =>
         Interpret!Peek(1)[2] \in Live

------------------------------------------------------------------------------
RunInit == Init /\ Interpret!MachineInit /\ orderly = TRUE

Verifying == (CollectMarks \/ Verify) /\ UNCHANGED <<machine, orderly>>
Interpreting == /\ outcome = "accepted" /\ Interpret!Next
                /\ orderly' = (orderly /\ InOrder)
                /\ UNCHANGED <<marks, pass, phase, outcome, symbol_offset, cur_stack>>
\* verify has thrown: the process ends.
Rejected == outcome # "accepted" /\ Stopped /\ UNCHANGED <<machine, orderly>>

RunNext == Verifying \/ Interpreting \/ Rejected
runVars == <<vars, machine, orderly>>
\* The verifier is sequential code that nothing suspends; the program run may loop.
RunSpec == RunInit /\ [][RunNext]_runVars /\ WF_runVars(Verifying)
------------------------------------------------------------------------------
\* Whatever path a run takes, through calls, returns and loops, in a function the
\* verifier has entered it reaches only positions the verifier visited, with the
\* depth it recorded there, and never one above what it patched into the
\* function's BEGIN: two programs that each keep their own account of the stack
\* agree.  A call of a closure is the only way into a function the verifier has
\* not entered, and its return the way back to the depth recorded.
Ends(i) == \E e \in Visited : program[e].op = "END" /\ BeginOf(program, e) = BeginOf(program, i)
RunsAsVerified ==
  (outcome = "accepted" /\ OperandsSuffice /\ orderly /\ status = "running") =>
    \/ /\ ip \in Visited
       /\ OperandDepth = visited[ip]
       /\ Ends(ip) => OperandDepth <= upper[BeginOf(program, ip)]
    \/ ~VerifiedFunction(ip) /\ closures # <<>>

\* The check at BEGIN, with the patched depth, is enough for every operand of a
\* function that some path ends: a write below the stack can only be that of a
\* frame or of a handler's temporary, which the depth does not count, or that of a
\* function for which no depth is patched, because the verifier has not entered it
\* or has met no END of it.
BeginCheckSuffices ==
  (outcome = "accepted" /\ OperandsSuffice /\ orderly /\ status = "outside") =>
    \/ program[ip].op \in {"CALL", "CALLC", "SEXP", "CLOSURE"}
    \/ ~VerifiedFunction(ip) \/ ~Ends(ip)

\* "Stack overflow at": a run that exceeds the stack ends in that error, and not
\* in a write below it.
OverflowReported == OperandsSuffice => status # "outside"
================================================================================
