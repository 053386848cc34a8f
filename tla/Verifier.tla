------------------------------- MODULE Verifier -------------------------------
(***************************************************************************)
(* verifier/Verifier.hpp: collect_marks propagates the depth of the        *)
(* operand stack along the code with a worklist, one instruction a step;   *)
(* verify then passes over the code in address order, validates variables  *)
(* and jumps, and patches the greatest depth of each function into the     *)
(* upper half of its BEGIN's first argument, where the interpreter's       *)
(* overflow check finds it.                                                *)
(***************************************************************************)
EXTENDS Bytecode

CONSTANTS
  Programs,           \* the code sections verified
  global_area_size,
  HALF                \* 2^16: one more than the greatest uint16_t

ASSUME VerifierAssumption ==
  /\ \A p \in Programs : IsCode(p)
  /\ global_area_size \in Nat
  /\ HALF \in Nat \ {0}

\* CALL_ARRAY's argument, the only one that get_new_stack takes from the depth untested,
\* is below 2^31: the depth, a uint32_t read back as an int32_t, is then the number.
ASSUME DepthAssumption ==
  \A p \in Programs : \A i \in DOMAIN p : p[i].op = "CALL_ARRAY" => 2 * p[i].a < HALF^2

VARIABLES
  program,            \* bf->code_ptr
  upper,              \* the upper half of args[0] of the BEGIN at each position
  visited,            \* the depth recorded for each position, or UNVISITED
  labels,             \* the worklist
  phase,              \* where the code is: see Phases
  outcome,            \* how verify ended: see Outcomes
  symbol_offset, cur_stack,
  max_stack, begin_offsets

code  == <<program, upper>>
marks == <<visited, labels>>
pass  == <<max_stack, begin_offsets>>
vars  == <<code, marks, pass, phase, outcome, symbol_offset, cur_stack>>

UNVISITED == -1
Phases == {"collect_marks", "walk", "verify", "stopped"}
\* The exceptions by their messages; "outside" for an access beyond the end of
\* visited and "no_begin" for the last of no begin_offsets, which C++ does not
\* define.
Outcomes == {"none", "accepted", "unsupported", "arguments", "exhausted", "differs",
             "variable", "encode", "jump", "outside", "no_begin"}

Offsets == DOMAIN program
Instr == program[symbol_offset]
MAIN == 1             \* the offset of the public symbol "main", first in lamac's output

Init ==
  /\ program \in Programs
  /\ upper = [i \in Offsets |-> IF program[i].op \in Begins THEN program[i].a \div HALF ELSE 0]
  /\ visited = [i \in Offsets |-> IF i = MAIN THEN 0 ELSE UNVISITED]
  /\ labels = <<MAIN>>
  /\ phase = "collect_marks" /\ outcome = "none"
  /\ symbol_offset = MAIN /\ cur_stack = 0
  /\ max_stack = 0 /\ begin_offsets = <<>>

Stop(how) == phase' = "stopped" /\ outcome' = how

------------------------------------------------------------------------------
(* collect_marks *)

\* Mutant: a conditional jump is taken to leave its operand.
GetNewStackCondJumpKeeps(i, n) ==
  CASE i.op \in {"BINOP", "DROP", "ELEM", "STI"} -> n - 1
    [] i.op \in {"CONST", "DUP", "LD", "CALL_READ", "CALL_STRING", "STRING", "LDA",
                 "CLOSURE"} -> n + 1
    [] i.op = "STA" -> n - 2
    [] i.op \in {"SEXP", "CALL"} -> n + 1 - i.b
    [] i.op = "CALL_ARRAY" -> n + 1 - i.a
    [] i.op = "CALLC" -> n - i.a
    [] i.op = "PATT" /\ i.low = "PattStrCmp" -> n - 1
    [] OTHER -> n

GetNewStack(i, n) ==
  CASE i.op \in {"BINOP", "DROP", "ELEM", "STI"} \cup CondJumps -> n - 1
    [] i.op \in {"CONST", "DUP", "LD", "CALL_READ", "CALL_STRING", "STRING", "LDA",
                 "CLOSURE"} -> n + 1
    [] i.op = "STA" -> n - 2
    [] i.op \in {"SEXP", "CALL"} -> n + 1 - i.b
    [] i.op = "CALL_ARRAY" -> n + 1 - i.a
    [] i.op = "CALLC" -> n - i.a
    [] i.op = "PATT" /\ i.low = "PattStrCmp" -> n - 1
    [] OTHER -> n

\* Mutant: the depth of the path just finished is carried to the next label.
TakeLabelStale == /\ phase = "collect_marks" /\ labels # <<>>
                  /\ symbol_offset' = Head(labels) /\ labels' = Tail(labels)
                  /\ phase' = "walk"
                  /\ UNCHANGED <<code, visited, pass, outcome, cur_stack>>

\* Mutant: the label is read and not popped.
TakeLabelKeeps == /\ phase = "collect_marks" /\ labels # <<>>
                  /\ symbol_offset' = Head(labels) /\ cur_stack' = visited[Head(labels)]
                  /\ phase' = "walk"
                  /\ UNCHANGED <<code, visited, labels, pass, outcome>>

TakeLabel == /\ phase = "collect_marks" /\ labels # <<>>
             /\ symbol_offset' = Head(labels) /\ labels' = Tail(labels)
             /\ cur_stack' = visited[Head(labels)]
             /\ phase' = "walk"
             /\ UNCHANGED <<code, visited, pass, outcome>>

TooManyArguments == \/ Instr.op \in {"CALLC", "ARRAY"} /\ Instr.a > cur_stack
                    \/ Instr.op \in {"SEXP", "CALL"} /\ Instr.b > cur_stack

\* The walk throws at this instruction.
ThrowAt(why) == /\ phase = "walk" /\ Stop(why)
                /\ UNCHANGED <<code, marks, pass, symbol_offset, cur_stack>>

ThrowUnsupported == Instr.op \in Unsupported /\ ThrowAt("unsupported")
ThrowArguments == TooManyArguments /\ ThrowAt("arguments")
ThrowExhausted == /\ Instr.op \notin Unsupported /\ ~TooManyArguments
                  /\ GetNewStack(Instr, cur_stack) < 0
                  /\ ThrowAt("exhausted")

\* Mutant: the depth, an unsigned number, is taken to be never negative.
PassesExhausted == /\ phase = "walk"
                   /\ Instr.op \notin Unsupported /\ ~TooManyArguments
                   /\ UNCHANGED <<code, pass>>

Passes == /\ phase = "walk"
          /\ Instr.op \notin Unsupported /\ ~TooManyArguments
          /\ GetNewStack(Instr, cur_stack) >= 0
          /\ UNCHANGED <<code, pass>>

\* Mutant: what is recorded already is taken to agree.
PerformStepUnchecked(m, nxt, stack) ==
  CASE m.outcome # "none" -> m
    [] m.outcome = "none" /\ nxt \notin Offsets -> [m EXCEPT !.outcome = "outside"]
    [] m.outcome = "none" /\ nxt \in Offsets ->
         IF m.visited[nxt] = UNVISITED
           THEN [m EXCEPT !.visited[nxt] = stack, !.labels = Append(@, nxt)]
           ELSE m

\* The lambda perform_step; m is the state it changes, and after a throw it is
\* not reached again.
PerformStep(m, nxt, stack) ==
  CASE m.outcome # "none" -> m
    [] m.outcome = "none" /\ nxt \notin Offsets -> [m EXCEPT !.outcome = "outside"]
    [] m.outcome = "none" /\ nxt \in Offsets ->
         CASE m.visited[nxt] = UNVISITED ->
                [m EXCEPT !.visited[nxt] = stack, !.labels = Append(@, nxt)]
           [] m.visited[nxt] = stack -> m
           [] m.visited[nxt] \notin {UNVISITED, stack} -> [m EXCEPT !.outcome = "differs"]

\* CJMPz, CJMPnz, CALL, JMP: the target, then what follows unless it is a JMP.
WalkJump ==
  /\ Passes /\ Instr.op \in Jumps
  /\ LET new == GetNewStack(Instr, cur_stack)
         m == [visited |-> visited, labels |-> labels, outcome |-> outcome]
         target == PerformStep(m, Instr.a, IF Instr.op = "CALL" THEN 0 ELSE new)
         last == IF Instr.op = "JMP" THEN target
                                     ELSE PerformStep(target, symbol_offset + 1, new)
     IN  /\ visited' = last.visited /\ labels' = last.labels /\ outcome' = last.outcome
         /\ phase' = IF last.outcome = "none" THEN "collect_marks" ELSE "stopped"
  /\ UNCHANGED <<symbol_offset, cur_stack>>

WalkStop == /\ Passes /\ Instr.op \in Stops
            /\ phase' = "collect_marks"
            /\ UNCHANGED <<marks, outcome, symbol_offset, cur_stack>>

WalkOn == /\ Passes /\ Instr.op \notin Jumps \cup Stops
          /\ LET nxt == symbol_offset + 1
                 new == GetNewStack(Instr, cur_stack)
             IN  \/ /\ visited[nxt] = UNVISITED
                    /\ visited' = [visited EXCEPT ![nxt] = new]
                    /\ symbol_offset' = nxt /\ cur_stack' = new
                    /\ UNCHANGED <<labels, phase, outcome>>
                 \/ /\ visited[nxt] = new
                    /\ phase' = "collect_marks"
                    /\ UNCHANGED <<marks, outcome, symbol_offset, cur_stack>>
                 \/ /\ visited[nxt] \notin {UNVISITED, new}
                    /\ Stop("differs")
                    /\ UNCHANGED <<marks, symbol_offset, cur_stack>>

CollectMarksDone == /\ phase = "collect_marks" /\ labels = <<>>
                    /\ phase' = "verify"
                    /\ symbol_offset' = 1
                    /\ UNCHANGED <<code, marks, pass, outcome, cur_stack>>

------------------------------------------------------------------------------
(* verify: the pass in address order *)

\* max_stack is compared with each visited position before anything else is.
Seen == IF visited[symbol_offset] > max_stack THEN visited[symbol_offset] ELSE max_stack

VerifyStep == /\ phase = "verify"
              /\ visited[symbol_offset] # UNVISITED
              /\ UNCHANGED <<program, marks, cur_stack>>

Advance == symbol_offset' = symbol_offset + 1 /\ UNCHANGED <<phase, outcome>>

\* The last BEGIN passed and not yet ended; meaningful if there is one.
Back == begin_offsets[Len(begin_offsets)]

VerifyEOF == /\ phase = "verify" /\ Instr.op = "EOF" /\ Stop("accepted")
             /\ UNCHANGED <<code, marks, pass, symbol_offset, cur_stack>>

SkipUnvisited == /\ phase = "verify" /\ Instr.op # "EOF"
                 /\ visited[symbol_offset] = UNVISITED
                 /\ Advance
                 /\ UNCHANGED <<code, marks, pass, cur_stack>>

\* Mutant: only the depth at END is recorded.
VerifyEndLast == /\ VerifyStep /\ Instr.op = "END"
                 /\ begin_offsets # <<>> /\ upper[Back] = 0
                 /\ upper' = [upper EXCEPT ![Back] = visited[symbol_offset] % HALF]
                 /\ begin_offsets' = SubSeq(begin_offsets, 1, Len(begin_offsets) - 1)
                 /\ max_stack' = -1
                 /\ Advance

VerifyEnd == /\ VerifyStep /\ Instr.op = "END"
             /\ begin_offsets # <<>> /\ upper[Back] = 0
             /\ upper' = [upper EXCEPT ![Back] = Seen % HALF]
             /\ begin_offsets' = SubSeq(begin_offsets, 1, Len(begin_offsets) - 1)
             /\ max_stack' = -1
             /\ Advance

\* The upper half is in use by the number of arguments.
VerifyEndEncoded == /\ VerifyStep /\ Instr.op = "END"
                    /\ begin_offsets # <<>> /\ upper[Back] # 0
                    /\ max_stack' = Seen
                    /\ Stop("encode")
                    /\ UNCHANGED <<upper, begin_offsets, symbol_offset>>

VerifyBegin == /\ VerifyStep /\ Instr.op \in Begins
               /\ begin_offsets' = Append(begin_offsets, symbol_offset)
               /\ max_stack' = Seen
               /\ Advance
               /\ UNCHANGED upper

\* Mutant: an index equal to the count passes.
ValidVariableOffByOne(mem_var, index, args, locals) ==
  CASE mem_var = "Global"   -> index < global_area_size
    [] mem_var = "Local"    -> index <= locals
    [] mem_var = "Argument" -> index < args
    [] mem_var = "Closure"  -> TRUE

ValidVariable(mem_var, index, args, locals) ==
  CASE mem_var = "Global"   -> index < global_area_size
    [] mem_var = "Local"    -> index < locals
    [] mem_var = "Argument" -> index < args
    [] mem_var = "Closure"  -> TRUE

\* The variables the instruction names.
Named(i) == IF i.op = "CLOSURE" THEN {i.caps[k] : k \in DOMAIN i.caps}
                                ELSE {[mem_var |-> i.low, value |-> i.a]}

VerifyVariables ==
  /\ VerifyStep /\ Instr.op \in Variables \cup {"CLOSURE"}
  /\ begin_offsets # <<>>
  /\ max_stack' = Seen
  /\ LET args == (program[Back].a % HALF) + HALF * upper[Back]
     IN  IF \A v \in Named(Instr) : ValidVariable(v.mem_var, v.value, args, program[Back].b)
           THEN Advance
           ELSE Stop("variable") /\ UNCHANGED symbol_offset
  /\ UNCHANGED <<upper, begin_offsets>>

\* begin_offsets.back() of an empty vector.
VerifyNoBegin == /\ VerifyStep
                 /\ Instr.op \in Variables \cup {"CLOSURE", "END"}
                 /\ begin_offsets = <<>>
                 /\ max_stack' = Seen
                 /\ Stop("no_begin")
                 /\ UNCHANGED <<upper, begin_offsets, symbol_offset>>

VerifyJump == /\ VerifyStep /\ Instr.op \in Jumps
              /\ max_stack' = Seen
              /\ IF Instr.a \in Offsets THEN Advance
                                        ELSE Stop("jump") /\ UNCHANGED symbol_offset
              /\ UNCHANGED <<upper, begin_offsets>>

VerifyOther == /\ VerifyStep
               /\ Instr.op \notin Jumps \cup Begins \cup Variables \cup {"CLOSURE", "END", "EOF"}
               /\ max_stack' = Seen
               /\ Advance
               /\ UNCHANGED <<upper, begin_offsets>>
------------------------------------------------------------------------------
CollectMarks == \/ TakeLabel
                \/ ThrowUnsupported \/ ThrowArguments \/ ThrowExhausted
                \/ WalkJump \/ WalkStop \/ WalkOn
                \/ CollectMarksDone

Verify == \/ VerifyEOF \/ SkipUnvisited
          \/ VerifyEnd \/ VerifyEndEncoded \/ VerifyBegin
          \/ VerifyVariables \/ VerifyNoBegin \/ VerifyJump \/ VerifyOther

\* The process has ended or the interpreter has taken over.
Stopped == phase = "stopped" /\ UNCHANGED vars

Next == CollectMarks \/ Verify \/ Stopped

Spec == Init /\ [][Next]_vars
\* The verifier is sequential code that nothing suspends.
FairSpec == Spec /\ WF_vars(Next)
------------------------------------------------------------------------------
(* Properties *)

\* Types.  A position on the worklist is visited; the passes stay in the code.
TypeOK ==
  /\ IsCode(program)
  /\ upper \in [Offsets -> Nat]
  /\ visited \in [Offsets -> Nat \cup {UNVISITED}]
  /\ labels \in Seq({i \in Offsets : visited[i] # UNVISITED})
  /\ phase \in Phases /\ outcome \in Outcomes
  /\ phase = "stopped" <=> outcome # "none"
  /\ symbol_offset \in Offsets /\ cur_stack \in Nat
  /\ max_stack \in Nat \cup {-1}
  /\ begin_offsets \in Seq({i \in Offsets : program[i].op \in Begins})

Visited == {i \in Offsets : visited[i] # UNVISITED}

\* collect_marks has returned.
Marked == phase = "verify" \/ outcome \in {"accepted", "variable", "encode", "jump"}

\* collect_marks: the recorded depths are a solution for the whole program.
\* Every way the interpreter's handlers can take out of a visited position, with
\* what they do to the operands, leads to a position in the code that is visited
\* with just that depth, whatever the order in which the worklist met the paths.
DepthsConsistent ==
  Marked => \A i \in Visited : \A s \in Flow(program, i, visited[i]) :
              s[1] \in Visited /\ visited[s[1]] = s[2]

\* Where the paths that end in S may go, one step further on.
Further(p, S) == S \cup UNION {Flow(p, s[1], s[2]) : s \in {t \in S : t[1] \in DOMAIN p}}

\* The positions and depths of the paths of so many steps from MAIN at most, by
\* the handlers' effects alone.
Paths(p) ==
  LET paths[n \in 0..Len(p)] == IF n = 0 THEN {<<MAIN, 0>>} ELSE Further(p, paths[n - 1])
  IN  paths
Attained(p) == Paths(p)[Len(p)]

\* collect_marks invents nothing: what is visited is reached by some path, with
\* the recorded depth.  With DepthsConsistent the marks are exactly the attained
\* depths: the least solution.
DepthsAttained ==
  phase = "stopped" => \A i \in Visited : <<i, visited[i]>> \in Attained(program)

\* "Stack at ... differs" is thrown only for a program in which two paths do
\* reach a position with different depths.
DifferenceIsReal ==
  outcome = "differs" => \E s, t \in Attained(program) : s[1] = t[1] /\ s[2] # t[2]

\* "argument number ... is too large" and "Stack is exhausted" are thrown only
\* for a program in which some path reaches an instruction without the operands
\* that its handler takes.
ShortageIsReal ==
  outcome \in {"arguments", "exhausted"} =>
    \E s \in Attained(program) : s[1] \in Offsets /\ Needs(program[s[1]]) > s[2]

\* An instruction is refused as unsupported only if some path reaches it.
UnsupportedIsReal ==
  outcome = "unsupported" =>
    \E s \in Attained(program) : s[1] \in Offsets /\ program[s[1]].op \in Unsupported

\* No program is rejected for a fault of control flow or depth it does not have.
RejectionIsReal == DifferenceIsReal /\ ShortageIsReal /\ UnsupportedIsReal

\* verify: the depth patched into a BEGIN whose END is reached bounds the depth
\* at every visited position of the function, although one maximum and one stack
\* of BEGINs serve all functions of the section, visited or not, in turn.
MaxStackCovers ==
  outcome = "accepted" =>
    \A i, e \in Visited :
      program[e].op = "END" /\ BeginOf(program, i) = BeginOf(program, e)
        => visited[i] <= upper[BeginOf(program, e)]

\* The globals, locals and arguments that the instruction at i names exist, by the
\* counts of the function it stands in.
Exist(i) ==
  program[i].op \in Variables \cup {"CLOSURE"} =>
    \A v \in Named(program[i]) :
      /\ v.mem_var = "Global" => v.value < global_area_size
      /\ v.mem_var = "Local" => v.value < program[BeginOf(program, i)].b
      /\ v.mem_var = "Argument" => v.value < program[BeginOf(program, i)].a

\* verify: every global, local and argument named by a visited instruction of an
\* accepted program exists, by the BEGIN of its own function, though those of functions
\* that no path ends stay among begin_offsets.  Of captured variables nothing is said:
\* verify lets all of them pass.
VariablesExist == outcome = "accepted" => \A i \in Visited : Exist(i)

\* collect_marks and verify end for every program, its loops and recursions
\* included.
VerifyTerminates == <>(phase = "stopped")

\* "Stack is exhausted": no instruction of an accepted program lacks operands.
OperandsSuffice ==
  outcome = "accepted" => \A i \in Visited : Needs(program[i]) <= visited[i]
==============================================================================
