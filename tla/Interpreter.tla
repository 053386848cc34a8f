------------------------------ MODULE Interpreter ------------------------------
(***************************************************************************)
(* The dispatch loop of main.cpp with the handlers of single_interpreters/ *)
(* over the memory of state/FrameStack.hpp: one array of words, growing    *)
(* towards index 0, that holds the string table, the globals, and frames   *)
(* with operands above (at lower indices than) them.                       *)
(*                                                                         *)
(*   fp+4+n         the closure, if the frame is a closure call's          *)
(*   fp+4 .. fp+3+n the n arguments, the first one lowest                  *)
(*   fp+3           the return address, Null for main                      *)
(*   fp+2           the caller's fp                                        *)
(*   fp+1           the top of the stack to return to                      *)
(*   fp, fp-1 ..    the locals, once BEGIN has reserved them               *)
(*   .. top+1       the operands; top is the free slot                     *)
(*                                                                         *)
(* Arrays, s-expressions and strings are the word Box: what they hold is   *)
(* the affair of module GC, and a field or a test of one is any value.     *)
(* Closures are kept by identity, since the code of a call is in them.     *)
(***************************************************************************)
EXTENDS Bytecode, StackWords

CONSTANTS
  Programs,
  Ints,               \* the integers computed with; results are any of them
  STACK,              \* the words of stack_data (StackMachineState::stack_size)
  string_size, string_counter, global_area_size,
  HALF                \* 2^16

ASSUME InterpreterAssumption ==
  /\ \A p \in Programs : IsCode(p)
  /\ {0, 1} \subseteq Ints /\ Ints \subseteq Int
  /\ {STACK, string_size, string_counter, global_area_size} \subseteq Nat
  \* A string takes its bytes and a zero byte, and one of them is "main".
  /\ string_counter < string_size
  /\ STACK - string_size - global_area_size >= 2
  /\ HALF \in Nat \ {0}

VARIABLES
  program, upper,     \* the code; the upper half of each BEGIN's first argument
  ip,                 \* instruction_decoder->code_ptr
  memory,             \* stack_data
  top, fp,            \* __gc_stack_top, fp, as indices
  arg_sizes,          \* with the innermost call first
  closures,           \* the closures created: their code and captured values
  status

code == <<program, upper>>
frame == <<fp, arg_sizes>>
vars == <<code, ip, memory, top, frame, closures, status>>

Values == {Integer(n) : n \in Ints} \cup {Box}
Instr == program[ip]

\* "outside": a word was written below stack_data.  "undefined": a word was
\* used as what it is not, which the code does not test for, or a closure as if
\* it were an array, which this model leaves out.
Statuses == {"running", "finished", "error", "outside", "undefined"}

------------------------------------------------------------------------------
(* Memory *)

Words == 0..(STACK - 1)
Read(j) == IF j \in Words THEN memory[j] ELSE Junk
Peek(k) == Read(top + k)

\* Mutant: the arguments stay in the order they were pushed in.
ReversedNot(m, lo, n) == m

\* std::reverse of the n words from index lo.
Reversed(m, lo, n) ==
  [j \in Words |-> IF lo <= j /\ j < lo + n THEN m[lo + n - 1 - (j - lo)] ELSE m[j]]

\* ws[1] written at t, ws[2] below it, and so on: a sequence of push_op.
Written(m, t, ws) ==
  [j \in Words |-> IF t - Len(ws) < j /\ j <= t THEN ws[t - j + 1] ELSE m[j]]
Fits(t, n) == t - n + 1 >= 0

GlobalAt(k) == STACK - k - 1 - string_counter

\* The word a designation stands for, but for captured variables.
Place(low, k) == CASE low = "Global"   -> GlobalAt(k)
                   [] low = "Local"    -> fp - k
                   [] low = "Argument" -> fp + 4 + k

\* The closure whose body runs, if the word where it should be is one.
Running == Read(fp + 4 + arg_sizes[1])
HasCapture(k) == Running[1] = "closure" /\ k < Len(closures[Running[2]].captured)
Captured(k) == closures[Running[2]].captured[k + 1]

Known(low, k) == low = "Closure" => HasCapture(k)
Value(low, k) == IF low = "Closure" THEN Captured(k) ELSE Read(Place(low, k))

\* push_stack_frame: the frame of a call with n arguments.
Frame(m, t, n, ra, saved_fp, isClosure) ==
  Written(IF n > 1 THEN Reversed(m, t + 1, n) ELSE m, t,
          <<ra, saved_fp, At(t + n + isClosure)>>)

\* The constructor reserves the string table and the globals; interpret pushes
\* the frame of main, whose code is first.
START == STACK - string_size - global_area_size
Cleared == [j \in Words |-> IF j >= STACK - string_counter THEN Box ELSE Junk]

MachineInit ==
  /\ ip = 1
  /\ memory = Frame(Cleared, START, 0, Null, Null, 0)
  /\ top = START - 3 /\ fp = START - 3
  /\ arg_sizes = <<0>>
  /\ closures = <<>>
  /\ status = "running"

Init ==
  /\ program \in Programs
  /\ upper = [i \in DOMAIN program |-> IF program[i].op \in Begins THEN program[i].a \div HALF ELSE 0]
  /\ MachineInit
------------------------------------------------------------------------------
(* Handlers *)

Handles(ops) == status = "running" /\ ip \in DOMAIN program /\ Instr.op \in ops /\ UNCHANGED code

Stop(how) == status' = how /\ UNCHANGED <<ip, memory, top, frame, closures>>

\* The next instruction, with the top n words of the stack replaced by ws; m is
\* the memory the handler has already written to, temp the words it pushed and
\* popped again on the way.
ExecOn(m, temp, n, ws) ==
  IF Fits(top, temp) /\ Fits(top + n, Len(ws))
    THEN /\ memory' = Written(m, top + n, ws) /\ top' = top + n - Len(ws)
         /\ ip' = ip + 1
         /\ UNCHANGED <<frame, status>>
    ELSE Stop("outside")
Exec(n, ws) == ExecOn(memory, 0, n, ws) /\ UNCHANGED closures

Fetch == /\ status = "running" /\ UNCHANGED code
         /\ \/ ip \notin DOMAIN program /\ Stop("undefined")
            \/ ip \in DOMAIN program /\ Instr.op \in Unsupported /\ Stop("error")

Const == Handles({"CONST"}) /\ Exec(0, <<Integer(Instr.a)>>)
Str == Handles({"STRING"}) /\ Exec(0, <<Box>>)
ReadInt == Handles({"CALL_READ"}) /\ \E n \in Ints : Exec(0, <<Integer(n)>>)
Dup == Handles({"DUP"}) /\ Exec(0, <<Peek(1)>>)
Drop == Handles({"DROP"}) /\ Exec(1, <<>>)
Swap == Handles({"SWAP"}) /\ Exec(2, <<Peek(1), Peek(2)>>)
\* CALL_WRITE leaves its argument where it is.
Keep == Handles({"LINE", "CALL_WRITE"}) /\ Exec(0, <<>>)
Fail == Handles({"FAIL"}) /\ Stop("error")

Binop == /\ Handles({"BINOP"})
         /\ \/ \E n \in Ints : Exec(2, <<Integer(n)>>)
            \/ Peek(1) = Integer(0) /\ Stop("error")        \* DIV, MOD

Test == /\ Handles({"TAG", "ARRAY", "PATT"})
        /\ \E w \in Bools : Exec(Needs(Instr), <<w>>)

Length == /\ Handles({"CALL_LENGTH"})
          /\ \/ Peek(1) = Box /\ \E n \in Ints : Exec(1, <<Integer(n)>>)
             \/ Peek(1) # Box /\ Stop("undefined")

ToString == Handles({"CALL_STRING"}) /\ Exec(1, <<Box>>)

Elem == /\ Handles({"ELEM"})
        /\ \/ Peek(2) = Box /\ \E w \in Values : Exec(2, <<w>>)
           \/ Peek(2) # Box /\ Stop("undefined")

Array == /\ Handles({"CALL_ARRAY"})
         /\ ExecOn(Reversed(memory, top + 1, Instr.a), 0, Instr.a, <<Box>>)
         /\ UNCHANGED closures

\* The hash of the tag is pushed above the arguments.
Sexp == /\ Handles({"SEXP"})
        /\ ExecOn(Written(memory, top, <<Integer(0)>>), 1, Instr.b, <<Box>>)
        /\ UNCHANGED closures

Jump == /\ Handles({"JMP"}) /\ ip' = Instr.a
        /\ UNCHANGED <<memory, top, frame, closures, status>>

CondJump == /\ Handles(CondJumps)
            /\ ip' = IF (Peek(1) = Integer(0)) = (Instr.op = "CJMPz") THEN Instr.a ELSE ip + 1
            /\ top' = top + 1
            /\ UNCHANGED <<memory, frame, closures, status>>

Load == /\ Handles({"LD"})
        /\ IF Known(Instr.low, Instr.a) THEN Exec(0, <<Value(Instr.low, Instr.a)>>)
                                        ELSE Stop("undefined")

\* The link to a captured variable is its value: get_closure_link.
LoadLink == /\ Handles({"LDA"})
            /\ IF ~Known(Instr.low, Instr.a) THEN Stop("undefined")
               ELSE Exec(0, <<IF Instr.low = "Closure" THEN Captured(Instr.a)
                                                       ELSE At(Place(Instr.low, Instr.a))>>)

Store ==
  /\ Handles({"ST"})
  /\ \/ /\ Instr.low # "Closure" /\ Place(Instr.low, Instr.a) \in Words
        /\ memory' = [memory EXCEPT ![Place(Instr.low, Instr.a)] = Peek(1)]
        /\ ip' = ip + 1
        /\ UNCHANGED <<top, frame, closures, status>>
     \/ /\ Instr.low = "Closure" /\ HasCapture(Instr.a)
        /\ closures' = [closures EXCEPT ![Running[2]].captured[Instr.a + 1] = Peek(1)]
        /\ ip' = ip + 1
        /\ UNCHANGED <<memory, top, frame, status>>
     \/ /\ IF Instr.low = "Closure" THEN ~HasCapture(Instr.a)
                                    ELSE Place(Instr.low, Instr.a) \notin Words
        /\ Stop("undefined")

IsLink(w) == w[1] = "at" /\ w[2] \in Words

\* What a word leads to: a word of the stack, or the first of an object.
Led(w) == IF IsLink(w) THEN {memory[w[2]]} ELSE IF w = Box THEN Values ELSE {}

\* *ptr_z = *ptr_i: the word i leads to is written where z leads to, which may
\* be an object.
StoreThrough ==
  LET z == Peek(1) i == Peek(2)
  IN  \/ \E w \in Led(i) : IsLink(z) /\ ExecOn([memory EXCEPT ![z[2]] = w], 0, 2, <<z>>)
      \/ Led(i) # {} /\ z = Box /\ Exec(2, <<z>>)
      \/ Led(i) = {} /\ Stop("undefined")
      \/ Led(i) # {} /\ ~IsLink(z) /\ z # Box /\ Stop("undefined")

\* An element of an object, by its index; or a variable, by its link.
StoreElem == /\ Handles({"STA"}) /\ UNCHANGED closures
             /\ \/ IsInt(Peek(2)) /\ Peek(3) = Box /\ Exec(3, <<Peek(1)>>)
                \/ IsInt(Peek(2)) /\ Peek(3) # Box /\ Stop("undefined")
                \/ ~IsInt(Peek(2)) /\ StoreThrough

StoreIndirect == /\ Handles({"STI"}) /\ UNCHANGED closures
                 /\ \/ IsInt(Peek(2)) /\ Stop("error")
                    \/ ~IsInt(Peek(2)) /\ StoreThrough

\* The captured values and the code's offset are pushed, the last designation
\* first, and replaced by the closure.
MakeClosure ==
  /\ Handles({"CLOSURE"})
  /\ LET n == Len(Instr.caps)
         value(k) == Value(Instr.caps[k].mem_var, Instr.caps[k].value)
         temps == [k \in 1..n |-> value(n + 1 - k)] \o <<Integer(Instr.a)>>
     IN  IF \E k \in 1..n : Instr.caps[k].mem_var = "Global" THEN Stop("error")
         ELSE IF \E k \in 1..n : ~Known(Instr.caps[k].mem_var, Instr.caps[k].value) THEN Stop("undefined")
         ELSE /\ ExecOn(Written(memory, top, temps), n + 1, 0, <<Closure(Len(closures) + 1)>>)
              /\ closures' = IF Fits(top, n + 1)
                               THEN Append(closures, [at |-> Instr.a, captured |-> [k \in 1..n |-> value(k)]])
                               ELSE closures

------------------------------------------------------------------------------
(* Calls *)

\* push_stack_frame, and control to target.
Enter(n, isClosure, target) ==
  IF Fits(top, 3)
    THEN /\ memory' = Frame(memory, top, n, Code(ip + 1), At(fp), isClosure)
         /\ top' = top - 3 /\ fp' = top - 3
         /\ arg_sizes' = <<n>> \o arg_sizes
         /\ ip' = target
         /\ UNCHANGED <<closures, status>>
    ELSE Stop("outside")

Call == Handles({"CALL"}) /\ Enter(Instr.b, 0, Instr.a)

CallClosure == LET w == Peek(Instr.a + 1)
               IN  /\ Handles({"CALLC"})
                   /\ \/ w[1] = "closure" /\ Enter(Instr.a, 1, closures[w[2]].at)
                      \/ w[1] # "closure" /\ Stop("undefined")

\* Mutant: the check forgets the locals.
BeginFunctionDepthOnly == /\ Handles(Begins)
                          /\ IF top + 1 < upper[ip]
                               THEN Stop("error")
                               ELSE /\ top' = top - Instr.b /\ ip' = ip + 1
                                    /\ UNCHANGED <<memory, frame, closures, status>>

\* The overflow check: room for the locals and the depth the verifier found.
BeginFunction == /\ Handles(Begins)
                 /\ IF top + 1 < upper[ip] + Instr.b
                      THEN Stop("error")
                      ELSE /\ top' = top - Instr.b /\ ip' = ip + 1
                           /\ UNCHANGED <<memory, frame, closures, status>>

\* pop_stack_frame; the result is pushed where the arguments began.
EndFunction ==
  /\ Handles({"END"})
  /\ LET val == Peek(1)
         back == Read(fp + 1) saved_fp == Read(fp + 2) ra == Read(fp + 3)
     IN  \/ ra = Null /\ Stop("finished")
         \/ /\ back[1] = "at" /\ saved_fp[1] = "at" /\ ra[1] = "code"
            /\ memory' = Written(memory, back[2], <<val>>)
            /\ top' = back[2] - 1 /\ fp' = saved_fp[2]
            /\ arg_sizes' = Tail(arg_sizes)
            /\ ip' = ra[2]
            /\ UNCHANGED <<closures, status>>
         \/ /\ ra # Null /\ ~(back[1] = "at" /\ saved_fp[1] = "at" /\ ra[1] = "code")
            /\ Stop("undefined")
------------------------------------------------------------------------------
\* The process has ended.
Ended == status # "running" /\ UNCHANGED vars

Step == \/ Fetch \/ Const \/ Str \/ ReadInt \/ Dup \/ Drop \/ Swap \/ Keep \/ Fail
        \/ Binop \/ Test \/ Length \/ ToString \/ Elem \/ Array \/ Sexp
        \/ Jump \/ CondJump \/ Load \/ LoadLink \/ Store \/ StoreElem \/ StoreIndirect
        \/ MakeClosure \/ Call \/ CallClosure \/ BeginFunction \/ EndFunction
Next == Step \/ Ended

Spec == Init /\ [][Next]_vars
==============================================================================
