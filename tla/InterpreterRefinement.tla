------------------------- MODULE InterpreterRefinement -------------------------
(***************************************************************************)
(* The flat memory of Interpreter implements ActivationRecords: the        *)
(* records are read off the chain of frame pointers, whatever lies between *)
(* and below the frames.                                                   *)
(***************************************************************************)
EXTENDS Interpreter

\* The frame pointers and, for each frame, the position its code has reached
\* and the index below its lowest operand.
Depth == Len(arg_sizes)
Fp[k \in 1..Depth] == IF k = 1 THEN fp ELSE Read(Fp[k - 1] + 2)[2]
Position(k) == IF k = 1 THEN ip ELSE Read(Fp[k - 1] + 3)[2]
Floor(k) == IF k = 1 THEN top ELSE Read(Fp[k - 1] + 1)[2]

\* The words BEGIN reserves, none before it.
Locals(k) == IF program[Position(k)].op \in Begins THEN 0
                                                   ELSE program[BeginOf(program, Position(k))].b
IsClosureCall(k) == Read(Fp[k] + 1)[2] = Fp[k] + 3 + arg_sizes[k] + 1

FrameOf(k) ==
  [args |-> [n \in 1..arg_sizes[k] |-> Read(Fp[k] + 3 + n)],
   closure |-> IF IsClosureCall(k) THEN Read(Fp[k] + 4 + arg_sizes[k]) ELSE Null,
   locals |-> [n \in 1..Locals(k) |-> Read(Fp[k] - n + 1)],
   operands |-> [n \in 1..(Fp[k] - Locals(k) - Floor(k)) |-> Read(Floor(k) + n)],
   ra |-> Read(Fp[k] + 3)]

Frames == [k \in 1..Depth |-> FrameOf(k)]
GlobalValues == [k \in 0..(global_area_size - 1) |-> Read(GlobalAt(k))]

Records == INSTANCE ActivationRecords WITH
  Globals <- global_area_size,
  Links <- {At(j) : j \in Words},
  frames <- Frames,
  globals <- GlobalValues

\* Frames nest: no call, return, local, argument, capture or temporary of a
\* handler disturbs a word of another frame, END restores the caller, and
\* arguments arrive in the order the callee counts them in.
ImplementsActivationRecords == Records!Spec
================================================================================
