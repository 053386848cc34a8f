--------------------------------- MODULE Modes ---------------------------------
(***************************************************************************)
(* main.cpp on a bytecode file: -a analyzes it and prints what was counted, *)
(* -p prints the instructions from the first to the byte that ends them.    *)
(* (VerifiedRun is -i.)  A position of the analyzer is an offset of the     *)
(* code because, and as far as, all readers pass over the same bytes.       *)
(***************************************************************************)
EXTENDS Analyzer

VARIABLES
  mode,              \* argv[1]
  code_ptr,          \* of print_instructions, from 1
  listing,           \* what it has printed: offset and name of each instruction
  ended              \* how it ended: "", "<end>" or "unknown"

modeVars == <<vars, mode, code_ptr, listing, ended>>

code == FlattenSeq(bytes)

ModesInit == /\ Init
             /\ mode \in {"-a", "-p"}
             /\ code_ptr = 1 /\ listing = <<>> /\ ended = ""

Analyze_a == mode = "-a" /\ Next /\ UNCHANGED <<mode, code_ptr, listing, ended>>

\* print_instructions: one instruction a step.
PrintInstruction ==
  LET nxt == Passed(print_instructions, code, code_ptr)
  IN  /\ mode = "-p" /\ ended = "" /\ nxt # 0
      /\ listing' = Append(listing, <<code_ptr, TypeAt(code[code_ptr])>>)
      /\ code_ptr' = nxt
      /\ UNCHANGED <<vars, mode, ended>>

\* What is no instruction: the end of the code, or an exception.
PrintEnd == /\ mode = "-p" /\ ended = ""
            /\ Passed(print_instructions, code, code_ptr) = 0
            /\ ended' = IF code[code_ptr] = END_OF_CODE THEN "<end>" ELSE "unknown"
            /\ UNCHANGED <<vars, mode, code_ptr, listing>>

Printed_p == ended # "" /\ UNCHANGED modeVars

ModesNext == Analyze_a \/ PrintInstruction \/ PrintEnd \/ Printed_p
ModesSpec == ModesInit /\ [][ModesNext]_modeVars
\* main is sequential code that nothing suspends.
FairModesSpec == ModesSpec /\ WF_modeVars(ModesNext)
------------------------------------------------------------------------------
(* Properties *)

\* The printer, general_byterun of the analyzer and the verifier, and the handlers of
\* the interpreter each describe the layout of an instruction: wherever the printer
\* is, they agree on where the next one begins, and RET alone has no handler.
ReadersAgree ==
  mode = "-p" =>
    LET nxt == Passed(print_instructions, code, code_ptr)
    IN  /\ Passed(general_byterun, code, code_ptr) = nxt
        /\ Passed(handlers, code, code_ptr) = IF TypeAt(code[code_ptr]) = "RET" THEN 0 ELSE nxt

\* The printer ends at the end of the code and nowhere else -- an argument may be
\* the byte that ends it -- and has then printed each instruction once, in order.
ListingIsProgram ==
  LET start(k) == Len(FlattenSeq(SubSeq(bytes, 1, k - 1))) + 1
  IN  /\ ended # "unknown"
      /\ ended = "<end>" => listing = [k \in 1..(Len(program) - 1) |-> <<start(k), program[k].op>>]

\* What std::sort and the measuring of runs require of cmp_single and cmp_pair:
\* strict weak orders, in which equal instructions alone are equivalent.
ComparatorsAreOrders ==
  phase = "done" =>
    \A pair \in BOOLEAN :
      LET S == Range(IF pair THEN collect_pairs ELSE collect_single)
          before == {ij \in S \X S : Cmp(ij[1], ij[2], pair)}
      IN  /\ \A ij \in before : <<ij[2], ij[1]>> \notin before
          /\ \A ij \in before : \A k \in S : <<ij[2], k>> \in before => <<ij[1], k>> \in before
          /\ \A i, j \in S : ({<<i, j>>, <<j, i>>} \cap before = {}) <=>
               (program[i] = program[j] /\ (pair => program[i + 1] = program[j + 1]))

\* Whatever loops and recursions the code has, the analysis ends, and the printing.
ModeEnds == <>(phase \in {"done", "error"} \/ ended # "")
==============================================================================
