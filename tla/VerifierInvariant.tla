--------------------------- MODULE VerifierInvariant ---------------------------
(***************************************************************************)
(* The inductive invariant of Verifier: what the marks are while           *)
(* collect_marks runs, and what the pass of verify has found out so far.   *)
(* VerifierProofs proves it inductive and derives Verifier's properties.   *)
(***************************************************************************)
EXTENDS Verifier, FiniteSets

(* Conditions on a code section. *)

\* No CALL_STRING: the depth that get_new_stack counts for it is not its handler's.
Counted(p) == \A i \in DOMAIN p : p[i].op # "CALL_STRING"

\* The number of elements of a pattern is taken for a number of operands.
SmallPatterns(p) == \A i \in DOMAIN p : p[i].op = "ARRAY" => p[i].a <= 1

\* Functions as lamac lays them out: each from its BEGIN to its END, entered by
\* calls at its BEGIN, and left by no jump.
Compiled(p) ==
  /\ p[MAIN].op \in Begins
  /\ \A i \in DOMAIN p :
       /\ p[i].op = "END" => p[i + 1].op \in Begins \cup {"EOF"}
       /\ p[i].op \in Jumps /\ p[i].a \in DOMAIN p =>
            IF p[i].op = "CALL" THEN p[p[i].a].op \in Begins
                                ELSE BeginOf(p, p[i].a) = BeginOf(p, i)

\* Every depth fits the half word that it is patched into.
Shallow(p) == \A s \in Attained(p) : s[2] < HALF

\* The conditions under which the patched depths cover.
Coverable(p) == Compiled(p) /\ Counted(p) /\ Shallow(p)

------------------------------------------------------------------------------
(* collect_marks, for a counted code *)

\* What is recorded and not walked yet.
Pending == {labels[k] : k \in DOMAIN labels} \cup (IF phase = "walk" THEN {symbol_offset} ELSE {})

\* A walked position is an instruction that all paths leave for positions recorded
\* with the depth it leaves.
Solved(i) == /\ program[i].op \notin Unsupported
             /\ \A s \in Flow(program, i, visited[i]) :
                  s[1] \in Visited /\ visited[s[1]] = s[2]

WalkInv ==
  /\ phase = "walk" => visited[symbol_offset] = cur_stack
  /\ phase # "stopped" \/ Marked => \A i \in Visited \ Pending : Solved(i)
  /\ Marked => labels = <<>>

\* What is recorded is reached, by a path that passes recorded positions only and
\* so is no longer than they are many.
PathInv == \A i \in Visited : <<i, visited[i]>> \in Paths(program)[Cardinality(Visited) - 1]

MarksInv == WalkInv /\ PathInv

------------------------------------------------------------------------------
(* verify, for a compiled code *)

\* A position is recorded only with the BEGIN of its function.
EntryInv == /\ \A i \in Visited : BeginOf(program, i) \in Visited
            /\ phase = "walk" => symbol_offset \in Visited

\* The function passed last, unless its END is; the BEGIN on top belongs to it.
Last == symbol_offset - 1
Open == Last > 0 /\ program[Last].op # "END" /\ BeginOf(program, Last) \in Visited
OpenInv == phase = "verify" /\ Open => begin_offsets # <<>> /\ Back = BeginOf(program, Last)

\* An END that is visited and passed.
Closed(e) == e \in Visited /\ e < symbol_offset /\ program[e].op = "END"
Passing == phase = "verify" \/ outcome = "accepted"

\* Before that its BEGIN holds what the compiler wrote.
AsCompiled(b) == upper[b] = program[b].a \div HALF
UpperInv ==
  \A b \in Offsets : program[b].op \in Begins =>
    /\ phase \in {"collect_marks", "walk"} => AsCompiled(b)
    /\ Passing => AsCompiled(b) \/ \E e \in Offsets : Closed(e) /\ BeginOf(program, e) = b

VariablesInv == Passing => \A i \in Visited : i < symbol_offset => Exist(i)

EndInv == outcome = "accepted" => Instr.op = "EOF"

LayoutInv == EntryInv /\ OpenInv /\ UpperInv /\ VariablesInv /\ EndInv

------------------------------------------------------------------------------
(* The patched depths, for a coverable code *)

CoverInv ==
  \* The maximum covers what has been passed of the function not ended yet.
  /\ phase = "verify" /\ Open =>
       \A i \in Visited : BeginOf(program, Last) <= i /\ i <= Last => visited[i] <= max_stack
  /\ phase # "stopped" => max_stack < HALF
  \* A BEGIN is patched when its END is passed, with a depth that covers its function.
  /\ Passing =>
       \A e \in Offsets : Closed(e) => \A i \in Visited :
         BeginOf(program, i) = BeginOf(program, e) => visited[i] <= upper[BeginOf(program, e)]

------------------------------------------------------------------------------
\* The whole, each part under the conditions it needs.
VerifierInv ==
  /\ TypeOK
  /\ Counted(program) => MarksInv /\ DifferenceIsReal /\ UnsupportedIsReal
  /\ Counted(program) /\ SmallPatterns(program) => ShortageIsReal
  /\ Compiled(program) => LayoutInv
  /\ Coverable(program) => CoverInv
================================================================================
