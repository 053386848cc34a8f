-------------------------------- MODULE Analyzer --------------------------------
(***************************************************************************)
(* analyzer/Analyzer.hpp: collect_marks floods the code and marks leaders  *)
(* (public symbols, targets, what follows a branch); analyze then follows  *)
(* the control flow from the public symbols, and collects each instruction *)
(* and each pair of consecutive ones that does not reach into a leader;    *)
(* equal ones are counted by sorting and measuring runs.                   *)
(***************************************************************************)
EXTENDS Encoding, FiniteSets, TLC

CONSTANTS
  Programs,
  Publics             \* the sequences of offsets of public symbols

Branches == Jumps \cup {"CLOSURE"}

ASSUME AnalyzerAssumption ==
  /\ \A p \in Programs : /\ IsCode(p)
                         /\ \A i \in DOMAIN p : p[i].op \in Branches => p[i].a \in DOMAIN p
  /\ \A s \in Publics, p \in Programs : s \in Seq(DOMAIN p)

VARIABLES
  program, publics,
  bytes,              \* of each instruction of program
  visited,            \* the bits of each offset: see Bits
  q,                  \* the worklist of collect_marks
  labels,             \* the worklist of analyze
  cur_ptr,            \* where process_label is
  prev,               \* prev_ptr, 0 when not initialized
  collect_single, collect_pairs, counter,
  phase

collected == <<collect_single, collect_pairs>>
file == <<program, publics, bytes>>
vars == <<file, visited, q, labels, cur_ptr, prev, collected, counter, phase>>

Offsets == DOMAIN program
Bits == {1, 2, 4}     \* 1: traversed or on labels; 2: a leader; 4: seen by collect_marks
Phases == {"collect_marks", "labels", "process_label", "done", "error"}

SetBits(bits, v, S) == [i \in Offsets |-> IF i \in S THEN v[i] \cup bits ELSE v[i]]

\* The public offsets, each once: an alias finds its bit set and is not pushed.
Symbols ==
  LET f[n \in 0..Len(publics)] ==
        IF n = 0 THEN <<>>
        ELSE IF \E k \in 1..(n - 1) : publics[k] = publics[n] THEN f[n - 1]
        ELSE Append(f[n - 1], publics[n])
  IN  f[Len(publics)]
SymbolSet == {publics[k] : k \in DOMAIN publics}

Init ==
  /\ program \in Programs /\ publics \in Publics
  /\ bytes = [i \in Offsets |-> Encode(program[i])]
  /\ q = Symbols
  /\ visited = SetBits({2, 4}, [i \in Offsets |-> {}], SymbolSet)
  /\ labels = <<>> /\ cur_ptr = 1 /\ prev = 0
  /\ collect_single = <<>> /\ collect_pairs = <<>> /\ counter = <<>>
  /\ phase = "collect_marks"

------------------------------------------------------------------------------
(* collect_marks: one offset of the worklist a step *)

Idx == Head(q)
Mark(ops) == /\ phase = "collect_marks" /\ q # <<>>
             /\ program[Idx].op \in ops
             /\ UNCHANGED <<file, labels, cur_ptr, prev, collected, counter, phase>>

MarkEOF == Mark({"EOF"}) /\ q' = Tail(q) /\ UNCHANGED visited

\* Mutants: the wrong bit of the target is tested; none is.
MarkBranchIfUnseen ==
  /\ Mark(Branches)
  /\ LET arg == program[Idx].a
         nxt == Idx + 1
         new == 4 \notin visited[arg]
         v1 == IF new THEN SetBits({2, 4}, visited, {arg}) ELSE visited
         q1 == IF new THEN Append(Tail(q), arg) ELSE Tail(q)
         on == program[Idx].op # "JMP" /\ 4 \notin v1[nxt]
     IN  /\ q' = IF on THEN Append(q1, nxt) ELSE q1
         /\ visited' = IF on THEN SetBits({2, 4}, v1, {nxt}) ELSE v1

MarkBranchAlways ==
  /\ Mark(Branches)
  /\ LET arg == program[Idx].a
         nxt == Idx + 1
         v1 == SetBits({2, 4}, visited, {arg})
         q1 == Append(Tail(q), arg)
         on == program[Idx].op # "JMP" /\ 4 \notin v1[nxt]
     IN  /\ q' = IF on THEN Append(q1, nxt) ELSE q1
         /\ visited' = IF on THEN SetBits({2, 4}, v1, {nxt}) ELSE v1

\* The target is pushed unless it is a leader already, and what follows unless
\* it is seen already.
MarkBranch ==
  /\ Mark(Branches)
  /\ LET arg == program[Idx].a
         nxt == Idx + 1
         new == 2 \notin visited[arg]
         v1 == IF new THEN SetBits({2, 4}, visited, {arg}) ELSE visited
         q1 == IF new THEN Append(Tail(q), arg) ELSE Tail(q)
         on == program[Idx].op # "JMP" /\ 4 \notin v1[nxt]
     IN  /\ q' = IF on THEN Append(q1, nxt) ELSE q1
         /\ visited' = IF on THEN SetBits({2, 4}, v1, {nxt}) ELSE v1

\* END, RET and FAIL too: the code after them is flooded.
MarkOn == /\ Mark(Ops \ (Branches \cup {"EOF"}))
          /\ IF 4 \in visited[Idx + 1]
               THEN q' = Tail(q) /\ UNCHANGED visited
               ELSE q' = Append(Tail(q), Idx + 1) /\ visited' = SetBits({4}, visited, {Idx + 1})

\* Mutant: the first labels are not marked as taken.
MarksDoneUntaken == /\ phase = "collect_marks" /\ q = <<>>
                    /\ labels' = Symbols
                    /\ visited' = SetBits({2}, visited, SymbolSet)
                    /\ phase' = "labels"
                    /\ UNCHANGED <<file, q, cur_ptr, prev, collected, counter>>

\* analyze begins: the public symbols are the first labels.
MarksDone == /\ phase = "collect_marks" /\ q = <<>>
             /\ labels' = Symbols
             /\ visited' = SetBits({1, 2}, visited, SymbolSet)
             /\ phase' = "labels"
             /\ UNCHANGED <<file, q, cur_ptr, prev, collected, counter>>

------------------------------------------------------------------------------
(* process_label: one instruction a step *)

TakeLabel == /\ phase = "labels" /\ labels # <<>>
             /\ cur_ptr' = Head(labels) /\ labels' = Tail(labels)
             /\ prev' = 0
             /\ phase' = "process_label"
             /\ UNCHANGED <<file, visited, q, collected, counter>>

Instr == program[cur_ptr]

\* Mutant: every instruction that another goes before is the second of a pair.
AddInstructionOverLeader ==
  /\ collect_single' = Append(collect_single, cur_ptr)
  /\ collect_pairs' = IF prev = 0 THEN collect_pairs ELSE Append(collect_pairs, prev)
  /\ prev' = cur_ptr

\* add_instruction, once prev_initialized is reset at a leader.
AddInstruction ==
  /\ collect_single' = Append(collect_single, cur_ptr)
  /\ collect_pairs' = IF prev = 0 \/ 2 \in visited[cur_ptr] THEN collect_pairs
                      ELSE Append(collect_pairs, prev)
  /\ prev' = cur_ptr

\* Mutant: check_label pushes a label that is known.
CheckLabelAlways(l) == Append(labels, l)

\* The labels after check_label.
CheckLabel(l) == IF 1 \in visited[l] THEN labels ELSE Append(labels, l)

\* check_nxt, given the bits v; then the next instruction or the next label.
CheckNxt(v) ==
  /\ visited' = SetBits({1}, v, {cur_ptr + 1})
  /\ cur_ptr' = cur_ptr + 1
  /\ phase' = IF 1 \in v[cur_ptr + 1] THEN "labels" ELSE "process_label"

Process(ops) == /\ phase = "process_label" /\ Instr.op \in ops
                /\ UNCHANGED <<file, q, counter>>

ProcessStop == /\ Process(Stops \cup {"RET"}) /\ AddInstruction
               /\ phase' = "labels"
               /\ UNCHANGED <<visited, labels, cur_ptr>>

ProcessJump == /\ Process({"JMP"}) /\ AddInstruction
               /\ labels' = CheckLabel(Instr.a)
               /\ visited' = SetBits({1}, visited, {Instr.a})
               /\ phase' = "labels"
               /\ UNCHANGED cur_ptr

ProcessBranch ==
  /\ Process(Branches \ {"JMP"}) /\ AddInstruction
  /\ labels' = CheckLabel(Instr.a)
  /\ CheckNxt(SetBits({1}, visited, {Instr.a}))

ProcessOther == /\ Process(Ops \ (Stops \cup {"RET", "EOF"} \cup Branches)) /\ AddInstruction
                /\ CheckNxt(visited)
                /\ UNCHANGED labels

\* general_byterun throws at the end of the code.
ProcessEOF == /\ Process({"EOF"}) /\ phase' = "error"
              /\ UNCHANGED <<visited, labels, cur_ptr, prev, collected>>

------------------------------------------------------------------------------
(* The counting of equal instructions and equal pairs *)

CmpSingle(i, j) == CompareBytes(bytes[i], bytes[j]) < 0
\* Mutant: the second instructions are compared whatever the first are.
CmpPairEither(i, j) == CmpSingle(i, j) \/ CmpSingle(i + 1, j + 1)
CmpPair(i, j) == LET cmp1 == CompareBytes(bytes[i], bytes[j])
                 IN  IF cmp1 = 0 THEN CmpSingle(i + 1, j + 1) ELSE cmp1 < 0

Cmp(i, j, pair) == IF pair THEN CmpPair(i, j) ELSE CmpSingle(i, j)

\* The pairs of offsets one of which cmp_single or cmp_pair puts before the other.
Before(pair) == {ij \in Offsets \X Offsets : Cmp(ij[1], ij[2], pair)}

\* sort, by the pairs R of a value and one that goes after it: each element goes
\* in front of the first, of those already in order, that it is less than.  (Of
\* more than 16 elements, std::sort may leave equivalent ones in another order.)
Sorted(s, R) ==
  LET insert == [x \in Range(s) |-> [t \in Seq(Range(s)) |->
        LET k == Cardinality({j \in DOMAIN t : \A i \in 1..j : <<x, t[i]>> \notin R})
        IN  SubSeq(t, 1, k) \o <<x>> \o SubSeq(t, k + 1, Len(t))]]
      f[n \in 0..Len(s)] == IF n = 0 THEN <<>> ELSE insert[s[n]][f[n - 1]]
  IN  f[Len(s)]

Run == [count : Nat \ {0}, i : Nat \ {0}, pair : BOOLEAN]

\* The runs of elements of a sequence that are not greater than the first of
\* their run: how long, from which index, and of which of the two sequences.
Runs(s, pair) ==
  LET add == [n \in DOMAIN s |-> [t \in Seq(Run) |->
        IF t # <<>> /\ ~Cmp(s[t[Len(t)].i], s[n], pair)
          THEN [t EXCEPT ![Len(t)].count = @ + 1]
          ELSE Append(t, [count |-> 1, i |-> n, pair |-> pair])]]
      f[n \in 0..Len(s)] == IF n = 0 THEN <<>> ELSE add[n][f[n - 1]]
  IN  f[Len(s)]

\* sort and reverse of the pairs of a count and (i << 1) | pair.
Ahead(x, y) == \/ x.count > y.count
               \/ x.count = y.count /\ (x.i > y.i \/ (x.i = y.i /\ x.pair /\ ~y.pair))
Counted(runs) == Sorted(runs, {xy \in Run \X Run : Ahead(xy[1], xy[2])})

\* Mutant: the instructions are not sorted before their runs are measured.
CountUnsorted ==
  /\ phase = "labels" /\ labels = <<>>
  /\ collect_pairs' = Sorted(collect_pairs, Before(TRUE))
  /\ \E runs \in {Runs(collect_single, FALSE) \o Runs(collect_pairs', TRUE)} : counter' = Counted(runs)
  /\ phase' = "done"
  /\ UNCHANGED <<file, visited, q, labels, cur_ptr, prev, collect_single>>

Count == /\ phase = "labels" /\ labels = <<>>
         /\ collect_single' = Sorted(collect_single, Before(FALSE))
         /\ collect_pairs' = Sorted(collect_pairs, Before(TRUE))
         /\ \E runs \in {Runs(collect_single', FALSE) \o Runs(collect_pairs', TRUE)} : counter' = Counted(runs)
         /\ phase' = "done"
         /\ UNCHANGED <<file, visited, q, labels, cur_ptr, prev>>

Ended == phase \in {"done", "error"} /\ UNCHANGED vars
------------------------------------------------------------------------------
CollectMarks == MarkEOF \/ MarkBranch \/ MarkOn \/ MarksDone
Analyze == \/ TakeLabel
           \/ ProcessStop \/ ProcessJump \/ ProcessBranch \/ ProcessOther \/ ProcessEOF
           \/ Count
Next == CollectMarks \/ Analyze \/ Ended

Spec == Init /\ [][Next]_vars
------------------------------------------------------------------------------
(* Properties *)

\* Types.  The worklists hold offsets of the code, as labels their bits say.
TypeOK ==
  /\ visited \in [Offsets -> SUBSET Bits]
  /\ q \in Seq({i \in Offsets : 4 \in visited[i]})
  /\ labels \in Seq({i \in Offsets : 1 \in visited[i]})
  /\ cur_ptr \in Offsets /\ prev \in Offsets \cup {0}
  /\ collect_single \in Seq(Offsets) /\ collect_pairs \in Seq(Offsets)
  /\ counter \in Seq(Run)
  /\ phase \in Phases

\* Where control may go from position i: by itself, and by a branch.
Falls(i) == IF program[i].op \in {"JMP", "RET", "EOF"} \cup Stops THEN {} ELSE {i + 1}
Target(i) == IF program[i].op \in Branches THEN {program[i].a} ELSE {}

\* The positions reachable from the public symbols.
Reachable ==
  LET R[n \in 0..Len(program)] ==
        IF n = 0 THEN SymbolSet ELSE R[n - 1] \cup UNION {Falls(i) \cup Target(i) : i \in R[n - 1]}
  IN  R[Len(program)]

\* The two traversals, with different rules, of analyze after collect_marks:
\* analyze goes only where collect_marks has been, and every label is a leader,
\* so that no path enters the middle of another's straight run unnoticed.
TraversalOnMarks ==
  phase # "collect_marks" =>
    /\ \A i \in Offsets : 1 \in visited[i] => 4 \in visited[i]
    /\ \A k \in DOMAIN labels : 2 \in visited[labels[k]]

EachOnce(s, S) == Len(s) = Cardinality(S) /\ {s[k] : k \in DOMAIN s} = S

\* Every reachable instruction is collected, and once, whichever paths lead to
\* it.
SinglesAreReachable == phase = "done" => EachOnce(collect_single, Reachable)

\* No pair spans a point where control may arrive from elsewhere, or comes back;
\* and a pair at which it cannot, whatever else of the code runs, is collected,
\* and once.
PairsAreStraight ==
  phase = "done" =>
    LET entries(S) == SymbolSet \cup UNION {Target(i) : i \in S}
        straight(S) == {i \in Reachable : /\ program[i].op \notin Branches
                                          /\ Falls(i) # {} /\ i + 1 \notin entries(S)}
        pairs == {collect_pairs[k] : k \in DOMAIN collect_pairs}
    IN  /\ EachOnce(collect_pairs, pairs)
        /\ pairs \subseteq straight(Reachable)
        /\ straight(Offsets) \subseteq pairs

\* What is printed for an instruction or a pair is the number of its occurrences
\* among those collected, and it is printed once.
CountsAreOccurrences ==
  phase = "done" =>
    LET same(pair, i, j) == program[i] = program[j] /\ (pair => program[i + 1] = program[j + 1])
        of(pair) == IF pair THEN collect_pairs ELSE collect_single
        at(c) == of(c.pair)[c.i]
    IN  /\ \A k \in DOMAIN counter :
             LET c == counter[k]
             IN  c.count = Cardinality({j \in DOMAIN of(c.pair) : same(c.pair, at(c), of(c.pair)[j])})
        /\ \A j, k \in DOMAIN counter :
             (j # k /\ counter[j].pair = counter[k].pair)
               => ~same(counter[j].pair, at(counter[j]), at(counter[k]))
        /\ \A pair \in BOOLEAN : \A n \in DOMAIN of(pair) :
             \E k \in DOMAIN counter : counter[k].pair = pair /\ same(pair, at(counter[k]), of(pair)[n])
================================================================================
