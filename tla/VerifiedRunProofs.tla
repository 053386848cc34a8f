--------------------------- MODULE VerifiedRunProofs ---------------------------
(***************************************************************************)
(* RunInv is an invariant of VerifiedRun, and its properties follow: what  *)
(* the verifier records of a code is what every run of it in order does,   *)
(* and the check at BEGIN is enough.                                       *)
(***************************************************************************)
EXTENDS VerifiedRunInvariant, VerifierProofs, SequenceTheorems

(* The verifier's part of the run *)

\* A step of the interpreter leaves the verifier's variables as they are.
LEMMA RunVerifies ==
  /\ RunInit => Init
  /\ [RunNext]_runVars => [Next]_vars
  /\ Interpreting => UNCHANGED vars
<1>1. RunInit => Init BY DEF RunInit
<1>2. Interpret!Next => UNCHANGED code
  BY DEF Interpret!Next, Interpret!Step, Interpret!Ended, Interpret!vars, Interpret!code, code,
         Interpret!Fetch, Interpret!Const, Interpret!Str, Interpret!ReadInt, Interpret!Dup,
         Interpret!Drop, Interpret!Swap, Interpret!Keep, Interpret!Fail, Interpret!Binop,
         Interpret!Test, Interpret!Length, Interpret!ToString, Interpret!Elem, Interpret!Array,
         Interpret!Sexp, Interpret!Jump, Interpret!CondJump, Interpret!Load, Interpret!LoadLink,
         Interpret!Store, Interpret!StoreElem, Interpret!StoreIndirect, Interpret!MakeClosure,
         Interpret!Call, Interpret!CallClosure, Interpret!BeginFunction, Interpret!EndFunction,
         Interpret!Handles
<1>3. Interpreting => UNCHANGED vars BY <1>2 DEF Interpreting, vars, marks
<1> QED BY <1>1, <1>3 DEF RunNext, Verifying, Rejected, Next, vars, runVars

\* All that is proved of the verifier holds in a run of the program.
THEOREM RunsVerify == RunSpec => Spec
BY RunVerifies, PTL DEF RunSpec, Spec

\* A BEGIN is recorded with no operands.
BeginsInv ==
  /\ MAIN \in Visited
  /\ \A i \in Visited : program[i].op \in Begins => visited[i] = 0

LEMMA EnterBegins ==
  ASSUME NEW v \in Depths, NEW w, NEW t, NEW d \in Nat, Enters(v, w, t, d),
         \A i \in Recorded(v) : program[i].op \in Begins => v[i] = 0,
         t \in Offsets /\ program[t].op \in Begins => d = 0
  PROVE  /\ w \in Depths /\ Recorded(v) \subseteq Recorded(w)
         /\ \A i \in Recorded(w) : program[i].op \in Begins => w[i] = 0
BY DEF Enters, Depths, Recorded, UNVISITED

\* Only a call leads to a BEGIN, and it enters its function with none.
LEMMA BeginsStep ==
  ASSUME TypeOK, TypeOK', Entered(program), BeginsInv, [Next]_vars
  PROVE  BeginsInv'
<1>1. program' = program BY ProgramKept
<1>2. /\ IsCode(program) /\ visited \in Depths /\ visited' \in Depths /\ symbol_offset \in Offsets
      /\ Visited = Recorded(visited) /\ Visited' = Recorded(visited')
  BY <1>1 DEF TypeOK, Depths, Recorded, Visited, Offsets
<1>3. CASE visited' = visited BY <1>1, <1>2, <1>3 DEF BeginsInv
<1>4. ASSUME Instr.op # "END", symbol_offset + 1 \in Offsets
      PROVE  program[symbol_offset + 1].op \notin Begins
  <2>1. symbol_offset + 1 # MAIN /\ (symbol_offset + 1) - 1 = symbol_offset
    BY <1>2, CodeFacts DEF MAIN, Offsets
  <2> QED BY <1>4, <2>1 DEF Entered, Offsets, Instr
<1>5. CASE WalkJump
  <2>1. PICK new : new = GetNewStack(Instr, cur_stack) OBVIOUS
  <2>2. Passes /\ Instr.op \in Jumps BY <1>5 DEF WalkJump
  <2>3. /\ new \in Nat
        /\ \E w : /\ Enters(visited, w, Instr.a, JumpDepth(new))
                  /\ IF Instr.op = "JMP" THEN visited' = w
                                         ELSE Enters(w, visited', symbol_offset + 1, new)
    BY <1>5, <2>1, WalkJumpFacts
  <2>4. PICK w : /\ Enters(visited, w, Instr.a, JumpDepth(new))
                 /\ IF Instr.op = "JMP" THEN visited' = w
                                        ELSE Enters(w, visited', symbol_offset + 1, new)
    BY <2>3
  <2>5. JumpDepth(new) \in Nat BY <2>3 DEF JumpDepth
  <2>6. Instr.a \in Offsets /\ program[Instr.a].op \in Begins => JumpDepth(new) = 0
    BY <1>2, <2>2 DEF Entered, Instr, Offsets, JumpDepth
  <2>7. symbol_offset + 1 \in Offsets => program[symbol_offset + 1].op \notin Begins
    BY <1>4, <2>2 DEF Jumps, CondJumps
  <2>8. /\ w \in Depths /\ Recorded(visited) \subseteq Recorded(w)
        /\ \A i \in Recorded(w) : program[i].op \in Begins => w[i] = 0
    BY <1>2, <2>4, <2>5, <2>6, EnterBegins DEF BeginsInv
  <2>9. /\ Recorded(w) \subseteq Recorded(visited')
        /\ \A i \in Recorded(visited') : program[i].op \in Begins => visited'[i] = 0
    <3>1. CASE Instr.op = "JMP" BY <2>4, <2>8, <3>1
    <3>2. CASE Instr.op # "JMP" BY <2>3, <2>4, <2>7, <2>8, <3>2, EnterBegins
    <3> QED BY <3>1, <3>2
  <2> QED BY <1>1, <1>2, <2>8, <2>9 DEF BeginsInv
<1>6. CASE WalkOn
  <2>1. PICK new : new = GetNewStack(Instr, cur_stack) OBVIOUS
  <2>2. new \in Nat /\ Enters(visited, visited', symbol_offset + 1, new)
    BY <1>6, <2>1, WalkOnFacts
  <2>3. symbol_offset + 1 \in Offsets => program[symbol_offset + 1].op \notin Begins
    BY <1>4, <1>6 DEF WalkOn, Stops
  <2>4. /\ Recorded(visited) \subseteq Recorded(visited')
        /\ \A i \in Recorded(visited') : program[i].op \in Begins => visited'[i] = 0
    BY <1>2, <2>2, <2>3, EnterBegins DEF BeginsInv
  <2> QED BY <1>1, <1>2, <2>4 DEF BeginsInv
<1>7. CASE Next /\ ~WalkJump /\ ~WalkOn
  <2>1. visited' = visited
    BY <1>7, MarksInVerify
       DEF Next, CollectMarks, TakeLabel, ThrowUnsupported, ThrowArguments, ThrowExhausted,
           ThrowAt, WalkStop, CollectMarksDone, Stopped, vars, marks
  <2> QED BY <1>3, <2>1
<1>8. CASE UNCHANGED vars BY <1>3, <1>8 DEF vars, marks
<1> QED BY <1>5, <1>6, <1>7, <1>8

LEMMA BeginsAreRecorded == Spec => [](Entered(program) => BeginsInv)
<1>1. Init => BeginsInv
  <2> SUFFICES ASSUME Init PROVE BeginsInv OBVIOUS
  <2>1. MAIN \in Offsets BY InitType, CodeFacts DEF TypeOK, Offsets
  <2> QED BY <2>1 DEF Init, BeginsInv, Visited, UNVISITED
<1>2. /\ TypeOK /\ TypeOK' /\ [Next]_vars /\ (Entered(program) => BeginsInv)
      => (Entered(program) => BeginsInv)'
  <2>1. [Next]_vars => (Entered(program)' <=> Entered(program))
    BY ProgramKept DEF Entered
  <2> QED BY <2>1, BeginsStep
<1> QED BY <1>1, <1>2, TypeCorrect, PTL DEF Spec

-----------------------------------------------------------------------------
(* Positions of an accepted code *)

Accepted ==
  /\ outcome = "accepted" /\ TypeOK /\ Traceable(program) /\ OperandsSuffice
  /\ DepthsConsistent /\ BeginsInv /\ MaxStackCovers /\ VariablesExist
  /\ \A i \in Visited : BeginOf(program, i) \in Visited

\* Control goes on at t of the same function.
FollowedBy(i, t) ==
  \/ program[i].op \notin {"JMP", "EOF", "END"} /\ t = i + 1
  \/ program[i].op \in Jumps \ {"CALL"} /\ t = program[i].a

\* Every position is in a function.
LEMMA InFunction ==
  ASSUME Accepted, NEW i \in Offsets
  PROVE  /\ i \in Nat \ {0} /\ program[i] \in Instruction
         /\ BeginOf(program, i) \in Entries /\ BeginOf(program, i) <= i
         /\ program[BeginOf(program, i)].b \in Nat /\ program[BeginOf(program, i)].a \in Nat
         /\ Reserved(i) \in Nat
         /\ BeginOf(program, i) \in Visited => VerifiedFunction(i)
<1>1. IsCode(program) /\ Compiled(program) BY DEF Accepted, TypeOK, Traceable, Coverable
<1>2. /\ Len(program) \in Nat /\ Offsets = 1..Len(program) /\ MAIN \in Offsets
      /\ program[i] \in Instruction
  BY <1>1, CodeFacts DEF Offsets
<1>3. i \in Nat \ {0} /\ MAIN \in 1..i BY <1>2 DEF MAIN
<1>4. PICK x : x = BeginOf(program, i) OBVIOUS
<1>5. /\ x \in 0..i /\ (x # 0 => program[x].op \in Begins)
      /\ \A b \in 1..i : program[b].op \in Begins => x # 0 /\ b <= x
  BY <1>3, <1>4, BeginOfFacts
<1>6. program[MAIN].op \in Begins BY <1>1 DEF Compiled
<1>7. x # 0 /\ x \in Offsets /\ x <= i /\ program[x].op \in Begins BY <1>2, <1>3, <1>5, <1>6
<1>8. program[x].a \in Nat /\ program[x].b \in Nat BY <1>1, <1>7, CodeFacts DEF Offsets
<1> QED BY <1>2, <1>3, <1>4, <1>7, <1>8 DEF Entries, Reserved, VerifiedFunction

\* What follows an instruction is no BEGIN and of its function.
LEMMA SameFunction ==
  ASSUME Accepted, NEW i \in Offsets, NEW t, FollowedBy(i, t)
  PROVE  /\ t \in Offsets /\ program[t].op \notin Begins
         /\ BeginOf(program, t) = BeginOf(program, i)
         /\ program[i].op \notin Begins => Reserved(t) = Reserved(i)
<1>1. IsCode(program) /\ Compiled(program) /\ Entered(program)
  BY DEF Accepted, TypeOK, Traceable, Coverable
<1>2. i \in Nat \ {0} BY InFunction
<1>3. CASE program[i].op \notin {"JMP", "EOF", "END"} /\ t = i + 1
  <2>1. t \in Offsets BY <1>1, <1>3, CodeFacts DEF Offsets
  <2>2. t # MAIN /\ t - 1 = i BY <1>2, <1>3 DEF MAIN
  <2>3. program[t].op \notin Begins BY <1>1, <1>3, <2>1, <2>2 DEF Entered, Offsets
  <2>4. BeginOf(program, t) = BeginOf(program, i) BY <1>2, <1>3, <2>3, BeginOfNext
  <2> QED BY <2>1, <2>3, <2>4 DEF Reserved
<1>4. CASE program[i].op \in Jumps \ {"CALL"} /\ t = program[i].a
  <2>1. t \in Offsets /\ program[t].op \notin Begins BY <1>1, <1>4 DEF Entered, Offsets
  <2>2. BeginOf(program, t) = BeginOf(program, i) BY <1>1, <1>4, <2>1 DEF Compiled, Offsets
  <2> QED BY <2>1, <2>2 DEF Reserved
<1> QED BY <1>3, <1>4 DEF FollowedBy

\* It is recorded with the depth that the instruction leaves.
LEMMA RecordedNext ==
  ASSUME Accepted, NEW i \in Visited, NEW t, FollowedBy(i, t),
         program[i].op \notin Stops \cup Unsupported
  PROVE  t \in Visited /\ visited[t] = visited[i] + Effect(program[i])
<1>1. PICK n : n = visited[i] + Effect(program[i]) OBVIOUS
<1>2. <<t, n>> \in Flow(program, i, visited[i])
  <2>1. CASE program[i].op = "JMP" \/ program[i].op \in CondJumps
    BY <1>1, <2>1 DEF FollowedBy, Flow, Jumps, CondJumps, Unsupported
  <2>2. CASE program[i].op = "CALL"
    BY <1>1, <2>2 DEF FollowedBy, Flow, Jumps, CondJumps, Unsupported
  <2>3. CASE program[i].op \notin Jumps
    BY <1>1, <2>3 DEF FollowedBy, Flow, Jumps, CondJumps, Unsupported
  <2> QED BY <2>1, <2>2, <2>3 DEF Jumps
<1>3. \A s \in Flow(program, i, visited[i]) : s[1] \in Visited /\ visited[s[1]] = s[2]
  BY DEF Accepted, DepthsConsistent, Marked
<1> QED BY <1>1, <1>2, <1>3

\* A call leads to a recorded BEGIN.
LEMMA RecordedCall ==
  ASSUME Accepted, NEW i \in Visited, program[i].op = "CALL"
  PROVE  program[i].a \in Visited
<1>1. PICK n : n = visited[i] + Effect(program[i]) OBVIOUS
<1>2. \A s \in Flow(program, i, visited[i]) : s[1] \in Visited /\ visited[s[1]] = s[2]
  BY DEF Accepted, DepthsConsistent, Marked
<1>3. Flow(program, i, visited[i]) = {<<program[i].a, 0>>, <<i + 1, n>>}
  BY <1>1 DEF Flow, CondJumps, Stops, Unsupported
<1> QED BY <1>2, <1>3

\* Operands are counted in numbers.
LEMMA CountsFacts ==
  ASSUME NEW i \in Instruction
  PROVE  Needs(i) \in Nat /\ Gives(i) \in Nat /\ Effect(i) \in Int /\ Effect(i) = Gives(i) - Needs(i)
<1>1. i.a \in Nat /\ i.b \in Nat BY DEF Instruction
<1>2. Needs(i) \in Nat BY <1>1 DEF Needs
<1>3. Gives(i) \in Nat BY DEF Gives
<1> QED BY <1>2, <1>3 DEF Effect

-----------------------------------------------------------------------------
(* Functions at a position *)

\* The account is one of numbers.
LEMMA AccountFacts ==
  ASSUME Accepted, NEW i \in Offsets, NEW base \in Int, NEW f \in Int, Accounted(i, base, f)
  PROVE  /\ Operands(i, base, f) \in Nat /\ f + Operands(i, base, f) + Reserved(i) = base
         /\ f <= base
         /\ VerifiedFunction(i) => i \in Visited /\ visited[i] = Operands(i, base, f)
         /\ ~VerifiedFunction(i) => closures # <<>>
<1>1. Reserved(i) \in Nat BY InFunction
<1>2. Operands(i, base, f) \in Int /\ Operands(i, base, f) = base - f - Reserved(i)
  BY <1>1 DEF Operands
<1>3. CASE VerifiedFunction(i)
  <2>1. i \in Visited /\ Operands(i, base, f) = visited[i] BY <1>3 DEF Accounted
  <2>2. visited[i] \in Nat BY <2>1 DEF Accepted, TypeOK, Visited
  <2> QED BY <1>1, <1>2, <1>3, <2>1, <2>2
<1>4. CASE ~VerifiedFunction(i)
  <2>1. closures # <<>> /\ Operands(i, base, f) >= 0 BY <1>4 DEF Accounted
  <2> QED BY <1>1, <1>2, <1>4, <2>1
<1> QED BY <1>3, <1>4

\* BEGIN has found room for all operands.
LEMMA RoomFound ==
  ASSUME Accepted, NEW i \in Offsets, NEW base \in Int, NEW f \in Int,
         Accounted(i, base, f), Roomy(i, base), VerifiedFunction(i), Ends(i)
  PROVE  /\ Operands(i, base, f) <= upper[BeginOf(program, i)]
         /\ program[i].op \notin Begins => f >= -1
<1>2. PICK d : d = Operands(i, base, f) OBVIOUS
<1>3. d \in Nat /\ f + d + Reserved(i) = base /\ i \in Visited /\ visited[i] = d
  BY <1>2, AccountFacts
<1>4. PICK e \in Visited : program[e].op = "END" /\ BeginOf(program, e) = BeginOf(program, i)
  BY DEF Ends
<1>5. d <= upper[BeginOf(program, i)] BY <1>3, <1>4 DEF Accepted, MaxStackCovers
<1>6. BeginOf(program, i) \in Offsets BY InFunction DEF Entries
<1>7. upper[BeginOf(program, i)] \in Nat BY <1>6 DEF Accepted, TypeOK
<1>8. Reserved(i) \in Nat BY InFunction
<1>9. ASSUME program[i].op \notin Begins PROVE f >= -1
  <2>1. base + 1 >= upper[BeginOf(program, i)] + Reserved(i) BY <1>9 DEF Roomy
  <2> QED BY <1>3, <1>5, <1>7, <1>8, <2>1
<1> QED BY <1>2, <1>5, <1>9

\* The account goes on with the instruction that follows.
LEMMA AccountNext ==
  ASSUME Accepted, NEW i \in Offsets, NEW base \in Int, NEW f \in Int, NEW t,
         Accounted(i, base, f), Roomy(i, base), FollowedBy(i, t),
         program[i].op \notin Stops \cup Unsupported \cup Begins,
         Needs(program[i]) <= Operands(i, base, f)
  PROVE  /\ t \in Offsets /\ Effect(program[i]) \in Int
         /\ Accounted(t, base, f - Effect(program[i])) /\ Roomy(t, base)
         /\ BeginOf(program, t) = BeginOf(program, i) /\ program[t].op \notin Begins
         /\ Operands(t, base, f - Effect(program[i])) = Operands(i, base, f) + Effect(program[i])
<1>2. PICK d : d = Operands(i, base, f) OBVIOUS
<1>3. PICK n : n = Effect(program[i]) OBVIOUS
<1>4. d \in Nat /\ f + d + Reserved(i) = base BY <1>2, AccountFacts
<1>5. program[i] \in Instruction /\ Reserved(i) \in Nat BY InFunction
<1>6. n \in Int /\ d + n >= 0 BY <1>2, <1>3, <1>4, <1>5, CountsFacts
<1>7. /\ t \in Offsets /\ program[t].op \notin Begins
      /\ BeginOf(program, t) = BeginOf(program, i) /\ Reserved(t) = Reserved(i)
  BY SameFunction
<1>8. Operands(t, base, f - n) = d + n BY <1>4, <1>5, <1>6, <1>7 DEF Operands
<1>9. VerifiedFunction(t) <=> VerifiedFunction(i) BY <1>7 DEF VerifiedFunction
<1>10. Accounted(t, base, f - n)
  <2>1. CASE VerifiedFunction(i)
    <3>1. i \in Visited /\ visited[i] = d BY <1>2, <2>1, AccountFacts
    <3>2. t \in Visited /\ visited[t] = d + n BY <1>3, <3>1, RecordedNext
    <3> QED BY <1>8, <1>9, <2>1, <3>2 DEF Accounted
  <2>2. CASE ~VerifiedFunction(i)
    <3>1. closures # <<>> BY <2>2, AccountFacts
    <3> QED BY <1>6, <1>8, <1>9, <2>2, <3>1 DEF Accounted
  <2> QED BY <2>1, <2>2
<1>11. Roomy(t, base) BY <1>7, <1>9 DEF Roomy, Ends
<1> QED BY <1>2, <1>3, <1>6, <1>7, <1>8, <1>10, <1>11

\* A call enters its function with no operands.
LEMMA AccountEnter ==
  ASSUME Accepted, NEW t \in Entries, NEW base \in Int, base >= -1,
         VerifiedFunction(t) \/ closures # <<>>
  PROVE  Function(t, base, base)
<1>1. t \in Offsets /\ program[t].op \in Begins BY DEF Entries
<1>2. t \in Nat \ {0} BY <1>1, InFunction
<1>3. BeginOf(program, t) = t /\ Reserved(t) = 0 BY <1>1, <1>2, BeginOfBegin DEF Reserved
<1>4. Operands(t, base, base) = 0 BY <1>3 DEF Operands
<1>5. VerifiedFunction(t) => t \in Visited BY <1>3 DEF VerifiedFunction
<1>6. t \in Visited => visited[t] = 0 BY <1>1 DEF Accepted, BeginsInv
<1> QED BY <1>1, <1>4, <1>5, <1>6 DEF Function, Accounted, Roomy

\* BEGIN reserves the locals, and finds room.
LEMMA AccountBegin ==
  ASSUME Accepted, NEW i \in Entries, NEW base \in Int, NEW f \in Int, Function(i, base, f),
         f + 1 >= upper[i] + program[i].b
  PROVE  i + 1 \in Offsets /\ Function(i + 1, base, f - program[i].b)
<1>1. i \in Offsets /\ program[i].op \in Begins BY DEF Entries
<1>2. /\ i \in Nat \ {0} /\ BeginOf(program, i) = i /\ Reserved(i) = 0
      /\ program[i].b \in Nat
  BY <1>1, InFunction, BeginOfBegin DEF Reserved
<1>3. FollowedBy(i, i + 1) BY <1>1 DEF FollowedBy, Begins
<1>4. /\ i + 1 \in Offsets /\ program[i + 1].op \notin Begins
      /\ BeginOf(program, i + 1) = i
  BY <1>1, <1>2, <1>3, SameFunction
<1>5. Reserved(i + 1) = program[i].b BY <1>4 DEF Reserved
<1>6. Accounted(i, base, f) /\ f - program[i].b >= -1
  <2>1. upper[i] \in Nat BY <1>1 DEF Accepted, TypeOK
  <2> QED BY <1>2, <2>1 DEF Function
<1>7. PICK d : d = Operands(i, base, f) OBVIOUS
<1>8. d \in Nat /\ f + d = base
  <2>1. Operands(i, base, f) \in Nat /\ f + Operands(i, base, f) + Reserved(i) = base
    BY <1>1, <1>6, AccountFacts
  <2> QED BY <1>2, <1>7, <2>1
<1>9. Operands(i + 1, base, f - program[i].b) = d
  <2>1. PICK r : r = program[i].b OBVIOUS
  <2>2. r \in Nat /\ f + d = base /\ d \in Nat BY <1>2, <1>8, <2>1
  <2>3. base - (f - r) - r = d BY <2>2
  <2> QED BY <1>5, <2>1, <2>3 DEF Operands
<1>10. VerifiedFunction(i + 1) <=> VerifiedFunction(i) BY <1>2, <1>4 DEF VerifiedFunction
<1>11. CASE VerifiedFunction(i)
  <2>1. i \in Visited /\ visited[i] = d BY <1>1, <1>6, <1>7, <1>11, AccountFacts
  <2>2. d = 0 BY <1>1, <2>1 DEF Accepted, BeginsInv
  <2>3. program[i].op \notin Stops \cup Unsupported BY <1>1 DEF Begins, Stops, Unsupported
  <2>4. Effect(program[i]) = 0 BY <1>1 DEF Effect, Gives, Needs, Begins, CondJumps
  <2>5. i + 1 \in Visited /\ visited[i + 1] = 0 BY <1>3, <2>1, <2>2, <2>3, <2>4, RecordedNext
  <2>6. Accounted(i + 1, base, f - program[i].b)
    BY <1>9, <1>10, <1>11, <2>2, <2>5 DEF Accounted
  <2>7. upper[i] \in Nat BY <1>1 DEF Accepted, TypeOK
  <2>8. Roomy(i + 1, base) BY <1>2, <1>4, <1>5, <1>8, <2>2, <2>7 DEF Roomy
  <2> QED BY <1>4, <1>6, <2>6, <2>8 DEF Function
<1>12. CASE ~VerifiedFunction(i)
  <2>1. closures # <<>> BY <1>1, <1>6, <1>12, AccountFacts
  <2> QED BY <1>4, <1>6, <1>8, <1>9, <1>10, <1>12, <2>1 DEF Function, Accounted, Roomy
<1> QED BY <1>11, <1>12

-----------------------------------------------------------------------------
(* Frames *)

LEMMA StartFacts ==
  /\ STACK \in Nat /\ Interpret!START \in Nat /\ 2 <= Interpret!START /\ Interpret!START < STACK
  /\ Interpret!Words = 0..(STACK - 1)
BY VerifiedRunAssumption, VerifierAssumption DEF Interpret!START, Interpret!Words

ArgSizesOK == arg_sizes \in Seq(Nat) /\ arg_sizes # <<>> /\ fp \in Int /\ top \in Int

LEMMA FirstSize == ArgSizesOK => arg_sizes[1] \in Nat
BY DEF ArgSizesOK

\* The words of every frame are words of the stack, above the arguments of the
\* running one.
LEMMA FrameFacts ==
  ASSUME Accepted, ArgSizesOK, NEW b, NEW at, NEW free, Chain(b, at, free),
         NEW k \in 1..Len(arg_sizes)
  PROVE  /\ Len(arg_sizes) \in Nat \ {0} /\ arg_sizes[k] \in Nat /\ arg_sizes[1] \in Nat
         /\ b[k] \in Int /\ at[k] \in Offsets /\ free[k] \in Int
         /\ Function(at[k], b[k], free[k]) /\ -1 <= free[k] /\ -1 <= b[k]
         /\ b[k] + 3 <= Interpret!START /\ free[k] <= b[k] /\ fp <= b[k]
         /\ k # 1 => fp + 3 + arg_sizes[1] <= b[k]
         /\ {b[k] + 1, b[k] + 2, b[k] + 3} \subseteq Interpret!Words
<1>1. /\ Len(arg_sizes) \in Nat \ {0} /\ \A l \in 1..Len(arg_sizes) : arg_sizes[l] \in Nat
      /\ 1 \in 1..Len(arg_sizes) /\ Len(arg_sizes) \in 1..Len(arg_sizes)
  BY DEF ArgSizesOK
<1>2. /\ \A l \in 1..Len(arg_sizes) :
           /\ b[l] \in Int /\ at[l] \in Offsets /\ free[l] \in Int
           /\ Function(at[l], b[l], free[l])
      /\ \A j, l \in 1..Len(arg_sizes) : j < l => b[j] + 3 <= b[l]
      /\ b[1] = fp /\ b[Len(arg_sizes)] = Interpret!START - 3
  BY <1>1 DEF Chain
<1>3. \A l \in 1..Len(arg_sizes) : -1 <= free[l] BY <1>2 DEF Function
<1>4. \A l \in 1..Len(arg_sizes) : free[l] <= b[l] /\ -1 <= b[l]
  <2> SUFFICES ASSUME NEW l \in 1..Len(arg_sizes) PROVE free[l] <= b[l] /\ -1 <= b[l] OBVIOUS
  <2>1. Accounted(at[l], b[l], free[l]) BY <1>2 DEF Function
  <2>2. free[l] <= b[l] BY <1>2, <2>1, AccountFacts
  <2> QED BY <1>2, <1>3, <2>2
<1>5. b[k] + 3 <= Interpret!START
  <2>1. PICK n, s : n = Len(arg_sizes) /\ s = Interpret!START OBVIOUS
  <2>2. s \in Nat /\ n \in 1..n /\ k \in 1..n /\ b[n] = s - 3 /\ b[k] \in Int
    BY <1>1, <1>2, <2>1, StartFacts
  <2>3. k = n \/ b[k] + 3 <= b[n]
    <3>1. k = n \/ k < n BY <1>1, <2>1, <2>2
    <3> QED BY <1>2, <2>1, <2>2, <3>1
  <2>4. b[k] + 3 <= s BY <2>2, <2>3
  <2> QED BY <2>1, <2>4
<1>6. fp <= b[k]
  <2>1. 1 < k \/ k = 1 BY <1>1
  <2> QED BY <1>1, <1>2, <2>1
<1>7. ASSUME k # 1 PROVE fp + 3 + arg_sizes[1] <= b[k]
  <2>1. 2 \in 2..Len(arg_sizes) /\ 2 \in 1..Len(arg_sizes) BY <1>1, <1>7
  <2>2. Stands(b[1], arg_sizes[1], at[2], b[2], free[2])
    <3>1. Stands(b[2 - 1], arg_sizes[2 - 1], at[2], b[2], free[2]) BY <2>1 DEF Chain
    <3>2. 2 - 1 = 1 OBVIOUS
    <3> QED BY <3>1, <3>2
  <2>3. Operands(at[2], b[2], free[2]) >= 1 /\ b[1] + 3 + arg_sizes[1] <= free[2] + 1
    BY <2>2 DEF Stands
  <2>4. Accounted(at[2], b[2], free[2]) BY <1>2, <2>1 DEF Function
  <2>5. /\ Operands(at[2], b[2], free[2]) \in Nat
        /\ free[2] + Operands(at[2], b[2], free[2]) + Reserved(at[2]) = b[2]
    BY <1>2, <2>1, <2>4, AccountFacts
  <2>6. Reserved(at[2]) \in Nat BY <1>2, <2>1, InFunction
  <2>7. fp + 3 + arg_sizes[1] <= b[2]
    <3>1. PICK d : d = Operands(at[2], b[2], free[2]) OBVIOUS
    <3>2. PICK r : r = Reserved(at[2]) OBVIOUS
    <3>3. fp \in Int /\ arg_sizes[1] \in Nat /\ free[2] \in Int /\ b[2] \in Int
      BY <1>1, <1>2, <2>1 DEF ArgSizesOK
    <3>4. d \in Nat /\ r \in Nat /\ d >= 1 /\ fp + 3 + arg_sizes[1] <= free[2] + 1
          /\ free[2] + d + r = b[2]
      BY <1>2, <2>3, <2>5, <2>6, <3>1, <3>2
    <3> QED BY <3>3, <3>4
  <2>8. k = 2 \/ b[2] + 3 <= b[k]
    <3>1. k = 2 \/ 2 < k BY <1>1, <1>7
    <3> QED BY <1>2, <2>1, <3>1
  <2> QED BY <1>1, <1>2, <2>1, <2>7, <2>8
<1>8. {b[k] + 1, b[k] + 2, b[k] + 3} \subseteq Interpret!Words
  <2>1. PICK x : x = b[k] OBVIOUS
  <2>2. x \in Int /\ -1 <= x /\ x + 3 <= Interpret!START BY <1>2, <1>4, <1>5, <2>1
  <2>3. x + 1 \in Interpret!Words /\ x + 2 \in Interpret!Words /\ x + 3 \in Interpret!Words
    BY <2>2, StartFacts
  <2> QED BY <2>1, <2>3
<1> QED BY <1>1, <1>2, <1>3, <1>4, <1>5, <1>6, <1>7, <1>8

\* What the verifier knows and the operands of a frame stay as they are.
LEMMA FunctionKept ==
  ASSUME UNCHANGED vars, closures # <<>> => closures' # <<>>, NEW i, NEW base, NEW f
  PROVE  /\ Offsets' = Offsets /\ Reserved(i)' = Reserved(i) /\ Declared(i)' = Declared(i)
         /\ Operands(i, base, f)' = Operands(i, base, f)
         /\ VerifiedFunction(i)' <=> VerifiedFunction(i)
         /\ Function(i, base, f) => Function(i, base, f)'
<1>1. program' = program /\ upper' = upper /\ visited' = visited BY DEF vars, code, marks
<1>2. Offsets' = Offsets /\ Visited' = Visited BY <1>1 DEF Offsets, Visited
<1>3. Reserved(i)' = Reserved(i) /\ Declared(i)' = Declared(i) BY <1>1 DEF Reserved, Declared
<1>4. Operands(i, base, f)' = Operands(i, base, f) BY <1>3 DEF Operands
<1>5. VerifiedFunction(i)' <=> VerifiedFunction(i) BY <1>1, <1>2 DEF VerifiedFunction
<1>6. Accounted(i, base, f) => Accounted(i, base, f)' BY <1>1, <1>2, <1>4, <1>5 DEF Accounted
<1>7. Roomy(i, base) => Roomy(i, base)' BY <1>1, <1>2, <1>3, <1>5 DEF Roomy, Ends
<1> QED BY <1>2, <1>3, <1>4, <1>5, <1>6, <1>7 DEF Function

\* A frame stands while its words are not written.
LEMMA StandsKept ==
  ASSUME UNCHANGED vars, NEW base, NEW n, NEW i, NEW caller, NEW f,
         Stands(base, n, i, caller, f),
         memory'[base + 1] = memory[base + 1], memory'[base + 2] = memory[base + 2],
         memory'[base + 3] = memory[base + 3]
  PROVE  Stands(base, n, i, caller, f)'
<1>1. program' = program BY DEF vars, code
<1>2. Operands(i, caller, f)' = Operands(i, caller, f) BY <1>1 DEF Operands, Reserved
<1> QED BY <1>1, <1>2 DEF Stands

\* So does the closure of a call stay where it was.
LEMMA CalledKept ==
  ASSUME UNCHANGED vars, NEW i, NEW base, NEW n, memory'[base + 1] = memory[base + 1],
         Scoped(program) => Called(i, base, n)
  PROVE  Scoped(program)' => Called(i, base, n)'
BY DEF vars, code, Called

\* A handler that keeps to the operands, locals and arguments of the running call
\* and to the globals.
Kept(m) == \A j \in Interpret!Words :
  fp < j /\ j <= Interpret!START /\ (j <= fp + 3 \/ fp + 3 + arg_sizes[1] < j) => m[j] = memory[j]

LEMMA FramesKept ==
  ASSUME Accepted, ArgSizesOK, NEW b, NEW at, NEW free, Chain(b, at, free), Kept(memory'),
         NEW k \in 1..Len(arg_sizes)
  PROVE  /\ memory'[b[k] + 1] = memory[b[k] + 1] /\ memory'[b[k] + 2] = memory[b[k] + 2]
         /\ memory'[b[k] + 3] = memory[b[k] + 3]
<1>1. /\ arg_sizes[1] \in Nat /\ b[k] \in Int /\ b[k] + 3 <= Interpret!START /\ fp <= b[k]
      /\ k # 1 => fp + 3 + arg_sizes[1] <= b[k]
      /\ b[k] + 1 \in Interpret!Words /\ b[k] + 2 \in Interpret!Words /\ b[k] + 3 \in Interpret!Words
  BY FrameFacts
<1>2. k = 1 => b[k] = fp BY DEF Chain
<1>3. fp \in Int /\ Interpret!START \in Int BY StartFacts DEF ArgSizesOK
<1>4. ASSUME NEW c \in {1, 2, 3} PROVE memory'[b[k] + c] = memory[b[k] + c]
  <2>1. PICK j : j = b[k] + c OBVIOUS
  <2>2. /\ j \in Interpret!Words /\ fp < j /\ j <= Interpret!START
        /\ j <= fp + 3 \/ fp + 3 + arg_sizes[1] < j
    <3>1. j \in Interpret!Words
      <4>1. j = b[k] + 1 \/ j = b[k] + 2 \/ j = b[k] + 3 BY <2>1
      <4> QED BY <1>1, <4>1
    <3>2. fp < j /\ j <= Interpret!START BY <1>1, <1>3, <2>1
    <3>3. CASE k = 1 BY <1>2, <1>3, <2>1, <3>1, <3>2, <3>3
    <3>4. CASE k # 1
      <4>1. PICK a : a = arg_sizes[1] OBVIOUS
      <4>2. a \in Nat /\ b[k] \in Int /\ fp + 3 + a <= b[k] BY <1>1, <3>4, <4>1
      <4>3. fp + 3 + a < j BY <1>3, <2>1, <4>2
      <4> QED BY <3>1, <3>2, <4>1, <4>3
    <3> QED BY <3>3, <3>4
  <2> QED BY <2>1, <2>2 DEF Kept
<1> QED BY <1>4

\* The frames after a step within the running one.
LEMMA StepInFrame ==
  ASSUME Accepted, ArgSizesOK, NEW b, NEW at, NEW free, Chain(b, at, free),
         UNCHANGED vars, closures # <<>> => closures' # <<>>, Kept(memory'),
         NEW i \in Offsets, NEW f \in Int, ip' = i, top' = f, UNCHANGED <<fp, arg_sizes>>,
         Function(i, fp, f), BeginOf(program, i) = BeginOf(program, ip),
         program[i].op \in Begins => f = fp
  PROVE  ChainInv'
<1> DEFINE n == Len(arg_sizes)
<1> DEFINE at2 == [at EXCEPT ![1] = i]
<1> DEFINE free2 == [free EXCEPT ![1] = f]
<1>1. n \in Nat \ {0} /\ 1 \in 1..n BY DEF ArgSizesOK
<1>2. /\ b \in [1..n -> Int] /\ at \in [1..n -> Offsets] /\ free \in [1..n -> Int]
      /\ b[1] = fp /\ at[1] = ip /\ b[n] = Interpret!START - 3 /\ memory[b[n] + 3] = Null
      /\ \A j, k \in 1..n : j < k => b[j] + 3 <= b[k]
  BY DEF Chain
<1>3. /\ at2 \in [1..n -> Offsets] /\ free2 \in [1..n -> Int] /\ at2[1] = i /\ free2[1] = f
      /\ \A k \in 1..n : k # 1 => at2[k] = at[k] /\ free2[k] = free[k]
  BY <1>1, <1>2
<1> HIDE DEF at2, free2
<1>4. Offsets' = Offsets BY FunctionKept
<1>5. memory'[b[n] + 3] = Null
  <2>1. n \in 1..n BY <1>1
  <2> QED BY <1>2, <2>1, FramesKept
<1>6. ASSUME NEW k \in 1..n PROVE Function(at2[k], b[k], free2[k])'
  <2>1. Function(at2[k], b[k], free2[k])
    <3>1. CASE k = 1 BY <1>2, <1>3, <3>1
    <3>2. CASE k # 1 BY <1>3, <3>2 DEF Chain
    <3> QED BY <3>1, <3>2
  <2> QED BY <2>1, FunctionKept
<1>7. ASSUME NEW k \in 2..n PROVE Stands(b[k - 1], arg_sizes[k - 1], at2[k], b[k], free2[k])'
  <2>1. k \in 1..n /\ k # 1 /\ k - 1 \in 1..n BY <1>1
  <2>2. Stands(b[k - 1], arg_sizes[k - 1], at[k], b[k], free[k]) BY <1>7 DEF Chain
  <2>3. PICK x : x = b[k - 1] OBVIOUS
  <2>4. PICK a : a = arg_sizes[k - 1] OBVIOUS
  <2>5. /\ memory'[x + 1] = memory[x + 1] /\ memory'[x + 2] = memory[x + 2]
        /\ memory'[x + 3] = memory[x + 3]
    BY <2>1, <2>3, FramesKept
  <2>6. Stands(x, a, at[k], b[k], free[k])' BY <2>2, <2>3, <2>4, <2>5, StandsKept
  <2>7. arg_sizes'[k - 1] = a BY <2>4
  <2> QED BY <1>3, <2>1, <2>3, <2>6, <2>7
<1>8. ASSUME Direct(program)', NEW k \in 1..n
      PROVE  VerifiedFunction(at2[k])' /\ (k < n => Declared(at2[k])' <= arg_sizes[k])
  <2>1. Direct(program) BY <1>8 DEF vars, code
  <2>2. VerifiedFunction(at[k]) /\ (k < n => Declared(at[k]) <= arg_sizes[k])
    BY <2>1 DEF Chain
  <2>3. VerifiedFunction(at2[k]) /\ (k < n => Declared(at2[k]) <= arg_sizes[k])
    <3>1. CASE k = 1 BY <1>2, <1>3, <2>2, <3>1 DEF VerifiedFunction, Declared
    <3>2. CASE k # 1 BY <1>3, <2>2, <3>2
    <3> QED BY <3>1, <3>2
  <2> QED BY <2>3, FunctionKept
<1>9. Interpret!START' = Interpret!START /\ arg_sizes' = arg_sizes /\ fp' = fp
      /\ program' = program
  BY DEF Interpret!START, vars, code
<1>12. arg_sizes[n] = 0 /\ memory'[b[n] + 1] = At(b[n] + 3) /\ BeginOf(program, at2[n]) = MAIN
  <2>1. n \in 1..n BY <1>1
  <2>2. BeginOf(program, at2[n]) = BeginOf(program, at[n])
    <3>1. CASE n = 1 BY <1>2, <1>3, <3>1
    <3>2. CASE n # 1 BY <1>3, <2>1, <3>2
    <3> QED BY <3>1, <3>2
  <2> QED BY <2>1, <2>2, FramesKept DEF Chain
<1>13. ASSUME Scoped(program)', NEW k \in 1..n PROVE Called(at2[k], b[k], arg_sizes[k])'
  <2>1. Scoped(program) BY <1>9, <1>13
  <2>2. Called(at[k], b[k], arg_sizes[k]) BY <2>1 DEF Chain
  <2>3. Called(at2[k], b[k], arg_sizes[k])
    <3>1. CASE k = 1 BY <1>2, <1>3, <2>2, <3>1 DEF Called
    <3>2. CASE k # 1 BY <1>3, <2>2, <3>2
    <3> QED BY <3>1, <3>2
  <2>4. PICK x, a : x = b[k] /\ a = arg_sizes[k] OBVIOUS
  <2>5. memory'[x + 1] = memory[x + 1] BY <2>4, FramesKept
  <2>6. Called(at2[k], x, a)' BY <1>13, <2>3, <2>4, <2>5, CalledKept
  <2> QED BY <1>9, <2>4, <2>6
<1>10. Chain(b, at2, free2)'
  <2>1. /\ b \in [1..Len(arg_sizes') -> Int] /\ at2 \in [1..Len(arg_sizes') -> Offsets']
        /\ free2 \in [1..Len(arg_sizes') -> Int]
    BY <1>2, <1>3, <1>4
  <2>2. /\ b[1] = fp' /\ at2[1] = ip' /\ free2[1] = top'
        /\ b[Len(arg_sizes')] = Interpret!START' - 3 /\ memory'[b[Len(arg_sizes')] + 3] = Null
    BY <1>2, <1>3, <1>5, <1>9
  <2>3. \A j, k \in 1..Len(arg_sizes') : j < k => b[j] + 3 <= b[k] BY <1>2
  <2>4. \A k \in 1..Len(arg_sizes') : Function(at2[k], b[k], free2[k])' BY <1>6
  <2>5. \A k \in 2..Len(arg_sizes') :
          Stands(b[k - 1], arg_sizes[k - 1], at2[k], b[k], free2[k])'
    BY <1>7
  <2>6. Direct(program)' => \A k \in 1..Len(arg_sizes') :
          VerifiedFunction(at2[k])' /\ (k < Len(arg_sizes') => Declared(at2[k])' <= arg_sizes'[k])
    BY <1>8
  <2>7. program'[ip'].op \in Begins => top' = fp' BY <1>9
  <2>8. /\ arg_sizes'[Len(arg_sizes')] = 0
        /\ memory'[b[Len(arg_sizes')] + 1] = At(b[Len(arg_sizes')] + 3)
        /\ BeginOf(program', at2[Len(arg_sizes')]) = MAIN
    BY <1>9, <1>12
  <2>9. Scoped(program)' => \A k \in 1..Len(arg_sizes') : Called(at2[k], b[k], arg_sizes[k])'
    BY <1>13
  <2> QED BY <2>1, <2>2, <2>3, <2>4, <2>5, <2>6, <2>7, <2>8, <2>9 DEF Chain
<1>11. ArgSizesOK' BY DEF ArgSizesOK
<1> QED BY <1>10, <1>11 DEF ChainInv, ArgSizesOK

-----------------------------------------------------------------------------
(* Words *)

\* What a handler writes, and where.
LEMMA WrittenFacts ==
  ASSUME NEW S, NEW m \in [Interpret!Words -> S], NEW t \in Int, NEW ws \in Seq(S)
  PROVE  /\ Interpret!Written(m, t, ws) \in [Interpret!Words -> S]
         /\ \A j \in Interpret!Words : t < j => Interpret!Written(m, t, ws)[j] = m[j]
         /\ \A k \in 1..Len(ws) : t - k + 1 \in Interpret!Words =>
              Interpret!Written(m, t, ws)[t - k + 1] = ws[k]
<1> DEFINE W == Interpret!Written(m, t, ws)
<1>1. Len(ws) \in Nat /\ \A k \in 1..Len(ws) : ws[k] \in S OBVIOUS
<1>2. W = [j \in Interpret!Words |-> IF t - Len(ws) < j /\ j <= t THEN ws[t - j + 1] ELSE m[j]]
  BY DEF Interpret!Written
<1> HIDE DEF W
<1>3. Interpret!Words \subseteq Int BY StartFacts
<1>4. ASSUME NEW j \in Interpret!Words PROVE W[j] \in S
  <2>1. CASE t - Len(ws) < j /\ j <= t
    <3>1. t - j + 1 \in 1..Len(ws) BY <1>1, <1>3, <2>1
    <3> QED BY <1>1, <1>2, <2>1, <3>1
  <2>2. CASE ~(t - Len(ws) < j /\ j <= t) BY <1>2, <2>2
  <2> QED BY <2>1, <2>2
<1>5. W \in [Interpret!Words -> S] BY <1>2, <1>4
<1>6. ASSUME NEW j \in Interpret!Words, t < j PROVE W[j] = m[j] BY <1>2, <1>3, <1>6
<1>7. ASSUME NEW k \in 1..Len(ws), t - k + 1 \in Interpret!Words PROVE W[t - k + 1] = ws[k]
  <2>1. PICK j : j = t - k + 1 OBVIOUS
  <2>2. j \in Interpret!Words /\ t - Len(ws) < j /\ j <= t /\ t - j + 1 = k
    BY <1>1, <1>7, <2>1
  <2>3. W[j] = ws[k] BY <1>2, <2>2
  <2> QED BY <2>1, <2>3
<1> QED BY <1>5, <1>6, <1>7 DEF W

\* Arguments are reversed in their place.
LEMMA ReversedFacts ==
  ASSUME NEW S, NEW m \in [Interpret!Words -> S], NEW lo \in Nat, NEW n \in Nat, lo + n <= STACK
  PROVE  /\ Interpret!Reversed(m, lo, n) \in [Interpret!Words -> S]
         /\ \A j \in Interpret!Words : lo + n <= j => Interpret!Reversed(m, lo, n)[j] = m[j]
<1> DEFINE R == Interpret!Reversed(m, lo, n)
<1>1. R = [j \in Interpret!Words |-> IF lo <= j /\ j < lo + n THEN m[lo + n - 1 - (j - lo)] ELSE m[j]]
  BY DEF Interpret!Reversed
<1> HIDE DEF R
<1>2. ASSUME NEW j \in Interpret!Words PROVE R[j] \in S /\ (lo + n <= j => R[j] = m[j])
  <2>1. CASE lo <= j /\ j < lo + n
    <3>1. lo + n - 1 - (j - lo) \in Interpret!Words BY <2>1, StartFacts
    <3>2. R[j] \in S BY <1>1, <2>1, <3>1
    <3>3. ~(lo + n <= j) BY <2>1, StartFacts
    <3> QED BY <3>2, <3>3
  <2>2. CASE ~(lo <= j /\ j < lo + n) BY <1>1, <2>2
  <2> QED BY <2>1, <2>2
<1>3. R \in [Interpret!Words -> S] BY <1>1, <1>2
<1> QED BY <1>2, <1>3 DEF R

\* The words that a step may write are sound.
LEMMA SoundWords ==
  /\ \A n \in Int : Integer(n) \in Sound
  /\ \A n \in Int : At(n) \in Sound
  /\ \A n \in Int : Code(n) \in Sound
  /\ Box \in Sound /\ Null \in Sound /\ Junk \in Sound
  /\ Interpret!Values \subseteq Sound
<1>1. /\ \A n \in Int : Integer(n) \in Sound
      /\ \A n \in Int : At(n) \in Sound
      /\ \A n \in Int : Code(n) \in Sound
  BY DEF Sound, AnyWord, Integer, At, Code
<1>2. Box \in Sound /\ Null \in Sound /\ Junk \in Sound BY DEF Sound, AnyWord, Box, Null, Junk
<1>3. Interpret!Values \subseteq Sound
  <2>1. \A n \in Ints : Interpret!Integer(n) = Integer(n) BY DEF Interpret!Integer, Integer
  <2>2. Interpret!Box = Box BY DEF Interpret!Box, Box
  <2> QED BY <1>1, <1>2, <2>1, <2>2, VerifiedRunAssumption DEF Interpret!Values
<1> QED BY <1>1, <1>2, <1>3

LEMMA ReadSound ==
  ASSUME WordsInv, NEW j
  PROVE  Interpret!Read(j) \in Sound
<1>1. Interpret!Junk = Junk BY DEF Interpret!Junk, Junk
<1> QED BY <1>1, SoundWords DEF WordsInv, Interpret!Read

\* A closure leads to the begin of a function.
LEMMA ClosureSound ==
  ASSUME WordsInv, NEW k \in DOMAIN closures
  PROVE  closures[k] \in [at : Entries, captured : Seq(Sound)]
<1>1. PICK T : T = [at : Entries, captured : Seq(Sound)] OBVIOUS
<1>2. closures \in Seq(T) BY <1>1 DEF WordsInv
<1>3. closures[k] \in T BY <1>2
<1> QED BY <1>1, <1>3

\* A captured variable holds a sound word.
LEMMA CapturedSound ==
  ASSUME WordsInv, NEW k \in Nat, Interpret!HasCapture(k)
  PROVE  /\ Interpret!Running[2] \in DOMAIN closures
         /\ closures[Interpret!Running[2]] \in [at : Entries, captured : Seq(Sound)]
         /\ k + 1 \in DOMAIN closures[Interpret!Running[2]].captured
         /\ Interpret!Captured(k) \in Sound
<1>1. PICK w : w = Interpret!Running OBVIOUS
<1>2. w \in Sound BY <1>1, ReadSound DEF Interpret!Running
<1>3. w[1] = "closure" /\ k < Len(closures[w[2]].captured) BY <1>1 DEF Interpret!HasCapture
<1>4. w[2] \in DOMAIN closures BY <1>2, <1>3 DEF Sound
<1>5. closures[w[2]] \in [at : Entries, captured : Seq(Sound)] BY <1>4, ClosureSound
<1>6. PICK s : s = closures[w[2]].captured OBVIOUS
<1>7. s \in Seq(Sound) /\ k < Len(s) BY <1>3, <1>5, <1>6
<1>8. k + 1 \in DOMAIN s /\ s[k + 1] \in Sound BY <1>7
<1>9. Interpret!Captured(k) = s[k + 1] BY <1>1, <1>6 DEF Interpret!Captured
<1> QED BY <1>1, <1>4, <1>5, <1>6, <1>8, <1>9

\* So does any variable.
LEMMA ValueSound ==
  ASSUME WordsInv, NEW low, NEW k \in Nat, Interpret!Known(low, k)
  PROVE  Interpret!Value(low, k) \in Sound
<1>1. CASE low = "Closure"
  BY <1>1, CapturedSound DEF Interpret!Known, Interpret!Value
<1>2. CASE low # "Closure" BY <1>2, ReadSound DEF Interpret!Value
<1> QED BY <1>1, <1>2

-----------------------------------------------------------------------------
(* Steps within a frame *)

Ready == Accepted /\ WordsInv /\ ChainInv /\ InOrder /\ status = "running" /\ UNCHANGED vars

Goes == WordsInv' /\ (status' = "running" => ChainInv') /\ (status' = "outside" => OutsideInv')

\* The running function has the operands and the variables of its next instruction.
LEMMA ReadyFacts ==
  ASSUME Ready
  PROVE  /\ ArgSizesOK /\ fp \in Int /\ top \in Int /\ ip \in Offsets /\ program[ip] \in Instruction
         /\ Accounted(ip, fp, top) /\ Roomy(ip, fp)
         /\ -1 <= top /\ top <= fp /\ fp + 3 <= Interpret!START
         /\ Needs(program[ip]) \in Nat /\ Reserved(ip) \in Nat /\ Operands(ip, fp, top) \in Nat
         /\ top + Operands(ip, fp, top) + Reserved(ip) = fp
         /\ Needs(program[ip]) <= Operands(ip, fp, top)
         /\ Exist(ip)
<1>1. ArgSizesOK /\ fp \in Int /\ top \in Int BY DEF Ready, ChainInv, ArgSizesOK
<1>2. PICK b, at, free : Chain(b, at, free) BY DEF Ready, ChainInv
<1>3. 1 \in 1..Len(arg_sizes) BY <1>1 DEF ArgSizesOK
<1>4. b[1] = fp /\ at[1] = ip /\ free[1] = top BY <1>2 DEF Chain
<1>5. Accepted BY DEF Ready
<1>6. /\ ip \in Offsets /\ Function(ip, fp, top) /\ -1 <= top /\ top <= fp
      /\ fp + 3 <= Interpret!START
  BY <1>1, <1>2, <1>3, <1>4, <1>5, FrameFacts
<1>7. Accounted(ip, fp, top) /\ Roomy(ip, fp) BY <1>6 DEF Function
<1>8. program[ip] \in Instruction /\ Reserved(ip) \in Nat BY <1>5, <1>6, InFunction
<1>9. Needs(program[ip]) \in Nat BY <1>8, CountsFacts
<1>10. /\ Operands(ip, fp, top) \in Nat /\ top + Operands(ip, fp, top) + Reserved(ip) = fp
       /\ VerifiedFunction(ip) => ip \in Visited /\ visited[ip] = Operands(ip, fp, top)
  BY <1>1, <1>5, <1>6, <1>7, AccountFacts
<1>11. Needs(program[ip]) <= Operands(ip, fp, top) /\ Exist(ip)
  <2>1. CASE VerifiedFunction(ip)
    BY <1>5, <1>10, <2>1 DEF Accepted, OperandsSuffice, VariablesExist
  <2>2. CASE ~VerifiedFunction(ip)
    <3>1. Needs(program[ip]) <= OperandDepth /\ Exist(ip)
      BY <1>5, <1>6, <2>2 DEF Ready, InOrder, Accepted
    <3>2. OperandDepth = Operands(ip, fp, top) BY DEF OperandDepth, Operands, Reserved
    <3> QED BY <3>1, <3>2
  <2> QED BY <2>1, <2>2
<1> QED BY <1>1, <1>6, <1>7, <1>8, <1>9, <1>10, <1>11

LEMMA WordsKept ==
  ASSUME WordsInv, UNCHANGED vars, UNCHANGED closures, memory' \in [Interpret!Words -> Sound]
  PROVE  WordsInv'
<1>1. Sound' = Sound BY DEF Sound
<1>2. Entries' = Entries BY DEF Entries, vars, code, Offsets
<1> QED BY <1>1, <1>2 DEF WordsInv, Interpret!Words

\* A run that stops leaves its words.
LEMMA StopGoes ==
  ASSUME Ready, NEW how, how # "running", how # "outside", Interpret!Stop(how)
  PROVE  Goes
<1>1. memory' = memory /\ closures' = closures /\ status' = how BY DEF Interpret!Stop
<1>2. WordsInv' BY <1>1, WordsKept DEF Ready, WordsInv
<1> QED BY <1>1, <1>2 DEF Goes

LEMMA OutsideGoes ==
  ASSUME Ready, Interpret!Stop("outside"), OutsideInv
  PROVE  Goes
<1>1. memory' = memory /\ closures' = closures /\ status' = "outside" /\ ip' = ip
  BY DEF Interpret!Stop
<1>2. WordsInv' BY <1>1, WordsKept DEF Ready, WordsInv
<1>3. program' = program /\ visited' = visited BY DEF Ready, vars, code, marks
<1>4. OutsideInv'
  BY <1>1, <1>3 DEF OutsideInv, VerifiedFunction, Ends, Visited, Offsets
<1> QED BY <1>1, <1>2, <1>4 DEF Goes

\* The next state within the frame, at position t with free slot f.
LEMMA ChainGoes ==
  ASSUME Ready, closures # <<>> => closures' # <<>>, Kept(memory'), NEW t, NEW f \in Int,
         FollowedBy(ip, t), program[ip].op \notin Stops \cup Unsupported \cup Begins,
         f = top - Effect(program[ip]), -1 <= f, ip' = t, top' = f, UNCHANGED <<fp, arg_sizes>>
  PROVE  ChainInv'
<1>1. /\ Accepted /\ UNCHANGED vars /\ ArgSizesOK /\ fp \in Int /\ top \in Int /\ ip \in Offsets
      /\ Accounted(ip, fp, top) /\ Roomy(ip, fp)
      /\ Needs(program[ip]) <= Operands(ip, fp, top)
  BY ReadyFacts DEF Ready
<1>2. /\ t \in Offsets /\ Accounted(t, fp, f) /\ Roomy(t, fp)
      /\ BeginOf(program, t) = BeginOf(program, ip) /\ program[t].op \notin Begins
  BY <1>1, AccountNext
<1>3. Function(t, fp, f) BY <1>2 DEF Function
<1>4. PICK b, at, free : Chain(b, at, free) BY DEF Ready, ChainInv
<1> QED BY <1>1, <1>2, <1>3, <1>4, StepInFrame

\* What replaces operands is written below the frame.
LEMMA WrittenKept ==
  ASSUME Ready, NEW m \in [Interpret!Words -> Sound], Kept(m), NEW t \in Int, t <= fp,
         NEW ws \in Seq(Sound)
  PROVE  /\ Interpret!Written(m, t, ws) \in [Interpret!Words -> Sound]
         /\ Kept(Interpret!Written(m, t, ws))
<1>1. /\ Interpret!Written(m, t, ws) \in [Interpret!Words -> Sound]
      /\ \A j \in Interpret!Words : t < j => Interpret!Written(m, t, ws)[j] = m[j]
  BY WrittenFacts
<1>2. fp \in Int BY ReadyFacts
<1> QED BY <1>1, <1>2, StartFacts DEF Kept

LEMMA ReversedKept ==
  ASSUME Ready, NEW n \in Nat, top + n <= fp
  PROVE  /\ Interpret!Reversed(memory, top + 1, n) \in [Interpret!Words -> Sound]
         /\ Kept(Interpret!Reversed(memory, top + 1, n))
<1>1. fp \in Int /\ top \in Int /\ -1 <= top /\ fp + 3 <= Interpret!START BY ReadyFacts
<1>2. \A lo : lo = top + 1 => lo \in Nat /\ lo + n <= STACK BY <1>1, StartFacts
<1>3. memory \in [Interpret!Words -> Sound] BY DEF Ready, WordsInv
<1>4. PICK lo : lo = top + 1 OBVIOUS
<1>5. /\ Interpret!Reversed(memory, lo, n) \in [Interpret!Words -> Sound]
      /\ \A j \in Interpret!Words :
           lo + n <= j => Interpret!Reversed(memory, lo, n)[j] = memory[j]
  <2>1. lo \in Nat /\ lo + n <= STACK BY <1>2, <1>4
  <2> QED BY <1>3, <2>1, ReversedFacts
<1>6. Kept(Interpret!Reversed(memory, lo, n)) BY <1>1, <1>4, <1>5, StartFacts DEF Kept
<1> QED BY <1>4, <1>5, <1>6

\* A handler that takes n operands and leaves ws, for which BEGIN has found room.
LEMMA ExecGoes ==
  ASSUME Ready, UNCHANGED closures, NEW m \in [Interpret!Words -> Sound], Kept(m),
         NEW temp \in Nat, temp = 0 \/ program[ip].op = "SEXP",
         NEW n \in Nat, n <= Needs(program[ip]), NEW ws \in Seq(Sound),
         Len(ws) - n = Effect(program[ip]),
         program[ip].op \notin Begins \cup Stops \cup Jumps \cup Unsupported,
         Interpret!ExecOn(m, temp, n, ws)
  PROVE  Goes
<1>1. /\ Accepted /\ fp \in Int /\ top \in Int /\ ip \in Offsets /\ program[ip] \in Instruction
      /\ Accounted(ip, fp, top) /\ Roomy(ip, fp) /\ -1 <= top
      /\ Needs(program[ip]) \in Nat /\ Reserved(ip) \in Nat /\ Operands(ip, fp, top) \in Nat
      /\ top + Operands(ip, fp, top) + Reserved(ip) = fp
      /\ Needs(program[ip]) <= Operands(ip, fp, top)
  BY ReadyFacts DEF Ready
<1>2. PICK f, l, t : f = top + n - l /\ l = Len(ws) /\ t = top + n OBVIOUS
<1>3. /\ f \in Int /\ f = top - Effect(program[ip]) /\ l \in Nat
      /\ t \in Int /\ t <= fp /\ f = t - l
  <2>1. PICK d, c, r, e : /\ d = Operands(ip, fp, top) /\ c = Needs(program[ip])
                          /\ r = Reserved(ip) /\ e = Effect(program[ip])
    OBVIOUS
  <2>2. d \in Nat /\ c \in Nat /\ r \in Nat /\ top + d + r = fp /\ c <= d BY <1>1, <2>1
  <2>3. l \in Nat BY <1>2
  <2>4. n <= c /\ l - n = e BY <1>2, <2>1
  <2>5. e \in Int /\ top - e = top + n - l BY <1>1, <2>3, <2>4
  <2>6. t \in Int /\ t <= fp /\ f = t - l /\ f \in Int /\ f = top - e
    BY <1>1, <1>2, <2>2, <2>3, <2>4, <2>5
  <2> QED BY <2>1, <2>3, <2>6
<1>4. FollowedBy(ip, ip + 1) BY DEF FollowedBy, Jumps, Stops, Unsupported
<1>5. CASE Interpret!Fits(top, temp) /\ Interpret!Fits(top + n, Len(ws))
  <2>1. /\ memory' = Interpret!Written(m, t, ws) /\ top' = f /\ ip' = ip + 1
        /\ UNCHANGED <<fp, arg_sizes, status>>
    BY <1>2, <1>5 DEF Interpret!ExecOn, Interpret!frame
  <2>2. memory' \in [Interpret!Words -> Sound] /\ Kept(memory')
    BY <1>1, <1>3, <2>1, WrittenKept
  <2>3. WordsInv' BY <2>2, WordsKept DEF Ready
  <2>4. -1 <= f
    <3>1. t - l + 1 >= 0 BY <1>2, <1>5 DEF Interpret!Fits
    <3> QED BY <1>3, <3>1
  <2>5. ChainInv' BY <1>3, <1>4, <2>1, <2>2, <2>4, ChainGoes DEF Jumps
  <2> QED BY <2>1, <2>3, <2>5 DEF Goes, Ready
<1>6. CASE ~(Interpret!Fits(top, temp) /\ Interpret!Fits(top + n, Len(ws)))
  <2>1. Interpret!Stop("outside") BY <1>6 DEF Interpret!ExecOn
  <2>2. OutsideInv
    <3> SUFFICES ASSUME ~OutsideInv PROVE FALSE OBVIOUS
    <3>1. temp = 0 /\ VerifiedFunction(ip) /\ Ends(ip) BY DEF OutsideInv
    <3>2. Interpret!Fits(top, temp) BY <1>1, <3>1 DEF Interpret!Fits
    <3>3. /\ ip + 1 \in Offsets /\ Accounted(ip + 1, fp, f) /\ Roomy(ip + 1, fp)
          /\ BeginOf(program, ip + 1) = BeginOf(program, ip) /\ program[ip + 1].op \notin Begins
      <4>1. program[ip].op \notin Stops \cup Unsupported \cup Begins OBVIOUS
      <4>2. PICK g : g = top - Effect(program[ip]) OBVIOUS
      <4>3. /\ ip + 1 \in Offsets /\ Accounted(ip + 1, fp, g) /\ Roomy(ip + 1, fp)
            /\ BeginOf(program, ip + 1) = BeginOf(program, ip)
            /\ program[ip + 1].op \notin Begins
        BY <1>1, <1>4, <4>1, <4>2, AccountNext
      <4> QED BY <1>3, <4>2, <4>3
    <3>4. VerifiedFunction(ip + 1) /\ Ends(ip + 1) BY <3>1, <3>3 DEF VerifiedFunction, Ends
    <3>5. f >= -1 BY <1>1, <1>3, <3>3, <3>4, RoomFound
    <3>6. Interpret!Fits(top + n, Len(ws))
      <4>1. t - l + 1 >= 0 BY <1>3, <3>5
      <4> QED BY <1>2, <4>1 DEF Interpret!Fits
    <3> QED BY <1>6, <3>2, <3>6
  <2> QED BY <2>1, <2>2, OutsideGoes
<1> QED BY <1>5, <1>6

\* The same for a handler that writes nothing before.
LEMMA PlainGoes ==
  ASSUME Ready, NEW n \in Nat, n <= Needs(program[ip]), NEW ws \in Seq(Sound),
         Len(ws) - n = Effect(program[ip]),
         program[ip].op \notin Begins \cup Stops \cup Jumps \cup Unsupported,
         Interpret!Exec(n, ws)
  PROVE  Goes
<1>1. Interpret!ExecOn(memory, 0, n, ws) /\ UNCHANGED closures BY DEF Interpret!Exec
<1>2. memory \in [Interpret!Words -> Sound] /\ Kept(memory) BY DEF Ready, WordsInv, Kept
<1> QED BY <1>1, <1>2, ExecGoes

-----------------------------------------------------------------------------
(* The handlers *)

LEMMA WordNames ==
  /\ \A n : Interpret!Integer(n) = Integer(n) /\ Interpret!At(n) = At(n) /\ Interpret!Code(n) = Code(n)
            /\ Interpret!Closure(n) = Closure(n) /\ Interpret!Needs(n) = Needs(n)
            /\ (Interpret!IsInt(n) <=> IsInt(n))
  /\ Interpret!Box = Box /\ Interpret!Null = Null /\ Interpret!Junk = Junk
  /\ Interpret!Instr = program[ip] /\ Interpret!Begins = Begins /\ Interpret!Unsupported = Unsupported
  /\ Interpret!CondJumps = CondJumps
BY DEF Interpret!Integer, Integer, Interpret!At, At, Interpret!Code, Code, Interpret!Closure, Closure,
       Interpret!Needs, Needs, Interpret!IsInt, IsInt, Interpret!Box, Box, Interpret!Null, Null,
       Interpret!Junk, Junk, Interpret!Instr, Interpret!Begins, Begins, Interpret!Unsupported,
       Unsupported, Interpret!CondJumps, CondJumps

\* What a handler takes and leaves.
LEMMA EffectOf ==
  ASSUME NEW i \in Instruction
  PROVE  /\ i.op \in {"CONST", "STRING", "CALL_READ", "LD", "LDA", "CLOSURE"} => Needs(i) = 0 /\ Effect(i) = 1
         /\ i.op = "DUP" => Needs(i) = 1 /\ Effect(i) = 1
         /\ i.op \in {"DROP"} \cup CondJumps => Needs(i) = 1 /\ Effect(i) = -1
         /\ i.op = "SWAP" => Needs(i) = 2 /\ Effect(i) = 0
         /\ i.op \in {"LINE", "JMP"} => Needs(i) = 0 /\ Effect(i) = 0
         /\ i.op \in {"CALL_WRITE", "TAG", "ARRAY", "CALL_LENGTH", "ST"} => Needs(i) = 1 /\ Effect(i) = 0
         /\ i.op = "PATT" => Needs(i) \in {1, 2} /\ Effect(i) = 1 - Needs(i)
         /\ i.op \in {"BINOP", "ELEM", "STI"} => Needs(i) = 2 /\ Effect(i) = -1
         /\ i.op = "STA" => Needs(i) = 3 /\ Effect(i) = -2
         /\ i.op = "CALL_ARRAY" => Needs(i) = i.a /\ Effect(i) = 1 - i.a
         /\ i.op \in {"SEXP", "CALL"} => Needs(i) = i.b /\ Effect(i) = 1 - i.b
         /\ i.op = "CALLC" => Needs(i) = i.a + 1 /\ Effect(i) = -i.a
         /\ i.op = "END" => Needs(i) = 1
         /\ i.a \in Nat /\ i.b \in Nat /\ i.caps \in Seq(Capture)
<1>1. i.a \in Nat /\ i.b \in Nat /\ i.caps \in Seq(Capture) BY DEF Instruction
<1>2. CASE i.op \in {"CONST", "STRING", "CALL_READ", "LD", "LDA", "CLOSURE", "DUP", "DROP", "SWAP", "LINE", "JMP"} \cup CondJumps
  BY <1>1, <1>2 DEF Effect, Needs, Gives, CondJumps, Begins
<1>3. CASE i.op \in {"CALL_WRITE", "TAG", "ARRAY", "CALL_LENGTH", "ST", "PATT", "END"}
  BY <1>1, <1>3 DEF Effect, Needs, Gives, CondJumps, Begins
<1>4. CASE i.op \in {"BINOP", "ELEM", "STI", "STA", "CALL_ARRAY", "SEXP", "CALL", "CALLC"}
  BY <1>1, <1>4 DEF Effect, Needs, Gives, CondJumps, Begins
<1> QED BY <1>1, <1>2, <1>3, <1>4

LEMMA ShortSeqs ==
  /\ <<>> \in Seq(Sound) /\ Len(<<>>) = 0
  /\ \A v \in Sound : <<v>> \in Seq(Sound) /\ Len(<<v>>) = 1
  /\ \A v, w \in Sound : <<v, w>> \in Seq(Sound) /\ Len(<<v, w>>) = 2
OBVIOUS

\* Instructions that neither jump, stop nor begin.
Plain == {"CONST", "STRING", "CALL_READ", "DUP", "DROP", "SWAP", "LINE", "CALL_WRITE", "BINOP", "TAG",
          "ARRAY", "PATT", "CALL_LENGTH", "ELEM", "CALL_ARRAY", "SEXP", "LD", "LDA", "ST", "STI", "STA",
          "CLOSURE"}

LEMMA PlainOps ==
  /\ \A op \in Plain : op \notin Begins \cup Stops \cup Jumps \cup Unsupported
  /\ \A op \in Plain \cup {"CALL", "CALLC"} : op \notin {"JMP", "EOF", "END"}
  /\ \A op \in Plain \cup Jumps \cup {"CALLC"} : op \notin Begins \cup Stops \cup Unsupported
BY DEF Plain, Begins, Stops, Jumps, CondJumps, Unsupported

\* The place of a variable is a number.
LEMMA PlaceType ==
  ASSUME Ready, program[ip].op \in Variables, program[ip].low # "Closure"
  PROVE  /\ Interpret!Place(program[ip].low, program[ip].a) \in Int
         /\ program[ip].low \in {"Global", "Local", "Argument"}
<1>1. ip \in Offsets /\ program[ip] \in Instruction /\ fp \in Int BY ReadyFacts
<1>2. program[ip].a \in Nat BY <1>1, EffectOf
<1>3. program[ip].low \in {"Global", "Local", "Argument"}
  BY <1>1 DEF Ready, Accepted, Traceable, Designated, Designations, Offsets
<1>4. CASE program[ip].low = "Global"
  <2>1. Interpret!Place(program[ip].low, program[ip].a) = Interpret!GlobalAt(program[ip].a)
    BY <1>4 DEF Interpret!Place
  <2> QED BY <1>2, <1>3, <2>1, VerifiedRunAssumption DEF Interpret!GlobalAt
<1>5. CASE program[ip].low = "Local" BY <1>1, <1>2, <1>3, <1>5 DEF Interpret!Place
<1>6. CASE program[ip].low = "Argument" BY <1>1, <1>2, <1>3, <1>6 DEF Interpret!Place
<1> QED BY <1>3, <1>4, <1>5, <1>6

\* Handlers that push.
LEMMA PushGoes ==
  ASSUME Ready, \/ Interpret!Const \/ Interpret!Str \/ Interpret!ReadInt \/ Interpret!Dup
                \/ Interpret!Load \/ Interpret!LoadLink
  PROVE  Goes
<1>1. ip \in Offsets /\ program[ip] \in Instruction /\ fp \in Int /\ WordsInv
  BY ReadyFacts DEF Ready
<1>2. ASSUME NEW w \in Sound, Interpret!Exec(0, <<w>>), Effect(program[ip]) = 1,
             program[ip].op \in Plain
      PROVE  Goes
  <2>1. PICK ws : ws = <<w>> OBVIOUS
  <2>2. ws \in Seq(Sound) /\ Len(ws) - 0 = Effect(program[ip]) BY <1>2, <2>1, ShortSeqs
  <2>3. 0 \in Nat /\ 0 <= Needs(program[ip]) BY ReadyFacts
  <2>4. Interpret!Exec(0, ws) BY <1>2, <2>1
  <2>5. program[ip].op \notin Begins \cup Stops \cup Jumps \cup Unsupported BY <1>2, PlainOps
  <2> QED BY <2>2, <2>3, <2>4, <2>5, PlainGoes
<1>3. CASE Interpret!Const
  <2>1. program[ip].op = "CONST" /\ Interpret!Exec(0, <<Integer(program[ip].a)>>)
    BY <1>3, WordNames DEF Interpret!Const, Interpret!Handles
  <2>2. Integer(program[ip].a) \in Sound BY <1>1, EffectOf, SoundWords
  <2> QED BY <1>1, <1>2, <2>1, <2>2, EffectOf DEF Plain
<1>4. CASE Interpret!Str
  <2>1. program[ip].op = "STRING" /\ Interpret!Exec(0, <<Box>>)
    BY <1>4, WordNames DEF Interpret!Str, Interpret!Handles
  <2> QED BY <1>1, <1>2, <2>1, EffectOf, SoundWords DEF Plain
<1>5. CASE Interpret!ReadInt
  <2>1. /\ program[ip].op = "CALL_READ"
        /\ \E n \in Ints : Interpret!Exec(0, <<Integer(n)>>)
    BY <1>5, WordNames DEF Interpret!ReadInt, Interpret!Handles
  <2>2. \A n \in Ints : Integer(n) \in Sound BY SoundWords, VerifiedRunAssumption
  <2> QED BY <1>1, <1>2, <2>1, <2>2, EffectOf DEF Plain
<1>6. CASE Interpret!Dup
  <2>1. program[ip].op = "DUP" /\ Interpret!Exec(0, <<Interpret!Peek(1)>>)
    BY <1>6, WordNames DEF Interpret!Dup, Interpret!Handles
  <2>2. Interpret!Peek(1) \in Sound BY <1>1, ReadSound DEF Interpret!Peek
  <2> QED BY <1>1, <1>2, <2>1, <2>2, EffectOf DEF Plain
<1>7. CASE Interpret!Load
  <2>1. program[ip].op = "LD"
    BY <1>7, WordNames DEF Interpret!Load, Interpret!Handles
  <2>2. CASE Interpret!Known(program[ip].low, program[ip].a)
    <3>1. Interpret!Exec(0, <<Interpret!Value(program[ip].low, program[ip].a)>>)
      BY <1>7, <2>2, WordNames DEF Interpret!Load
    <3>2. Interpret!Value(program[ip].low, program[ip].a) \in Sound
      BY <1>1, <2>2, EffectOf, ValueSound
    <3> QED BY <1>1, <1>2, <2>1, <3>1, <3>2, EffectOf DEF Plain
  <2>3. CASE ~Interpret!Known(program[ip].low, program[ip].a)
    <3>1. Interpret!Stop("undefined") BY <1>7, <2>3, WordNames DEF Interpret!Load
    <3> QED BY <3>1, StopGoes
  <2> QED BY <2>2, <2>3
<1>8. CASE Interpret!LoadLink
  <2>1. program[ip].op = "LDA"
    BY <1>8, WordNames DEF Interpret!LoadLink, Interpret!Handles
  <2>2. CASE Interpret!Known(program[ip].low, program[ip].a)
    <3>1. PICK w : w = IF program[ip].low = "Closure" THEN Interpret!Captured(program[ip].a)
                       ELSE Interpret!At(Interpret!Place(program[ip].low, program[ip].a))
      OBVIOUS
    <3>2. Interpret!Exec(0, <<w>>) BY <1>8, <2>2, <3>1, WordNames DEF Interpret!LoadLink
    <3>3. w \in Sound
      <4>1. CASE program[ip].low = "Closure"
        BY <1>1, <2>2, <3>1, <4>1, EffectOf, CapturedSound DEF Interpret!Known
      <4>2. CASE program[ip].low # "Closure"
        <5>1. w = At(Interpret!Place(program[ip].low, program[ip].a)) BY <3>1, <4>2, WordNames
        <5>2. Interpret!Place(program[ip].low, program[ip].a) \in Int
          BY <1>1, <2>1, <4>2, PlaceType DEF Variables
        <5> QED BY <5>1, <5>2, SoundWords
      <4> QED BY <4>1, <4>2
    <3> QED BY <1>1, <1>2, <2>1, <3>2, <3>3, EffectOf DEF Plain
  <2>3. CASE ~Interpret!Known(program[ip].low, program[ip].a)
    <3>1. Interpret!Stop("undefined") BY <1>8, <2>3, WordNames DEF Interpret!LoadLink
    <3> QED BY <3>1, StopGoes
  <2> QED BY <2>2, <2>3
<1> QED BY <1>3, <1>4, <1>5, <1>6, <1>7, <1>8

\* A handler that takes n operands of those it needs and leaves one word.
LEMMA OneWordGoes ==
  ASSUME Ready, NEW w \in Sound, NEW n \in Nat, n = Needs(program[ip]),
         Effect(program[ip]) = 1 - n, program[ip].op \in Plain, Interpret!Exec(n, <<w>>)
  PROVE  Goes
<1>1. PICK ws : ws = <<w>> OBVIOUS
<1>2. ws \in Seq(Sound) /\ Len(ws) = 1 BY <1>1, ShortSeqs
<1>3. Len(ws) - n = Effect(program[ip]) /\ n <= Needs(program[ip]) BY <1>2
<1>4. Interpret!Exec(n, ws) BY <1>1
<1>5. program[ip].op \notin Begins \cup Stops \cup Jumps \cup Unsupported BY PlainOps
<1> QED BY <1>2, <1>3, <1>4, <1>5, PlainGoes

\* Handlers that replace operands.
LEMMA OperatorGoes ==
  ASSUME Ready, \/ Interpret!Drop \/ Interpret!Swap \/ Interpret!Keep \/ Interpret!Fail
                \/ Interpret!Binop \/ Interpret!Test \/ Interpret!Length \/ Interpret!Elem
  PROVE  Goes
<1>1. ip \in Offsets /\ program[ip] \in Instruction /\ WordsInv BY ReadyFacts DEF Ready
<1>2. \A j : Interpret!Peek(j) \in Sound BY <1>1, ReadSound DEF Interpret!Peek
<1>3. \A n \in Ints : Integer(n) \in Sound BY SoundWords, VerifiedRunAssumption
<1>4. program[ip].op \in Plain => program[ip].op \notin Begins \cup Stops \cup Jumps \cup Unsupported
  BY PlainOps
<1>5. CASE Interpret!Drop
  <2>1. program[ip].op = "DROP" /\ Interpret!Exec(1, <<>>)
    BY <1>5, WordNames DEF Interpret!Drop, Interpret!Handles
  <2>2. Needs(program[ip]) = 1 /\ Effect(program[ip]) = -1 BY <1>1, <2>1, EffectOf
  <2>3. PICK ws : ws = <<>> OBVIOUS
  <2>4. ws \in Seq(Sound) /\ Len(ws) - 1 = Effect(program[ip]) BY <2>2, <2>3, ShortSeqs
  <2>5. Interpret!Exec(1, ws) BY <2>1, <2>3
  <2>6. program[ip].op \in Plain BY <2>1 DEF Plain
  <2>7. 1 \in Nat /\ 1 <= Needs(program[ip]) BY <2>2
  <2> QED BY <1>4, <2>4, <2>5, <2>6, <2>7, PlainGoes
<1>6. CASE Interpret!Swap
  <2>1. /\ program[ip].op = "SWAP"
        /\ Interpret!Exec(2, <<Interpret!Peek(1), Interpret!Peek(2)>>)
    BY <1>6, WordNames DEF Interpret!Swap, Interpret!Handles
  <2>2. Needs(program[ip]) = 2 /\ Effect(program[ip]) = 0 BY <1>1, <2>1, EffectOf
  <2>3. PICK ws : ws = <<Interpret!Peek(1), Interpret!Peek(2)>> OBVIOUS
  <2>4. ws \in Seq(Sound) /\ Len(ws) - 2 = Effect(program[ip]) BY <1>2, <2>2, <2>3, ShortSeqs
  <2>5. Interpret!Exec(2, ws) BY <2>1, <2>3
  <2>6. program[ip].op \in Plain BY <2>1 DEF Plain
  <2>7. 2 \in Nat /\ 2 <= Needs(program[ip]) BY <2>2
  <2> QED BY <1>4, <2>4, <2>5, <2>6, <2>7, PlainGoes
<1>7. CASE Interpret!Keep
  <2>1. program[ip].op \in {"LINE", "CALL_WRITE"} /\ Interpret!Exec(0, <<>>)
    BY <1>7, WordNames DEF Interpret!Keep, Interpret!Handles
  <2>2. Needs(program[ip]) \in Nat /\ Effect(program[ip]) = 0
    BY <1>1, <2>1, EffectOf, CountsFacts
  <2>3. PICK ws : ws = <<>> OBVIOUS
  <2>4. ws \in Seq(Sound) /\ Len(ws) - 0 = Effect(program[ip]) BY <2>2, <2>3, ShortSeqs
  <2>5. Interpret!Exec(0, ws) BY <2>1, <2>3
  <2>6. program[ip].op \in Plain BY <2>1 DEF Plain
  <2>7. 0 \in Nat /\ 0 <= Needs(program[ip]) BY <2>2
  <2> QED BY <1>4, <2>4, <2>5, <2>6, <2>7, PlainGoes
<1>8. CASE Interpret!Fail
  <2>1. Interpret!Stop("error") BY <1>8 DEF Interpret!Fail
  <2> QED BY <2>1, StopGoes
<1>9. CASE Interpret!Binop
  <2>1. /\ program[ip].op = "BINOP"
        /\ (\E n \in Ints : Interpret!Exec(2, <<Integer(n)>>)) \/ Interpret!Stop("error")
    BY <1>9, WordNames DEF Interpret!Binop, Interpret!Handles
  <2>2. Needs(program[ip]) = 2 /\ Effect(program[ip]) = 1 - 2 BY <1>1, <2>1, EffectOf
  <2>3. program[ip].op \in Plain BY <2>1 DEF Plain
  <2>4. CASE Interpret!Stop("error") BY <2>4, StopGoes
  <2>5. ASSUME NEW n \in Ints, Interpret!Exec(2, <<Integer(n)>>) PROVE Goes
    BY <1>3, <2>2, <2>3, <2>5, OneWordGoes
  <2> QED BY <2>1, <2>4, <2>5
<1>10. CASE Interpret!Test
  <2>1. /\ program[ip].op \in {"TAG", "ARRAY", "PATT"}
        /\ \E w \in Interpret!Bools : Interpret!Exec(Needs(program[ip]), <<w>>)
    BY <1>10, WordNames DEF Interpret!Test, Interpret!Handles
  <2>2. PICK w \in Interpret!Bools : Interpret!Exec(Needs(program[ip]), <<w>>) BY <2>1
  <2>3. w \in Sound BY SoundWords, WordNames DEF Interpret!Bools
  <2>4. Needs(program[ip]) \in Nat /\ Effect(program[ip]) = 1 - Needs(program[ip])
    BY <1>1, <2>1, EffectOf
  <2>5. program[ip].op \in Plain BY <2>1 DEF Plain
  <2> QED BY <2>2, <2>3, <2>4, <2>5, OneWordGoes
<1>11. CASE Interpret!Length
  <2>1. /\ program[ip].op = "CALL_LENGTH"
        /\ (\E n \in Ints : Interpret!Exec(1, <<Integer(n)>>)) \/ Interpret!Stop("undefined")
    BY <1>11, WordNames DEF Interpret!Length, Interpret!Handles
  <2>2. Needs(program[ip]) = 1 /\ Effect(program[ip]) = 1 - 1 BY <1>1, <2>1, EffectOf
  <2>3. program[ip].op \in Plain BY <2>1 DEF Plain
  <2>4. CASE Interpret!Stop("undefined") BY <2>4, StopGoes
  <2>5. ASSUME NEW n \in Ints, Interpret!Exec(1, <<Integer(n)>>) PROVE Goes
    BY <1>3, <2>2, <2>3, <2>5, OneWordGoes
  <2> QED BY <2>1, <2>4, <2>5
<1>12. CASE Interpret!Elem
  <2>1. /\ program[ip].op = "ELEM"
        /\ (\E w \in Interpret!Values : Interpret!Exec(2, <<w>>)) \/ Interpret!Stop("undefined")
    BY <1>12, WordNames DEF Interpret!Elem, Interpret!Handles
  <2>2. Needs(program[ip]) = 2 /\ Effect(program[ip]) = 1 - 2 BY <1>1, <2>1, EffectOf
  <2>3. program[ip].op \in Plain BY <2>1 DEF Plain
  <2>4. CASE Interpret!Stop("undefined") BY <2>4, StopGoes
  <2>5. ASSUME NEW w \in Interpret!Values, Interpret!Exec(2, <<w>>) PROVE Goes
    BY <2>2, <2>3, <2>5, SoundWords, OneWordGoes
  <2> QED BY <2>1, <2>4, <2>5
<1> QED BY <1>5, <1>6, <1>7, <1>8, <1>9, <1>10, <1>11, <1>12

\* Handlers that replace operands by an object.
LEMMA ObjectGoes ==
  ASSUME Ready, Interpret!Array \/ Interpret!Sexp
  PROVE  Goes
<1>1. /\ ip \in Offsets /\ program[ip] \in Instruction /\ fp \in Int /\ top \in Int /\ -1 <= top
      /\ Needs(program[ip]) \in Nat /\ Operands(ip, fp, top) \in Nat /\ Reserved(ip) \in Nat
      /\ top + Operands(ip, fp, top) + Reserved(ip) = fp
      /\ Needs(program[ip]) <= Operands(ip, fp, top)
  BY ReadyFacts
<1>2. PICK n, ws : n = Needs(program[ip]) /\ ws = <<Box>> OBVIOUS
<1>3. n \in Nat /\ top + n <= fp /\ top <= fp
  <2>1. PICK d, r : d = Operands(ip, fp, top) /\ r = Reserved(ip) OBVIOUS
  <2>2. d \in Nat /\ r \in Nat /\ n \in Nat /\ n <= d /\ top + d + r = fp BY <1>1, <1>2, <2>1
  <2> QED BY <1>1, <2>2
<1>4. ws \in Seq(Sound) /\ Len(ws) = 1 BY <1>2, SoundWords, ShortSeqs
<1>5. CASE Interpret!Array
  <2>1. /\ program[ip].op = "CALL_ARRAY" /\ UNCHANGED closures
        /\ Interpret!ExecOn(Interpret!Reversed(memory, top + 1, program[ip].a), 0, program[ip].a, <<Box>>)
    BY <1>5, WordNames DEF Interpret!Array, Interpret!Handles
  <2>2. program[ip].a = n /\ Effect(program[ip]) = 1 - n BY <1>1, <1>2, <2>1, EffectOf
  <2>3. PICK m : m = Interpret!Reversed(memory, top + 1, n) OBVIOUS
  <2>4. m \in [Interpret!Words -> Sound] /\ Kept(m) BY <1>3, <2>3, ReversedKept
  <2>5. Interpret!ExecOn(m, 0, n, ws) BY <1>2, <2>1, <2>2, <2>3
  <2>6. program[ip].op \notin Begins \cup Stops \cup Jumps \cup Unsupported
    BY <2>1, PlainOps DEF Plain
  <2>7. Len(ws) - n = Effect(program[ip]) /\ n <= Needs(program[ip]) BY <1>2, <1>3, <1>4, <2>2
  <2> QED BY <1>3, <1>4, <2>1, <2>4, <2>5, <2>6, <2>7, ExecGoes
<1>6. CASE Interpret!Sexp
  <2>1. /\ program[ip].op = "SEXP" /\ UNCHANGED closures
        /\ Interpret!ExecOn(Interpret!Written(memory, top, <<Integer(0)>>), 1, program[ip].b, <<Box>>)
    BY <1>6, WordNames DEF Interpret!Sexp, Interpret!Handles
  <2>2. program[ip].b = n /\ Effect(program[ip]) = 1 - n BY <1>1, <1>2, <2>1, EffectOf
  <2>3. PICK tag : tag = <<Integer(0)>> OBVIOUS
  <2>4. PICK m : m = Interpret!Written(memory, top, tag) OBVIOUS
  <2>5. m \in [Interpret!Words -> Sound] /\ Kept(m)
    <3>1. tag \in Seq(Sound) BY <2>3, SoundWords, ShortSeqs
    <3>2. memory \in [Interpret!Words -> Sound] /\ Kept(memory) BY DEF Ready, WordsInv, Kept
    <3> QED BY <1>1, <1>3, <2>4, <3>1, <3>2, WrittenKept
  <2>6. Interpret!ExecOn(m, 1, n, ws) BY <1>2, <2>1, <2>2, <2>3, <2>4
  <2>7. program[ip].op \notin Begins \cup Stops \cup Jumps \cup Unsupported
    BY <2>1, PlainOps DEF Plain
  <2>8. Len(ws) - n = Effect(program[ip]) /\ n <= Needs(program[ip]) BY <1>2, <1>3, <1>4, <2>2
  <2>9. 1 \in Nat OBVIOUS
  <2> QED BY <1>3, <1>4, <2>1, <2>5, <2>6, <2>7, <2>8, <2>9, ExecGoes
<1> QED BY <1>5, <1>6

\* Jumps.
LEMMA JumpGoes ==
  ASSUME Ready, Interpret!Jump \/ Interpret!CondJump
  PROVE  Goes
<1>1. /\ ip \in Offsets /\ program[ip] \in Instruction /\ top \in Int /\ -1 <= top BY ReadyFacts
<1>2. memory \in [Interpret!Words -> Sound] /\ Kept(memory) BY DEF Ready, WordsInv, Kept
<1>3. ASSUME NEW t, FollowedBy(ip, t), program[ip].op \in {"JMP"} \cup CondJumps, ip' = t,
             top' = top - Effect(program[ip]), Effect(program[ip]) \in {0, -1},
             UNCHANGED <<memory, fp, arg_sizes, closures, status>>
      PROVE  Goes
  <2>1. PICK f : f = top - Effect(program[ip]) OBVIOUS
  <2>2. f \in Int /\ -1 <= f BY <1>1, <1>3, <2>1
  <2>3. program[ip].op \notin Stops \cup Unsupported \cup Begins BY <1>3, PlainOps DEF Jumps
  <2>4. Kept(memory') BY <1>2, <1>3 DEF Kept
  <2>5. ChainInv' BY <1>3, <2>1, <2>2, <2>3, <2>4, ChainGoes
  <2>6. WordsInv' BY <1>2, <1>3, WordsKept DEF Ready
  <2> QED BY <1>3, <2>5, <2>6 DEF Goes, Ready
<1>4. CASE Interpret!Jump
  <2>1. /\ program[ip].op = "JMP" /\ ip' = program[ip].a
        /\ UNCHANGED <<memory, top, fp, arg_sizes, closures, status>>
    BY <1>4, WordNames DEF Interpret!Jump, Interpret!Handles, Interpret!frame
  <2>2. Effect(program[ip]) = 0 BY <1>1, <2>1, EffectOf
  <2>3. FollowedBy(ip, program[ip].a) BY <2>1 DEF FollowedBy, Jumps
  <2> QED BY <1>1, <1>3, <2>1, <2>2, <2>3
<1>5. CASE Interpret!CondJump
  <2>1. /\ program[ip].op \in CondJumps /\ ip' \in {program[ip].a, ip + 1} /\ top' = top + 1
        /\ UNCHANGED <<memory, fp, arg_sizes, closures, status>>
    BY <1>5, WordNames DEF Interpret!CondJump, Interpret!Handles, Interpret!frame
  <2>2. Effect(program[ip]) = -1 BY <1>1, <2>1, EffectOf
  <2>3. FollowedBy(ip, program[ip].a) /\ FollowedBy(ip, ip + 1)
    BY <2>1 DEF FollowedBy, Jumps, CondJumps
  <2>4. PICK t : t = ip' OBVIOUS
  <2>5. FollowedBy(ip, t) BY <2>1, <2>3, <2>4
  <2> QED BY <1>1, <1>3, <2>1, <2>2, <2>4, <2>5
<1> QED BY <1>4, <1>5

-----------------------------------------------------------------------------
(* Stores and closures *)

\* A store keeps to the places of the variables.
LEMMA UpdateKept ==
  ASSUME Ready, NEW j \in Interpret!Words, NEW w \in Sound,
         \/ j <= fp
         \/ fp + 3 < j /\ j <= fp + 3 + arg_sizes[1]
         \/ Interpret!START < j
  PROVE  LET m == [memory EXCEPT ![j] = w] IN m \in [Interpret!Words -> Sound] /\ Kept(m)
<1> DEFINE m == [memory EXCEPT ![j] = w]
<1>1. memory \in [Interpret!Words -> Sound] BY DEF Ready, WordsInv
<1>2. m \in [Interpret!Words -> Sound] /\ \A l \in Interpret!Words : l # j => m[l] = memory[l]
  BY <1>1
<1> HIDE DEF m
<1>3. fp \in Int /\ arg_sizes[1] \in Nat BY ReadyFacts, FirstSize
<1>4. Kept(m)
  <2> SUFFICES ASSUME NEW l \in Interpret!Words, fp < l, l <= Interpret!START,
                      l <= fp + 3 \/ fp + 3 + arg_sizes[1] < l
               PROVE  m[l] = memory[l]
    BY DEF Kept
  <2>1. l # j BY <1>3, StartFacts
  <2> QED BY <1>2, <2>1
<1> QED BY <1>2, <1>4 DEF m

\* The main call has no frame below its own.
LEMMA MainBase ==
  ASSUME Ready, Len(arg_sizes) = 1
  PROVE  fp + 3 = Interpret!START
<1>1. PICK b, at, free : Chain(b, at, free) BY DEF Ready, ChainInv
<1>2. b[1] = fp /\ b[Len(arg_sizes)] = Interpret!START - 3 BY <1>1 DEF Chain
<1> QED BY <1>2, StartFacts

\* The instruction names a variable of the running call.
LEMMA PlaceWithin ==
  ASSUME Ready, program[ip].op \in Variables, program[ip].low # "Closure",
         NEW j, j = Interpret!Place(program[ip].low, program[ip].a)
  PROVE  /\ j \in Int
         /\ \/ j <= fp
            \/ fp + 3 < j /\ j <= fp + 3 + arg_sizes[1]
            \/ Interpret!START < j
<1>1. ip \in Offsets /\ program[ip] \in Instruction /\ fp \in Int /\ Exist(ip) BY ReadyFacts
<1>2. program[ip].a \in Nat /\ arg_sizes[1] \in Nat
  <2>1. program[ip].a \in Nat BY <1>1, EffectOf
  <2> QED BY <2>1, ReadyFacts, FirstSize
<1>3. j \in Int /\ program[ip].low \in {"Global", "Local", "Argument"} BY PlaceType
<1>4. /\ program[ip].low = "Global" => program[ip].a < global_area_size
      /\ program[ip].low = "Argument" => program[ip].a < Declared(ip)
  <2>1. PICK v : v = [mem_var |-> program[ip].low, value |-> program[ip].a] OBVIOUS
  <2>2. program[ip].op # "CLOSURE" BY DEF Variables
  <2>3. v \in Named(program[ip]) BY <2>1, <2>2 DEF Named
  <2> QED BY <1>1, <2>1, <2>3 DEF Exist, Declared
<1>5. CASE program[ip].low = "Global"
  <2>1. j = STACK - program[ip].a - 1 - string_counter
    BY <1>5 DEF Interpret!Place, Interpret!GlobalAt
  <2>2. Interpret!START < j
    BY <1>2, <1>4, <1>5, <2>1, VerifiedRunAssumption, VerifierAssumption DEF Interpret!START
  <2> QED BY <1>3, <2>2
<1>6. CASE program[ip].low = "Local"
  <2>1. j = fp - program[ip].a BY <1>6 DEF Interpret!Place
  <2> QED BY <1>1, <1>2, <1>3, <2>1
<1>7. CASE program[ip].low = "Argument"
  <2>1. j = fp + 4 + program[ip].a BY <1>7 DEF Interpret!Place
  <2>2. Len(arg_sizes) = 1 \/ Declared(ip) <= arg_sizes[1]
    BY <1>1 DEF Ready, InOrder, Accepted, Declared
  <2>3. CASE Len(arg_sizes) = 1
    <3>1. fp + 3 = Interpret!START BY <2>3, MainBase
    <3> QED BY <1>1, <1>2, <1>3, <2>1, <3>1
  <2>4. CASE Declared(ip) <= arg_sizes[1]
    <3>1. PICK d : d = Declared(ip) OBVIOUS
    <3>2. d \in Nat /\ program[ip].a < d /\ d <= arg_sizes[1]
      BY <1>1, <1>4, <1>7, <2>4, <3>1, InFunction DEF Declared, Ready
    <3> QED BY <1>1, <1>2, <1>3, <2>1, <3>2
  <2> QED BY <2>2, <2>3, <2>4
<1> QED BY <1>3, <1>5, <1>6, <1>7

\* A sequence over a set is one over a larger set.
LEMMA SeqLarger ==
  ASSUME NEW A, NEW B, A \subseteq B, NEW s \in Seq(A)
  PROVE  s \in Seq(B)
<1>1. s \in [1..Len(s) -> B] /\ Len(s) \in Nat OBVIOUS
<1> QED BY <1>1

\* More closures leave the words sound.
LEMMA WordsGrow ==
  ASSUME WordsInv, UNCHANGED vars, DOMAIN closures \subseteq DOMAIN closures',
         memory' \in [Interpret!Words -> Sound'],
         closures' \in Seq([at : Entries, captured : Seq(Sound)])
  PROVE  WordsInv'
<1>1. Sound \subseteq Sound' BY DEF Sound
<1>2. Entries' = Entries BY DEF Entries, vars, code, Offsets
<1>3. PICK A, B : A = Sound /\ B = Sound' OBVIOUS
<1>4. \A s \in Seq(A) : s \in Seq(B) BY <1>1, <1>3, SeqLarger
<1>5. PICK T, U : T = [at : Entries, captured : Seq(A)] /\ U = [at : Entries, captured : Seq(B)]
  OBVIOUS
<1>6. T \subseteq U BY <1>4, <1>5
<1>7. closures' \in Seq(T) BY <1>3, <1>5
<1>8. closures' \in Seq(U) BY <1>6, <1>7, SeqLarger
<1> QED BY <1>2, <1>3, <1>5, <1>8 DEF WordsInv, Interpret!Words

\* A store to a captured variable.
LEMMA CaptureStored ==
  ASSUME WordsInv, NEW k \in Nat, Interpret!HasCapture(k), NEW w \in Sound,
         closures' = [closures EXCEPT ![Interpret!Running[2]].captured[k + 1] = w]
  PROVE  /\ closures' \in Seq([at : Entries, captured : Seq(Sound)])
         /\ DOMAIN closures \subseteq DOMAIN closures' /\ closures' # <<>>
<1>1. PICK c : c = Interpret!Running[2] OBVIOUS
<1>2. PICK A, T : A = Seq(Sound) /\ T = [at : Entries, captured : A] OBVIOUS
<1>3. /\ c \in DOMAIN closures /\ closures[c] \in T /\ k + 1 \in DOMAIN closures[c].captured
  BY <1>1, <1>2, CapturedSound
<1>4. PICK s : s = closures[c].captured OBVIOUS
<1>5. PICK r : r = [s EXCEPT ![k + 1] = w] OBVIOUS
<1>6. r \in A
  <2>1. s \in Seq(Sound) /\ k + 1 \in DOMAIN s BY <1>2, <1>3, <1>4
  <2> QED BY <1>2, <1>5, <2>1
<1>7. PICK e : e = [closures[c] EXCEPT !.captured = r] OBVIOUS
<1>8. e \in T BY <1>2, <1>3, <1>6, <1>7
<1>9. closures' = [closures EXCEPT ![c] = e] BY <1>1, <1>4, <1>5, <1>7
<1>10. closures \in Seq(T) BY <1>2 DEF WordsInv
<1>11. closures' \in Seq(T) /\ DOMAIN closures' = DOMAIN closures
  <2>1. PICK q : q = closures OBVIOUS
  <2>2. q \in Seq(T) /\ c \in DOMAIN q BY <1>3, <1>10, <2>1
  <2>3. [q EXCEPT ![c] = e] \in Seq(T) /\ DOMAIN [q EXCEPT ![c] = e] = DOMAIN q BY <1>8, <2>2
  <2> QED BY <1>9, <2>1, <2>3
<1>12. closures' # <<>> BY <1>3, <1>11
<1> QED BY <1>2, <1>11, <1>12

\* ST.
LEMMA StoreGoes ==
  ASSUME Ready, Interpret!Store
  PROVE  Goes
<1>1. /\ ip \in Offsets /\ program[ip] \in Instruction /\ top \in Int /\ -1 <= top
      /\ WordsInv /\ UNCHANGED vars
  BY ReadyFacts DEF Ready
<1>2. program[ip].op = "ST" BY WordNames DEF Interpret!Store, Interpret!Handles
<1>3. /\ Effect(program[ip]) = 0 /\ program[ip].a \in Nat /\ FollowedBy(ip, ip + 1)
      /\ program[ip].op \notin Stops \cup Unsupported \cup Begins
      /\ top = top - Effect(program[ip]) /\ program[ip].op \in Variables
  BY <1>1, <1>2, EffectOf, PlainOps DEF Plain, FollowedBy, Variables
<1>4. Interpret!Peek(1) \in Sound BY <1>1, ReadSound DEF Interpret!Peek
<1>5. PICK j : j = Interpret!Place(program[ip].low, program[ip].a) OBVIOUS
<1>6. CASE /\ program[ip].low # "Closure" /\ j \in Interpret!Words
           /\ memory' = [memory EXCEPT ![j] = Interpret!Peek(1)]
           /\ ip' = ip + 1 /\ UNCHANGED <<top, fp, arg_sizes, closures, status>>
  <2>1. memory' \in [Interpret!Words -> Sound] /\ Kept(memory')
    BY <1>3, <1>4, <1>5, <1>6, PlaceWithin, UpdateKept
  <2>2. WordsInv' BY <1>1, <1>6, <2>1, WordsKept
  <2>3. ChainInv' BY <1>1, <1>3, <1>6, <2>1, ChainGoes
  <2> QED BY <1>6, <2>2, <2>3 DEF Goes, Ready
<1>7. CASE /\ Interpret!HasCapture(program[ip].a)
           /\ closures' = [closures EXCEPT
                ![Interpret!Running[2]].captured[program[ip].a + 1] = Interpret!Peek(1)]
           /\ ip' = ip + 1 /\ UNCHANGED <<memory, top, fp, arg_sizes, status>>
  <2>1. /\ closures' \in Seq([at : Entries, captured : Seq(Sound)])
        /\ DOMAIN closures \subseteq DOMAIN closures' /\ closures' # <<>>
    BY <1>1, <1>3, <1>4, <1>7, CaptureStored
  <2>2. memory' \in [Interpret!Words -> Sound'] /\ Kept(memory')
    <3>1. Sound \subseteq Sound' BY <2>1 DEF Sound
    <3> QED BY <1>1, <1>7, <3>1 DEF WordsInv, Kept
  <2>3. WordsInv' BY <1>1, <2>1, <2>2, WordsGrow
  <2>4. ChainInv' BY <1>1, <1>3, <1>7, <2>1, <2>2, ChainGoes
  <2> QED BY <1>7, <2>3, <2>4 DEF Goes, Ready
<1>8. CASE Interpret!Stop("undefined") BY <1>8, StopGoes
<1> QED BY <1>5, <1>6, <1>7, <1>8, WordNames DEF Interpret!Store, Interpret!frame

\* STI, and STA of an element.
LEMMA IndirectGoes ==
  ASSUME Ready, Interpret!StoreElem \/ Interpret!StoreIndirect
  PROVE  Goes
<1>1. ip \in Offsets /\ program[ip] \in Instruction /\ WordsInv /\ fp \in Int /\ arg_sizes[1] \in Nat
  BY ReadyFacts, FirstSize DEF Ready
<1>2. \A j : Interpret!Peek(j) \in Sound BY <1>1, ReadSound DEF Interpret!Peek
<1>3. program[ip].op \in Plain => program[ip].op \notin Begins \cup Stops \cup Jumps \cup Unsupported
  BY PlainOps
<1>4. CASE Interpret!StoreElem
  <2>1. program[ip].op = "STA" BY <1>4, WordNames DEF Interpret!StoreElem, Interpret!Handles
  <2>2. IsInt(Interpret!Peek(2)) BY <1>1, <2>1 DEF Ready, InOrder, Accepted
  <2>3. Interpret!Exec(3, <<Interpret!Peek(1)>>) \/ Interpret!Stop("undefined")
    BY <1>4, <2>2, WordNames DEF Interpret!StoreElem
  <2>4. CASE Interpret!Stop("undefined") BY <2>4, StopGoes
  <2>5. CASE Interpret!Exec(3, <<Interpret!Peek(1)>>)
    <3>1. Needs(program[ip]) = 3 /\ Effect(program[ip]) = 1 - 3 BY <1>1, <2>1, EffectOf
    <3>2. program[ip].op \in Plain BY <2>1 DEF Plain
    <3>3. 3 \in Nat OBVIOUS
    <3> QED BY <1>2, <2>5, <3>1, <3>2, <3>3, OneWordGoes
  <2> QED BY <2>3, <2>4, <2>5
<1>5. CASE Interpret!StoreIndirect
  <2>1. program[ip].op = "STI" /\ UNCHANGED closures
    BY <1>5, WordNames DEF Interpret!StoreIndirect, Interpret!Handles
  <2>2. /\ Needs(program[ip]) = 2 /\ Effect(program[ip]) = 1 - 2 /\ program[ip].op \in Plain
        /\ 2 \in Nat /\ 2 <= Needs(program[ip])
    BY <1>1, <2>1, EffectOf DEF Plain
  <2>3. PICK z : z = Interpret!Peek(1) OBVIOUS
  <2>4. \/ Interpret!Stop("error") \/ Interpret!Stop("undefined")
        \/ Interpret!Exec(2, <<z>>)
        \/ \E w \in Interpret!Led(Interpret!Peek(2)) :
             Interpret!IsLink(z) /\ Interpret!ExecOn([memory EXCEPT ![z[2]] = w], 0, 2, <<z>>)
    BY <1>5, <2>3 DEF Interpret!StoreIndirect, Interpret!StoreThrough
  <2>5. CASE Interpret!Stop("error") \/ Interpret!Stop("undefined") BY <2>5, StopGoes
  <2>6. CASE Interpret!Exec(2, <<z>>) BY <1>2, <2>2, <2>3, <2>6, OneWordGoes
  <2>7. ASSUME NEW w \in Interpret!Led(Interpret!Peek(2)), Interpret!IsLink(z),
               Interpret!ExecOn([memory EXCEPT ![z[2]] = w], 0, 2, <<z>>)
        PROVE  Goes
    <3>1. w \in Sound
      BY <1>1, SoundWords DEF Interpret!Led, Interpret!IsLink, WordsInv
    <3>2. z[2] \in Interpret!Words BY <2>7 DEF Interpret!IsLink
    <3>3. z[2] \in Live BY <1>1, <2>1, <2>3, <2>7 DEF Ready, InOrder, Accepted
    <3>4. \/ z[2] <= fp
          \/ fp + 3 < z[2] /\ z[2] <= fp + 3 + arg_sizes[1]
          \/ Interpret!START < z[2]
      <4>1. PICK j : j = z[2] OBVIOUS
      <4>2. PICK L : L = program[BeginOf(program, ip)].b OBVIOUS
      <4>3. L \in Nat BY <1>1, <4>2, InFunction DEF Ready
      <4>4. \/ \E k \in 0..(L - 1) : j = fp - k
            \/ \E k \in 0..(arg_sizes[1] - 1) : j = fp + 4 + k
            \/ j > Interpret!START /\ j \in Interpret!Words
        BY <3>3, <4>1, <4>2 DEF Live
      <4>5. j \in Int BY <3>2, <4>1, StartFacts
      <4>6. CASE \E k \in 0..(L - 1) : j = fp - k BY <1>1, <4>1, <4>3, <4>6
      <4>7. CASE \E k \in 0..(arg_sizes[1] - 1) : j = fp + 4 + k BY <1>1, <4>1, <4>5, <4>7
      <4>8. CASE j > Interpret!START BY <4>1, <4>5, <4>8, StartFacts
      <4> QED BY <4>4, <4>6, <4>7, <4>8
    <3>5. PICK m : m = [memory EXCEPT ![z[2]] = w] OBVIOUS
    <3>6. m \in [Interpret!Words -> Sound] /\ Kept(m)
      BY <3>1, <3>2, <3>4, <3>5, UpdateKept
    <3>7. PICK ws : ws = <<z>> OBVIOUS
    <3>8. ws \in Seq(Sound) /\ Len(ws) - 2 = Effect(program[ip])
      BY <1>2, <2>2, <2>3, <3>7, ShortSeqs
    <3>9. Interpret!ExecOn(m, 0, 2, ws) BY <2>7, <3>5, <3>7
    <3>10. 0 \in Nat OBVIOUS
    <3> QED BY <1>3, <2>1, <2>2, <3>6, <3>8, <3>9, <3>10, ExecGoes
  <2> QED BY <2>4, <2>5, <2>6, <2>7
<1> QED BY <1>4, <1>5

\* CLOSURE.
LEMMA ClosureGoes ==
  ASSUME Ready, Interpret!MakeClosure
  PROVE  Goes
<1> DEFINE I == program[ip]
<1> DEFINE n == Len(I.caps)
<1> DEFINE value(k) == Interpret!Value(I.caps[k].mem_var, I.caps[k].value)
<1> DEFINE captured == [k \in 1..n |-> value(k)]
<1> DEFINE temps == [k \in 1..n |-> value(n + 1 - k)] \o <<Integer(I.a)>>
<1> DEFINE made == Closure(Len(closures) + 1)
<1>1. /\ ip \in Offsets /\ I \in Instruction /\ WordsInv /\ fp \in Int /\ top \in Int
      /\ -1 <= top /\ top <= fp /\ UNCHANGED vars /\ Entered(program)
  BY ReadyFacts DEF Ready, Accepted, Traceable
<1>2. I.op = "CLOSURE" BY WordNames DEF Interpret!MakeClosure, Interpret!Handles
<1>3. /\ Effect(I) = 1 /\ I.a \in Nat /\ I.caps \in Seq(Capture) /\ FollowedBy(ip, ip + 1)
      /\ I.op \notin Stops \cup Unsupported \cup Begins
  BY <1>1, <1>2, EffectOf, PlainOps DEF Plain, FollowedBy
<1>4. \/ Interpret!Stop("error") \/ Interpret!Stop("undefined")
      \/ /\ \A k \in 1..n : Interpret!Known(I.caps[k].mem_var, I.caps[k].value)
         /\ Interpret!ExecOn(Interpret!Written(memory, top, temps), n + 1, 0, <<made>>)
         /\ closures' = IF Interpret!Fits(top, n + 1)
                          THEN Append(closures, [at |-> I.a, captured |-> captured]) ELSE closures
  BY WordNames DEF Interpret!MakeClosure
<1>5. CASE Interpret!Stop("error") \/ Interpret!Stop("undefined") BY <1>5, StopGoes
<1>6. ASSUME \A k \in 1..n : Interpret!Known(I.caps[k].mem_var, I.caps[k].value),
             Interpret!ExecOn(Interpret!Written(memory, top, temps), n + 1, 0, <<made>>),
             closures' = IF Interpret!Fits(top, n + 1)
                           THEN Append(closures, [at |-> I.a, captured |-> captured]) ELSE closures
      PROVE  Goes
  <2>1. n \in Nat /\ \A k \in 1..n : I.caps[k].value \in Nat
    <3>1. PICK c : c = I.caps OBVIOUS
    <3>2. c \in Seq(Capture) BY <1>3, <3>1
    <3>3. \A k \in 1..Len(c) : c[k] \in Capture BY <3>2
    <3> QED BY <3>1, <3>2, <3>3 DEF Capture
  <2>2. \A k \in 1..n : value(k) \in Sound BY <1>1, <1>6, <2>1, ValueSound
  <2> HIDE DEF value
  <2>3. captured \in Seq(Sound) BY <2>1, <2>2
  <2>4. temps \in Seq(Sound)
    <3>1. \A k \in 1..n : n + 1 - k \in 1..n BY <2>1
    <3>2. [k \in 1..n |-> value(n + 1 - k)] \in Seq(Sound) BY <2>1, <2>2, <3>1
    <3>3. <<Integer(I.a)>> \in Seq(Sound) BY <1>3, SoundWords, ShortSeqs
    <3> QED BY <3>2, <3>3
  <2>5. I.a \in Entries BY <1>1, <1>2 DEF Entered, Entries, Offsets
  <2> HIDE DEF temps, captured, n
  <2>6. PICK m : m = Interpret!Written(memory, top, temps) OBVIOUS
  <2>7. m \in [Interpret!Words -> Sound] /\ Kept(m)
    <3>1. memory \in [Interpret!Words -> Sound] /\ Kept(memory) BY <1>1 DEF WordsInv, Kept
    <3> QED BY <1>1, <2>4, <2>6, <3>1, WrittenKept
  <2>8. PICK ws : ws = <<made>> OBVIOUS
  <2>9. Len(ws) = 1 BY <2>8
  <2>10. CASE Interpret!Fits(top, n + 1)
    <3>1. /\ Interpret!Fits(top + 0, 1)
          /\ top - 1 \in Int /\ -1 <= top - 1 /\ top - 1 = top - Effect(I)
      BY <1>1, <1>3, <2>1, <2>10 DEF Interpret!Fits
    <3>2. /\ memory' = Interpret!Written(m, top, ws) /\ top' = top - 1 /\ ip' = ip + 1
          /\ UNCHANGED <<fp, arg_sizes, status>>
      BY <1>1, <1>6, <2>6, <2>8, <2>9, <2>10, <3>1 DEF Interpret!ExecOn, Interpret!frame
    <3>3. PICK T : T = [at : Entries, captured : Seq(Sound)] OBVIOUS
    <3>4. PICK c : c = [at |-> I.a, captured |-> captured] OBVIOUS
    <3>5. c \in T BY <2>3, <2>5, <3>3, <3>4
    <3>6. closures \in Seq(T) BY <1>1, <3>3 DEF WordsInv
    <3>7. closures' = Append(closures, c) BY <1>6, <2>10, <3>4
    <3>8. /\ closures' \in Seq(T) /\ closures' # <<>> /\ DOMAIN closures \subseteq DOMAIN closures'
          /\ Len(closures) + 1 \in DOMAIN closures' /\ Len(closures) \in Nat
      BY <3>5, <3>6, <3>7
    <3>9. Sound \subseteq Sound' /\ made \in Sound' BY <3>8 DEF Sound, AnyWord, Closure
    <3>10. PICK S : S = Sound' OBVIOUS
    <3>11. /\ memory' \in [Interpret!Words -> S]
           /\ \A j \in Interpret!Words : top < j => memory'[j] = m[j]
      <4>1. m \in [Interpret!Words -> S] BY <2>7, <3>9, <3>10
      <4>2. ws \in Seq(S) BY <2>8, <3>9, <3>10
      <4> QED BY <1>1, <3>2, <4>1, <4>2, WrittenFacts
    <3>12. Kept(memory') BY <1>1, <2>7, <3>11, StartFacts DEF Kept
    <3>13. WordsInv' BY <1>1, <3>3, <3>8, <3>10, <3>11, WordsGrow
    <3>14. ChainInv' BY <1>3, <3>1, <3>2, <3>8, <3>12, ChainGoes
    <3> QED BY <3>2, <3>13, <3>14 DEF Goes, Ready
  <2>11. CASE ~Interpret!Fits(top, n + 1)
    <3>1. Interpret!Stop("outside") BY <1>6, <2>11 DEF Interpret!ExecOn
    <3>2. OutsideInv BY <1>2 DEF OutsideInv
    <3> QED BY <3>1, <3>2, OutsideGoes
  <2> QED BY <2>10, <2>11
<1> QED BY <1>4, <1>5, <1>6

-----------------------------------------------------------------------------
(* Calls and returns *)

\* A frame pushed onto those there are.
LEMMA PushFrame ==
  ASSUME Accepted, ArgSizesOK, NEW b, NEW at, NEW free, Chain(b, at, free),
         UNCHANGED vars, UNCHANGED closures, Kept(memory'),
         NEW n \in Nat, NEW t \in Offsets, NEW base \in Int, NEW i \in Offsets, NEW g \in Int,
         Function(t, base, base), Function(i, fp, g), BeginOf(program, i) = BeginOf(program, ip),
         base + 3 <= fp, NEW caller \in Int, caller = fp, Stands(base, n, i, caller, g)',
         Direct(program) => VerifiedFunction(t) /\ Declared(t) <= n,
         Scoped(program) => Called(t, base, n)',
         ip' = t, top' = base, fp' = base, arg_sizes' = <<n>> \o arg_sizes
  PROVE  ChainInv'
<1>0. PICK N : N = Len(arg_sizes) OBVIOUS
<1> DEFINE b2 == [k \in 1..(N + 1) |-> IF k = 1 THEN base ELSE b[k - 1]]
<1> DEFINE at2 == [k \in 1..(N + 1) |-> IF k = 1 THEN t ELSE IF k = 2 THEN i ELSE at[k - 1]]
<1> DEFINE free2 == [k \in 1..(N + 1) |-> IF k = 1 THEN base ELSE IF k = 2 THEN g ELSE free[k - 1]]
<1>1. N \in Nat \ {0} /\ 1 \in 1..N /\ N \in 1..N BY <1>0 DEF ArgSizesOK
<1>2. /\ b \in [1..N -> Int] /\ at \in [1..N -> Offsets] /\ free \in [1..N -> Int]
      /\ b[1] = fp /\ at[1] = ip /\ b[N] = Interpret!START - 3 /\ memory[b[N] + 3] = Null
      /\ \A j, k \in 1..N : j < k => b[j] + 3 <= b[k]
  BY <1>0 DEF Chain
<1>3. /\ arg_sizes' \in Seq(Nat) /\ arg_sizes' # <<>> /\ Len(arg_sizes') = N + 1
      /\ arg_sizes'[1] = n /\ \A k \in 2..(N + 1) : arg_sizes'[k] = arg_sizes[k - 1]
  <2>1. PICK q, r : q = arg_sizes /\ r = arg_sizes' OBVIOUS
  <2>2. q \in Seq(Nat) /\ r = <<n>> \o q /\ Len(q) \in Nat BY <2>1 DEF ArgSizesOK
  <2>3. /\ r \in Seq(Nat) /\ r # <<>> /\ Len(r) = Len(q) + 1
        /\ r[1] = n /\ \A k \in 2..(Len(q) + 1) : r[k] = q[k - 1]
    BY <2>2
  <2> QED BY <1>0, <2>1, <2>3
<1>4. /\ b2 \in [1..(N + 1) -> Int] /\ at2 \in [1..(N + 1) -> Offsets]
      /\ free2 \in [1..(N + 1) -> Int]
      /\ b2[1] = base /\ at2[1] = t /\ free2[1] = base
      /\ b2[2] = caller /\ at2[2] = i /\ free2[2] = g
      /\ \A k \in 1..N : b2[k + 1] = b[k]
      /\ \A k \in 2..N : at2[k + 1] = at[k] /\ free2[k + 1] = free[k]
  <2>1. \A k \in 1..(N + 1) : k = 1 \/ k = 2 \/ k - 1 \in 1..N BY <1>1
  <2>2. 1 \in 1..(N + 1) /\ 2 \in 1..(N + 1) /\ 2 # 1 /\ 2 - 1 = 1 BY <1>1
  <2>3. \A k \in 1..N : k + 1 \in 1..(N + 1) /\ k + 1 # 1 /\ (k + 1) - 1 = k BY <1>1
  <2>4. \A k \in 2..N : k \in 1..N /\ k + 1 # 2 BY <1>1
  <2>5. fp \in Int BY DEF ArgSizesOK
  <2>6. b2 \in [1..(N + 1) -> Int] BY <1>2, <2>1, <2>2, <2>5
  <2>7. at2 \in [1..(N + 1) -> Offsets] BY <1>2, <2>1
  <2>8. free2 \in [1..(N + 1) -> Int] BY <1>2, <2>1
  <2>9. /\ b2[1] = base /\ at2[1] = t /\ free2[1] = base
        /\ b2[2] = caller /\ at2[2] = i /\ free2[2] = g
    BY <1>2, <2>2
  <2>10. \A k \in 1..N : b2[k + 1] = b[k] BY <2>3
  <2>11. \A k \in 2..N : at2[k + 1] = at[k] /\ free2[k + 1] = free[k] BY <2>3, <2>4
  <2> QED BY <2>6, <2>7, <2>8, <2>9, <2>10, <2>11
<1> HIDE DEF b2, at2, free2
<1>5. \A k \in 1..(N + 1) : k = 1 \/ k = 2 \/ (k - 1 \in 2..N /\ k = (k - 1) + 1)
  BY <1>1
<1>6. memory'[b2[N + 1] + 3] = Null /\ b2[N + 1] = Interpret!START - 3
  BY <1>0, <1>1, <1>2, <1>4, FramesKept
<1>7. \A j, k \in 1..(N + 1) : j < k => b2[j] + 3 <= b2[k]
  <2> SUFFICES ASSUME NEW j \in 1..(N + 1), NEW k \in 1..(N + 1), j < k
               PROVE  b2[j] + 3 <= b2[k]
    OBVIOUS
  <2>1. k - 1 \in 1..N /\ b2[k] = b[k - 1]
    <3>1. k - 1 \in 1..N /\ k = (k - 1) + 1 BY <1>1
    <3> QED BY <1>4, <3>1
  <2>2. CASE j = 1
    <3>1. fp <= b[k - 1] BY <1>0, <2>1, FrameFacts
    <3>2. b[k - 1] \in Int /\ fp \in Int BY <1>1, <1>2, <2>1
    <3> QED BY <1>4, <2>1, <2>2, <3>1, <3>2
  <2>3. CASE j # 1
    <3>1. j - 1 \in 1..N /\ j = (j - 1) + 1 /\ j - 1 < k - 1 BY <1>1, <2>3
    <3>2. b2[j] = b[j - 1] BY <1>4, <3>1
    <3> QED BY <1>2, <2>1, <3>1, <3>2
  <2> QED BY <2>2, <2>3
<1>8. ASSUME NEW k \in 1..(N + 1) PROVE Function(at2[k], b2[k], free2[k])'
  <2>1. Function(at2[k], b2[k], free2[k])
    <3>1. CASE k = 1 BY <1>4, <3>1
    <3>2. CASE k = 2 BY <1>4, <3>2
    <3>3. CASE k - 1 \in 2..N /\ k = (k - 1) + 1
      <4>1. PICK l : l = k - 1 OBVIOUS
      <4>2. l \in 2..N /\ l \in 1..N /\ k = l + 1 BY <1>1, <3>3, <4>1
      <4>3. Function(at[l], b[l], free[l]) BY <1>0, <4>2 DEF Chain
      <4> QED BY <1>4, <4>2, <4>3
    <3> QED BY <1>5, <3>1, <3>2, <3>3
  <2> QED BY <2>1, FunctionKept
<1>9. ASSUME NEW k \in 2..(N + 1)
      PROVE  Stands(b2[k - 1], arg_sizes[k - 1], at2[k], b2[k], free2[k])'
  <2>1. CASE k = 2
    <3>1. k - 1 = 1 BY <2>1
    <3>2. arg_sizes'[k - 1] = n /\ b2[k - 1] = base BY <1>3, <1>4, <3>1
    <3> QED BY <1>4, <2>1, <3>2
  <2>2. CASE k # 2
    <3>1. PICK l : l = k - 1 OBVIOUS
    <3>2. /\ l \in 2..N /\ l \in 1..N /\ k = l + 1 /\ l - 1 \in 1..N /\ l = (l - 1) + 1
          /\ l \in 2..(N + 1)
      BY <1>1, <2>2, <3>1
    <3>3. Stands(b[l - 1], arg_sizes[l - 1], at[l], b[l], free[l]) BY <1>0, <3>2 DEF Chain
    <3>4. PICK x, a : x = b[l - 1] /\ a = arg_sizes[l - 1] OBVIOUS
    <3>5. /\ memory'[x + 1] = memory[x + 1] /\ memory'[x + 2] = memory[x + 2]
          /\ memory'[x + 3] = memory[x + 3]
      BY <1>0, <3>2, <3>4, FramesKept
    <3>6. Stands(x, a, at[l], b[l], free[l])' BY <3>3, <3>4, <3>5, StandsKept
    <3>7. b2[l] = x BY <1>4, <3>2, <3>4
    <3>8. arg_sizes'[l] = a BY <1>3, <3>2, <3>4
    <3>9. at2[k] = at[l] /\ free2[k] = free[l] /\ b2[k] = b[l] BY <1>4, <3>2
    <3> QED BY <3>1, <3>6, <3>7, <3>8, <3>9
  <2> QED BY <2>1, <2>2
<1>10. ASSUME Direct(program)', NEW k \in 1..(N + 1)
       PROVE  VerifiedFunction(at2[k])' /\ (k < N + 1 => Declared(at2[k])' <= arg_sizes'[k])
  <2>1. Direct(program) BY <1>10 DEF vars, code
  <2>2. \A l \in 1..N : VerifiedFunction(at[l]) /\ (l < N => Declared(at[l]) <= arg_sizes[l])
    BY <1>0, <2>1 DEF Chain
  <2>3. VerifiedFunction(at2[k]) /\ (k < N + 1 => Declared(at2[k]) <= arg_sizes'[k])
    <3>1. CASE k = 1 BY <1>3, <1>4, <2>1, <3>1
    <3>2. CASE k = 2
      <4>1. VerifiedFunction(ip) /\ (1 < N => Declared(ip) <= arg_sizes[1])
        BY <1>1, <1>2, <2>2
      <4>2. VerifiedFunction(i) /\ Declared(i) = Declared(ip) BY <4>1 DEF VerifiedFunction, Declared
      <4>3. 2 \in 2..(N + 1) /\ 2 - 1 = 1 /\ (2 < N + 1 => 1 < N) BY <1>1
      <4>4. arg_sizes'[2] = arg_sizes[1] BY <1>3, <4>3
      <4> QED BY <1>4, <3>2, <4>1, <4>2, <4>3, <4>4
    <3>3. CASE k - 1 \in 2..N /\ k = (k - 1) + 1
      <4>1. PICK l : l = k - 1 OBVIOUS
      <4>2. l \in 2..N /\ l \in 1..N /\ k = l + 1 /\ (k < N + 1 => l < N) /\ k \in 2..(N + 1)
        BY <1>1, <3>3, <4>1
      <4>3. arg_sizes'[k] = arg_sizes[l] BY <1>3, <4>1, <4>2
      <4> QED BY <1>4, <2>2, <4>2, <4>3
    <3> QED BY <1>5, <3>1, <3>2, <3>3
  <2> QED BY <2>3, FunctionKept
<1>12. /\ arg_sizes'[N + 1] = 0 /\ memory'[b2[N + 1] + 1] = At(b2[N + 1] + 3)
       /\ BeginOf(program', at2[N + 1]) = MAIN
  <2>1. arg_sizes[N] = 0 /\ memory[b[N] + 1] = At(b[N] + 3) /\ BeginOf(program, at[N]) = MAIN
    BY <1>0 DEF Chain
  <2>2. memory'[b[N] + 1] = memory[b[N] + 1] BY <1>0, <1>1, FramesKept
  <2>3. N + 1 \in 2..(N + 1) /\ N + 1 - 1 = N BY <1>1
  <2>4. arg_sizes'[N + 1] = arg_sizes[N]
    <3>1. PICK k : k = N + 1 OBVIOUS
    <3>2. k \in 2..(N + 1) /\ k - 1 = N BY <1>1, <3>1
    <3>3. arg_sizes'[k] = arg_sizes[k - 1] BY <1>3, <3>2
    <3> QED BY <3>1, <3>2, <3>3
  <2>5. BeginOf(program, at2[N + 1]) = BeginOf(program, at[N])
    <3>1. CASE N = 1 BY <1>2, <1>4, <3>1
    <3>2. CASE N # 1
      <4>1. N \in 2..N BY <1>1, <3>2
      <4> QED BY <1>4, <4>1
    <3> QED BY <3>1, <3>2
  <2>6. program' = program BY DEF vars, code
  <2> QED BY <1>1, <1>4, <2>1, <2>2, <2>4, <2>5, <2>6
<1>13. ASSUME Scoped(program)', NEW k \in 1..(N + 1) PROVE Called(at2[k], b2[k], arg_sizes[k])'
  <2>1. Scoped(program) /\ program' = program BY <1>13 DEF vars, code
  <2>2. \A l \in 1..N : Called(at[l], b[l], arg_sizes[l]) BY <1>0, <2>1 DEF Chain
  <2>3. ASSUME NEW l \in 1..N, NEW j, Called(j, b[l], arg_sizes[l]), at2[k] = j, k = l + 1
        PROVE  Called(at2[k], b2[k], arg_sizes[k])'
    <3>1. PICK x, a : x = b[l] /\ a = arg_sizes[l] OBVIOUS
    <3>2. memory'[x + 1] = memory[x + 1] BY <1>0, <3>1, FramesKept
    <3>3. Called(j, x, a)' BY <2>1, <2>3, <3>1, <3>2, CalledKept
    <3>4. k \in 2..(N + 1) /\ k - 1 = l BY <1>1, <2>3
    <3>5. b2[k] = x /\ arg_sizes'[k] = a BY <1>3, <1>4, <2>3, <3>1, <3>4
    <3> QED BY <2>3, <3>3, <3>5
  <2>4. CASE k = 1
    <3>1. Called(t, base, n)' BY <2>1
    <3> QED BY <1>3, <1>4, <2>4, <3>1
  <2>5. CASE k = 2
    <3>1. PICK l : l = 1 OBVIOUS
    <3>2. l \in 1..N /\ k = l + 1 BY <1>1, <2>5, <3>1
    <3>3. Called(at[l], b[l], arg_sizes[l]) BY <2>2, <3>2
    <3>4. at[l] = ip /\ at2[k] = i BY <1>2, <1>4, <2>5, <3>1
    <3>5. Called(i, b[l], arg_sizes[l]) BY <3>3, <3>4 DEF Called
    <3> QED BY <2>3, <3>2, <3>4, <3>5
  <2>6. CASE k - 1 \in 2..N /\ k = (k - 1) + 1
    <3>1. PICK l : l = k - 1 OBVIOUS
    <3>2. l \in 2..N /\ l \in 1..N /\ k = l + 1 BY <1>1, <2>6, <3>1
    <3> QED BY <1>4, <2>2, <2>3, <3>2
  <2> QED BY <1>5, <2>4, <2>5, <2>6
<1>11. Chain(b2, at2, free2)'
  <2>1. Offsets' = Offsets BY FunctionKept
  <2>2. /\ b2 \in [1..Len(arg_sizes') -> Int] /\ at2 \in [1..Len(arg_sizes') -> Offsets']
        /\ free2 \in [1..Len(arg_sizes') -> Int]
    BY <1>3, <1>4, <2>1
  <2>3. /\ b2[1] = fp' /\ at2[1] = ip' /\ free2[1] = top'
        /\ b2[Len(arg_sizes')] = Interpret!START' - 3
        /\ memory'[b2[Len(arg_sizes')] + 3] = Null
    BY <1>3, <1>4, <1>6 DEF Interpret!START
  <2>4. \A j, k \in 1..Len(arg_sizes') : j < k => b2[j] + 3 <= b2[k] BY <1>3, <1>7
  <2>5. \A k \in 1..Len(arg_sizes') : Function(at2[k], b2[k], free2[k])' BY <1>3, <1>8
  <2>6. \A k \in 2..Len(arg_sizes') :
          Stands(b2[k - 1], arg_sizes[k - 1], at2[k], b2[k], free2[k])'
    BY <1>3, <1>9
  <2>7. Direct(program)' => \A k \in 1..Len(arg_sizes') :
          VerifiedFunction(at2[k])' /\ (k < Len(arg_sizes') => Declared(at2[k])' <= arg_sizes'[k])
    BY <1>3, <1>10
  <2>8. program'[ip'].op \in Begins => top' = fp' OBVIOUS
  <2>9. /\ arg_sizes'[Len(arg_sizes')] = 0
        /\ memory'[b2[Len(arg_sizes')] + 1] = At(b2[Len(arg_sizes')] + 3)
        /\ BeginOf(program', at2[Len(arg_sizes')]) = MAIN
    BY <1>3, <1>12
  <2>10. Scoped(program)' => \A k \in 1..Len(arg_sizes') : Called(at2[k], b2[k], arg_sizes[k])'
    BY <1>3, <1>13
  <2> QED BY <2>2, <2>3, <2>4, <2>5, <2>6, <2>7, <2>8, <2>9, <2>10 DEF Chain
<1> QED BY <1>3, <1>11 DEF ChainInv

\* The running frame popped: its caller goes on.
LEMMA PopFrame ==
  ASSUME Accepted, ArgSizesOK, NEW b, NEW at, NEW free, Chain(b, at, free), Len(arg_sizes) # 1,
         UNCHANGED vars, UNCHANGED closures,
         \A j \in Interpret!Words : b[2] < j => memory'[j] = memory[j],
         ip' = at[2], top' = free[2], fp' = b[2], arg_sizes' = Tail(arg_sizes)
  PROVE  ChainInv'
<1>0. PICK N : N = Len(arg_sizes) OBVIOUS
<1> DEFINE b2 == [k \in 1..(N - 1) |-> b[k + 1]]
<1> DEFINE at2 == [k \in 1..(N - 1) |-> at[k + 1]]
<1> DEFINE free2 == [k \in 1..(N - 1) |-> free[k + 1]]
<1>1. N \in Nat \ {0, 1} /\ 2 \in 1..N /\ N \in 1..N
  <2>1. PICK q : q = arg_sizes OBVIOUS
  <2>2. q \in Seq(Nat) /\ q # <<>> /\ Len(q) # 1 BY <2>1 DEF ArgSizesOK
  <2>3. Len(q) \in Nat \ {0, 1} BY <2>2
  <2> QED BY <1>0, <2>1, <2>3
<1>2. /\ b \in [1..N -> Int] /\ at \in [1..N -> Offsets] /\ free \in [1..N -> Int]
      /\ b[N] = Interpret!START - 3 /\ memory[b[N] + 3] = Null
      /\ \A j, k \in 1..N : j < k => b[j] + 3 <= b[k]
  BY <1>0 DEF Chain
<1>3. /\ arg_sizes' \in Seq(Nat) /\ arg_sizes' # <<>> /\ Len(arg_sizes') = N - 1
      /\ \A k \in 1..(N - 1) : arg_sizes'[k] = arg_sizes[k + 1]
  <2>1. PICK q, r : q = arg_sizes /\ r = arg_sizes' OBVIOUS
  <2>2. q \in Seq(Nat) /\ r = Tail(q) /\ Len(q) \in Nat \ {0, 1} /\ q # <<>>
    BY <1>0, <1>1, <2>1 DEF ArgSizesOK
  <2>3. /\ r \in Seq(Nat) /\ r # <<>> /\ Len(r) = Len(q) - 1
        /\ \A k \in 1..(Len(q) - 1) : r[k] = q[k + 1]
    <3>1. /\ r \in Seq(Nat) /\ Len(r) = Len(q) - 1
          /\ \A k \in 1..Len(r) : r[k] = q[k + 1]
      BY <2>2, HeadTailProperties
    <3>2. Len(q) - 1 \in Nat \ {0} BY <2>2
    <3>3. r # <<>> BY <3>1, <3>2
    <3> QED BY <3>1, <3>3
  <2> QED BY <1>0, <2>1, <2>3
<1>4. /\ b2 \in [1..(N - 1) -> Int] /\ at2 \in [1..(N - 1) -> Offsets]
      /\ free2 \in [1..(N - 1) -> Int]
      /\ \A k \in 1..(N - 1) : b2[k] = b[k + 1] /\ at2[k] = at[k + 1] /\ free2[k] = free[k + 1]
  <2>1. \A k \in 1..(N - 1) : k + 1 \in 1..N BY <1>1
  <2> QED BY <1>2, <2>1
<1> HIDE DEF b2, at2, free2
<1>5. /\ 1 \in 1..(N - 1) /\ N - 1 \in 1..(N - 1) /\ 1 + 1 = 2 /\ (N - 1) + 1 = N
      /\ \A k \in 1..(N - 1) : k + 1 \in 1..N
  BY <1>1
<1>6. ASSUME NEW k \in 2..N
      PROVE  /\ memory'[b[k] + 1] = memory[b[k] + 1] /\ memory'[b[k] + 2] = memory[b[k] + 2]
             /\ memory'[b[k] + 3] = memory[b[k] + 3]
  <2>1. k \in 1..N /\ (k = 2 \/ 2 < k) BY <1>1
  <2>2. PICK x : x = b[k] OBVIOUS
  <2>3. /\ x \in Int /\ b[2] \in Int /\ b[2] <= x
        /\ x + 1 \in Interpret!Words /\ x + 2 \in Interpret!Words /\ x + 3 \in Interpret!Words
    <3>1. k \in 1..Len(arg_sizes) BY <1>0, <2>1
    <3>2. {b[k] + 1, b[k] + 2, b[k] + 3} \subseteq Interpret!Words BY <3>1, FrameFacts
    <3>3. b[k] \in Int /\ b[2] \in Int BY <1>1, <1>2, <2>1
    <3>4. b[2] <= b[k]
      <4>1. k = 2 \/ b[2] + 3 <= b[k] BY <1>1, <1>2, <2>1
      <4> QED BY <3>3, <4>1
    <3> QED BY <2>2, <3>2, <3>3, <3>4
  <2>4. b[2] < x + 1 /\ b[2] < x + 2 /\ b[2] < x + 3 BY <2>3
  <2> QED BY <2>2, <2>3, <2>4
<1>7. memory'[b2[N - 1] + 3] = Null /\ b2[N - 1] = Interpret!START - 3
  <2>1. N \in 2..N BY <1>1
  <2> QED BY <1>2, <1>4, <1>5, <1>6, <2>1
<1>8. \A j, k \in 1..(N - 1) : j < k => b2[j] + 3 <= b2[k]
  <2> SUFFICES ASSUME NEW j \in 1..(N - 1), NEW k \in 1..(N - 1), j < k
               PROVE  b2[j] + 3 <= b2[k]
    OBVIOUS
  <2>1. j + 1 \in 1..N /\ k + 1 \in 1..N /\ j + 1 < k + 1 BY <1>1
  <2> QED BY <1>2, <1>4, <2>1
<1>9. ASSUME NEW k \in 1..(N - 1) PROVE Function(at2[k], b2[k], free2[k])'
  <2>1. PICK l : l = k + 1 OBVIOUS
  <2>2. l \in 1..N BY <1>5, <2>1
  <2>3. Function(at[l], b[l], free[l]) BY <1>0, <2>2 DEF Chain
  <2>4. Function(at2[k], b2[k], free2[k]) BY <1>4, <2>1, <2>3
  <2> QED BY <2>4, FunctionKept
<1>10. ASSUME NEW k \in 2..(N - 1)
       PROVE  Stands(b2[k - 1], arg_sizes[k - 1], at2[k], b2[k], free2[k])'
  <2>1. /\ k + 1 \in 2..N /\ k \in 2..N /\ k - 1 \in 1..(N - 1) /\ k \in 1..(N - 1)
        /\ (k + 1) - 1 = k /\ (k - 1) + 1 = k
    BY <1>1
  <2>2. PICK l : l = k + 1 OBVIOUS
  <2>3. Stands(b[l - 1], arg_sizes[l - 1], at[l], b[l], free[l]) BY <1>0, <2>1, <2>2 DEF Chain
  <2>4. PICK x, a : x = b[k] /\ a = arg_sizes[k] OBVIOUS
  <2>5. Stands(x, a, at[l], b[l], free[l]) BY <2>1, <2>2, <2>3, <2>4
  <2>6. /\ memory'[x + 1] = memory[x + 1] /\ memory'[x + 2] = memory[x + 2]
        /\ memory'[x + 3] = memory[x + 3]
    BY <1>6, <2>1, <2>4
  <2>7. Stands(x, a, at[l], b[l], free[l])' BY <2>5, <2>6, StandsKept
  <2>8. b2[k - 1] = x /\ arg_sizes'[k - 1] = a
    <3>1. b2[k - 1] = b[(k - 1) + 1] /\ arg_sizes'[k - 1] = arg_sizes[(k - 1) + 1]
      BY <1>3, <1>4, <2>1
    <3> QED BY <2>1, <2>4, <3>1
  <2>9. at2[k] = at[l] /\ b2[k] = b[l] /\ free2[k] = free[l] BY <1>4, <2>1, <2>2
  <2> QED BY <2>7, <2>8, <2>9
<1>11. ASSUME Direct(program)', NEW k \in 1..(N - 1)
       PROVE  VerifiedFunction(at2[k])' /\ (k < N - 1 => Declared(at2[k])' <= arg_sizes'[k])
  <2>1. Direct(program) BY <1>11 DEF vars, code
  <2>2. PICK l : l = k + 1 OBVIOUS
  <2>3. l \in 1..N /\ (k < N - 1 => l < N) BY <1>1, <2>2
  <2>4. VerifiedFunction(at[l]) /\ (l < N => Declared(at[l]) <= arg_sizes[l])
    BY <1>0, <2>1, <2>3 DEF Chain
  <2>5. VerifiedFunction(at2[k]) /\ (k < N - 1 => Declared(at2[k]) <= arg_sizes'[k])
    BY <1>3, <1>4, <2>2, <2>3, <2>4
  <2> QED BY <2>5, FunctionKept
<1>14. /\ arg_sizes'[N - 1] = 0 /\ memory'[b2[N - 1] + 1] = At(b2[N - 1] + 3)
       /\ BeginOf(program', at2[N - 1]) = MAIN
  <2>1. arg_sizes[N] = 0 /\ memory[b[N] + 1] = At(b[N] + 3) /\ BeginOf(program, at[N]) = MAIN
    BY <1>0 DEF Chain
  <2>2. N \in 2..N BY <1>1
  <2>3. memory'[b[N] + 1] = memory[b[N] + 1] BY <1>6, <2>2
  <2>4. PICK k : k = N - 1 OBVIOUS
  <2>5. k \in 1..(N - 1) /\ k + 1 = N BY <1>1, <2>4
  <2>6. arg_sizes'[k] = arg_sizes[N] /\ b2[k] = b[N] /\ at2[k] = at[N] BY <1>3, <1>4, <2>5
  <2>7. program' = program BY DEF vars, code
  <2> QED BY <2>1, <2>3, <2>4, <2>6, <2>7
<1>15. ASSUME Scoped(program)', NEW k \in 1..(N - 1) PROVE Called(at2[k], b2[k], arg_sizes[k])'
  <2>1. Scoped(program) BY <1>15 DEF vars, code
  <2>2. PICK l, x, a : l = k + 1 /\ x = b[l] /\ a = arg_sizes[l] OBVIOUS
  <2>3. l \in 2..N /\ l \in 1..N BY <1>1, <2>2
  <2>4. Called(at[l], x, a) BY <1>0, <2>1, <2>2, <2>3 DEF Chain
  <2>5. memory'[x + 1] = memory[x + 1] BY <1>6, <2>2, <2>3
  <2>6. Called(at[l], x, a)' BY <2>1, <2>4, <2>5, CalledKept DEF vars, code
  <2>7. at2[k] = at[l] /\ b2[k] = x /\ arg_sizes'[k] = a BY <1>3, <1>4, <2>2
  <2> QED BY <2>6, <2>7
<1>16. program'[ip'].op \notin Begins
  <2>1. 2 \in 2..Len(arg_sizes) BY <1>0, <1>1
  <2>2. Stands(b[2 - 1], arg_sizes[2 - 1], at[2], b[2], free[2]) BY <2>1 DEF Chain
  <2> QED BY <2>2 DEF Stands, vars, code
<1>12. Chain(b2, at2, free2)'
  <2>1. Offsets' = Offsets BY FunctionKept
  <2>2. /\ b2 \in [1..Len(arg_sizes') -> Int] /\ at2 \in [1..Len(arg_sizes') -> Offsets']
        /\ free2 \in [1..Len(arg_sizes') -> Int]
    BY <1>3, <1>4, <2>1
  <2>3. /\ b2[1] = fp' /\ at2[1] = ip' /\ free2[1] = top'
        /\ b2[Len(arg_sizes')] = Interpret!START' - 3
        /\ memory'[b2[Len(arg_sizes')] + 3] = Null
    BY <1>3, <1>4, <1>5, <1>7 DEF Interpret!START
  <2>4. \A j, k \in 1..Len(arg_sizes') : j < k => b2[j] + 3 <= b2[k] BY <1>3, <1>8
  <2>5. \A k \in 1..Len(arg_sizes') : Function(at2[k], b2[k], free2[k])' BY <1>3, <1>9
  <2>6. \A k \in 2..Len(arg_sizes') :
          Stands(b2[k - 1], arg_sizes[k - 1], at2[k], b2[k], free2[k])'
    BY <1>3, <1>10
  <2>7. Direct(program)' => \A k \in 1..Len(arg_sizes') :
          VerifiedFunction(at2[k])' /\ (k < Len(arg_sizes') => Declared(at2[k])' <= arg_sizes'[k])
    BY <1>3, <1>11
  <2>8. /\ arg_sizes'[Len(arg_sizes')] = 0
        /\ memory'[b2[Len(arg_sizes')] + 1] = At(b2[Len(arg_sizes')] + 3)
        /\ BeginOf(program', at2[Len(arg_sizes')]) = MAIN
    BY <1>3, <1>14
  <2>9. Scoped(program)' => \A k \in 1..Len(arg_sizes') : Called(at2[k], b2[k], arg_sizes[k])'
    BY <1>3, <1>15
  <2> QED BY <1>16, <2>2, <2>3, <2>4, <2>5, <2>6, <2>7, <2>8, <2>9 DEF Chain
<1>13. fp' \in Int /\ top' \in Int BY <1>1, <1>2
<1> QED BY <1>3, <1>12, <1>13 DEF ChainInv

\* Its three words, from the free slot down.
LEMMA FrameWritten ==
  ASSUME NEW m, NEW t \in Int, NEW x, NEW y, NEW z,
         t \in Interpret!Words, t - 1 \in Interpret!Words, t - 2 \in Interpret!Words
  PROVE  /\ Interpret!Written(m, t, <<x, y, z>>)[t] = x
         /\ Interpret!Written(m, t, <<x, y, z>>)[t - 1] = y
         /\ Interpret!Written(m, t, <<x, y, z>>)[t - 2] = z
<1>1. PICK ws : ws = <<x, y, z>> OBVIOUS
<1>2. Len(ws) = 3 /\ ws[1] = x /\ ws[2] = y /\ ws[3] = z BY <1>1
<1>3. PICK W : W = Interpret!Written(m, t, ws) OBVIOUS
<1>4. W = [j \in Interpret!Words |-> IF t - 3 < j /\ j <= t THEN ws[t - j + 1] ELSE m[j]]
  BY <1>2, <1>3 DEF Interpret!Written
<1>5. /\ t - t + 1 = 1 /\ t - (t - 1) + 1 = 2 /\ t - (t - 2) + 1 = 3
      /\ t - 3 < t /\ t - 3 < t - 1 /\ t - 3 < t - 2 /\ t - 1 <= t /\ t - 2 <= t
  OBVIOUS
<1>6. W[t] = ws[1]
  <2>1. W[t] = ws[t - t + 1] BY <1>4, <1>5
  <2> QED BY <1>5, <2>1
<1>7. W[t - 1] = ws[2]
  <2>1. W[t - 1] = ws[t - (t - 1) + 1] BY <1>4, <1>5
  <2> QED BY <1>5, <2>1
<1>8. W[t - 2] = ws[3]
  <2>1. W[t - 2] = ws[t - (t - 2) + 1] BY <1>4, <1>5
  <2> QED BY <1>5, <2>1
<1> QED BY <1>1, <1>2, <1>3, <1>6, <1>7, <1>8

\* push_stack_frame: a call of t with n arguments, above a closure or not.
LEMMA EnterGoes ==
  ASSUME Ready, program[ip].op \in {"CALL", "CALLC"}, NEW n \in Nat, NEW c \in {0, 1},
         NEW t \in Entries, Needs(program[ip]) = n + c, Effect(program[ip]) = 1 - (n + c),
         VerifiedFunction(t) \/ closures # <<>>,
         Direct(program) => VerifiedFunction(t) /\ Declared(t) <= n,
         Scoped(program) /\ program[t].op = "CBEGIN" => c = 1,
         Interpret!Enter(n, c, t)
  PROVE  Goes
<1>1. /\ Accepted /\ UNCHANGED vars /\ WordsInv /\ ArgSizesOK /\ fp \in Int /\ top \in Int
      /\ ip \in Offsets /\ program[ip] \in Instruction
      /\ Accounted(ip, fp, top) /\ Roomy(ip, fp)
      /\ -1 <= top /\ top <= fp /\ fp + 3 <= Interpret!START
      /\ Reserved(ip) \in Nat /\ Operands(ip, fp, top) \in Nat
      /\ top + Operands(ip, fp, top) + Reserved(ip) = fp
      /\ Needs(program[ip]) <= Operands(ip, fp, top)
  BY ReadyFacts DEF Ready
<1>2. CASE ~Interpret!Fits(top, 3)
  <2>1. Interpret!Stop("outside") BY <1>2 DEF Interpret!Enter
  <2>2. OutsideInv BY DEF OutsideInv
  <2> QED BY <2>1, <2>2, OutsideGoes
<1>3. CASE Interpret!Fits(top, 3)
  <2>1. PICK i, base, g, d, caller :
          /\ i = ip + 1 /\ base = top - 3 /\ g = top + n + c - 1
          /\ d = Operands(ip, fp, top) /\ caller = fp
    OBVIOUS
  <2>2. /\ base \in Int /\ g \in Int /\ d \in Nat /\ caller \in Int
        /\ n + c <= d /\ top + n <= fp /\ 2 <= top /\ -1 <= base /\ -1 <= g /\ base + 3 <= fp
        /\ g = top - Effect(program[ip])
    <3>1. top - 3 + 1 >= 0 BY <1>3 DEF Interpret!Fits
    <3>2. PICK r : r = Reserved(ip) OBVIOUS
    <3>3. d \in Nat /\ r \in Nat /\ top + d + r = fp /\ n + c <= d BY <1>1, <2>1, <3>2
    <3>4. c \in Nat /\ fp \in Int /\ top \in Int /\ 2 <= top BY <1>1, <3>1
    <3>5. base \in Int /\ g \in Int /\ caller \in Int /\ -1 <= base /\ -1 <= g
      BY <2>1, <3>4
    <3>6. top + n <= fp /\ base + 3 <= fp BY <2>1, <3>3, <3>4
    <3>7. g = top - Effect(program[ip])
      <4>1. g = top - (1 - (n + c)) BY <2>1, <3>4
      <4> QED BY <4>1
    <3> QED BY <3>3, <3>4, <3>5, <3>6, <3>7
  <2>3. FollowedBy(ip, i) /\ program[ip].op \notin Stops \cup Unsupported \cup Begins
    BY <2>1, PlainOps DEF FollowedBy, Jumps
  <2>4. /\ i \in Offsets /\ Accounted(i, fp, g) /\ Roomy(i, fp) /\ program[i].op \notin Begins
        /\ BeginOf(program, i) = BeginOf(program, ip)
        /\ Operands(i, fp, g) = d + Effect(program[ip])
    <3>1. PICK h : h = top - Effect(program[ip]) OBVIOUS
    <3>2. /\ i \in Offsets /\ Accounted(i, fp, h) /\ Roomy(i, fp) /\ program[i].op \notin Begins
          /\ BeginOf(program, i) = BeginOf(program, ip)
          /\ Operands(i, fp, h) = Operands(ip, fp, top) + Effect(program[ip])
      <4>1. /\ Accepted /\ ip \in Offsets /\ fp \in Int /\ top \in Int /\ Accounted(ip, fp, top)
            /\ Roomy(ip, fp) /\ Needs(program[ip]) <= Operands(ip, fp, top)
        BY <1>1
      <4> QED BY <2>3, <3>1, <4>1, AccountNext
    <3>3. h = g BY <2>2, <3>1
    <3> QED BY <2>1, <3>2, <3>3
  <2>5. Function(i, caller, g) BY <2>1, <2>2, <2>4 DEF Function
  <2>6. Function(t, base, base) /\ t \in Offsets BY <1>1, <2>2, AccountEnter DEF Entries
  <2>7. PICK m : m = IF n > 1 THEN Interpret!Reversed(memory, top + 1, n) ELSE memory OBVIOUS
  <2>8. m \in [Interpret!Words -> Sound] /\ Kept(m)
    <3>1. memory \in [Interpret!Words -> Sound] /\ Kept(memory) BY <1>1 DEF WordsInv, Kept
    <3>2. CASE n > 1 BY <2>2, <2>7, <3>2, ReversedKept
    <3>3. CASE ~(n > 1) BY <2>7, <3>1, <3>3
    <3> QED BY <3>2, <3>3
  <2>9. PICK ws : ws = <<Code(i), At(caller), At(g + 1)>> OBVIOUS
  <2>10. ws \in Seq(Sound) /\ Len(ws) = 3
    <3>1. Code(i) \in Sound /\ At(caller) \in Sound /\ At(g + 1) \in Sound
      <4>1. i \in Int BY <1>1, <2>1, <2>4, InFunction
      <4> QED BY <2>2, <4>1, SoundWords
    <3> QED BY <2>9, <3>1
  <2>11. /\ memory' = Interpret!Written(m, top, ws)
         /\ top' = base /\ fp' = base /\ arg_sizes' = <<n>> \o arg_sizes /\ ip' = t
         /\ UNCHANGED <<closures, status>>
    <3>1. top + n + c = g + 1 BY <1>1, <2>1
    <3> QED BY <1>3, <2>1, <2>7, <2>9, <3>1, WordNames DEF Interpret!Enter, Interpret!Frame
  <2>12. memory' \in [Interpret!Words -> Sound] /\ Kept(memory')
    BY <1>1, <2>8, <2>10, <2>11, WrittenKept
  <2>13. memory'[top] = Code(i) /\ memory'[top - 1] = At(caller) /\ memory'[top - 2] = At(g + 1)
    <3>1. /\ top \in Interpret!Words /\ top - 1 \in Interpret!Words /\ top - 2 \in Interpret!Words
      <4>1. top \in Int /\ fp \in Int /\ 2 <= top /\ top <= fp /\ fp + 3 <= Interpret!START
        BY <1>1, <2>2
      <4> QED BY <4>1, StartFacts
    <3>2. PICK x, y, z : x = Code(i) /\ y = At(caller) /\ z = At(g + 1) OBVIOUS
    <3>3. memory' = Interpret!Written(m, top, <<x, y, z>>) BY <2>9, <2>11, <3>2
    <3>4. memory'[top] = x /\ memory'[top - 1] = y /\ memory'[top - 2] = z
      BY <1>1, <3>1, <3>3, FrameWritten
    <3> QED BY <3>2, <3>4
  <2>14. Stands(base, n, i, caller, g)'
    <3>1. Operands(i, caller, g)' = Operands(i, caller, g) /\ program' = program
      BY <1>1, <2>11, FunctionKept DEF vars, code
    <3>2. Operands(i, caller, g) >= 1 BY <2>1, <2>2, <2>4
    <3>3. base + 3 + n <= g + 1
      <4>1. c = 0 \/ c = 1 OBVIOUS
      <4>2. top + n + c - 1 + 1 = top + n + c /\ top - 3 + 3 + n = top + n /\ top + n <= top + n + c
        BY <1>1, <4>1
      <4> QED BY <2>1, <4>2
    <3>4. base + 1 = top - 2 /\ base + 2 = top - 1 /\ base + 3 = top BY <1>1, <2>1
    <3> QED BY <2>4, <2>13, <3>1, <3>2, <3>3, <3>4 DEF Stands
  <2>15. PICK b, at, free : Chain(b, at, free) BY DEF Ready, ChainInv
  <2>18. Scoped(program) => Called(t, base, n)'
    <3> SUFFICES ASSUME Scoped(program), program[BeginOf(program, t)].op = "CBEGIN"
                 PROVE  memory'[base + 1] = At(base + 4 + n)
      BY <1>1 DEF Called, vars, code
    <3>1. t \in Nat \ {0} /\ program[t].op \in Begins BY <1>1, <2>6, InFunction DEF Entries
    <3>2. c = 1 BY <3>1, BeginOfBegin
    <3>3. base + 1 = top - 2 /\ g + 1 = base + 4 + n BY <1>1, <2>1, <3>2
    <3> QED BY <2>13, <3>3
  <2>16. ChainInv'
    BY <1>1, <2>1, <2>2, <2>4, <2>5, <2>6, <2>11, <2>12, <2>14, <2>15, <2>18, PushFrame
  <2>17. WordsInv' BY <1>1, <2>11, <2>12, WordsKept
  <2> QED BY <2>11, <2>16, <2>17 DEF Goes, Ready
<1> QED BY <1>2, <1>3

LEMMA CallGoes ==
  ASSUME Ready, Interpret!Call \/ Interpret!CallClosure
  PROVE  Goes
<1>1. /\ Accepted /\ WordsInv /\ ip \in Offsets /\ program[ip] \in Instruction
      /\ Entered(program) /\ Compiled(program)
      /\ fp \in Int /\ top \in Int /\ Accounted(ip, fp, top)
  BY ReadyFacts DEF Ready, Accepted, Traceable, Coverable
<1>2. /\ VerifiedFunction(ip) => ip \in Visited
      /\ ~VerifiedFunction(ip) => closures # <<>>
  BY <1>1, AccountFacts
<1>3. CASE Interpret!Call
  <2>1. program[ip].op = "CALL" /\ Interpret!Enter(program[ip].b, 0, program[ip].a)
    BY <1>3, WordNames DEF Interpret!Call, Interpret!Handles
  <2>2. PICK n, t : n = program[ip].b /\ t = program[ip].a OBVIOUS
  <2>3. n \in Nat /\ Needs(program[ip]) = n + 0 /\ Effect(program[ip]) = 1 - (n + 0)
    BY <1>1, <2>1, <2>2, EffectOf
  <2>4. t \in Entries
    <3>1. t \in Offsets BY <1>1, <2>1, <2>2 DEF Entered, Jumps, Offsets
    <3>2. program[t].op \in Begins BY <1>1, <2>1, <2>2, <3>1 DEF Compiled, Jumps, Offsets
    <3> QED BY <3>1, <3>2 DEF Entries
  <2>5. ip \in Visited => VerifiedFunction(t)
    <3> SUFFICES ASSUME ip \in Visited PROVE VerifiedFunction(t) OBVIOUS
    <3>1. t \in Visited BY <1>1, <2>1, <2>2, RecordedCall
    <3> QED BY <1>1, <3>1 DEF Accepted, VerifiedFunction
  <2>6. VerifiedFunction(t) \/ closures # <<>> BY <1>2, <2>5
  <2>7. Direct(program) => VerifiedFunction(t) /\ Declared(t) <= n
    <3> SUFFICES ASSUME Direct(program) PROVE VerifiedFunction(t) /\ Declared(t) <= n OBVIOUS
    <3>1. VerifiedFunction(ip)
      <4>1. PICK b, at, free : Chain(b, at, free) BY DEF Ready, ChainInv
      <4>2. 1 \in 1..Len(arg_sizes) BY ReadyFacts DEF ArgSizesOK
      <4> QED BY <4>1, <4>2 DEF Chain
    <3>2. program[t].a <= n BY <1>1, <2>1, <2>2 DEF Direct, Offsets
    <3>3. t \in Nat \ {0} /\ program[t].op \in Begins BY <1>1, <2>4, InFunction DEF Entries
    <3>4. Declared(t) = program[t].a BY <3>3, BeginOfBegin DEF Declared
    <3> QED BY <1>2, <2>5, <3>1, <3>2, <3>4
  <2>8. 0 \in {0, 1} OBVIOUS
  <2>9. Scoped(program) => program[t].op # "CBEGIN"
    BY <1>1, <2>1, <2>2 DEF Scoped, Offsets
  <2> QED BY <2>1, <2>2, <2>3, <2>4, <2>6, <2>7, <2>8, <2>9, EnterGoes
<1>4. CASE Interpret!CallClosure
  <2>1. PICK w : w = Interpret!Peek(program[ip].a + 1) OBVIOUS
  <2>2. /\ program[ip].op = "CALLC"
        /\ \/ w[1] = "closure" /\ Interpret!Enter(program[ip].a, 1, closures[w[2]].at)
           \/ Interpret!Stop("undefined")
    BY <1>4, <2>1, WordNames DEF Interpret!CallClosure, Interpret!Handles
  <2>3. CASE Interpret!Stop("undefined") BY <2>3, StopGoes
  <2>4. CASE w[1] = "closure" /\ Interpret!Enter(program[ip].a, 1, closures[w[2]].at)
    <3>1. w \in Sound BY <1>1, <2>1, ReadSound DEF Interpret!Peek
    <3>2. w[2] \in DOMAIN closures BY <2>4, <3>1 DEF Sound
    <3>3. PICK n, t : n = program[ip].a /\ t = closures[w[2]].at OBVIOUS
    <3>4. n \in Nat /\ Needs(program[ip]) = n + 1 /\ Effect(program[ip]) = 1 - (n + 1)
      BY <1>1, <2>2, <3>3, EffectOf
    <3>5. t \in Entries
      <4>1. closures[w[2]] \in [at : Entries, captured : Seq(Sound)] BY <1>1, <3>2, ClosureSound
      <4> QED BY <3>3, <4>1
    <3>6. closures # <<>> BY <3>2
    <3>7. ~Direct(program) BY <1>1, <2>2 DEF Direct, Offsets
    <3>8. 1 \in {0, 1} OBVIOUS
    <3> QED BY <2>2, <2>4, <3>3, <3>4, <3>5, <3>6, <3>7, <3>8, EnterGoes
  <2> QED BY <2>2, <2>3, <2>4
<1> QED BY <1>3, <1>4

\* BEGIN finds room for the locals and the operands, and reserves the locals.
LEMMA BeginGoes ==
  ASSUME Ready, Interpret!BeginFunction
  PROVE  Goes
<1>1. /\ Accepted /\ UNCHANGED vars /\ ArgSizesOK /\ fp \in Int /\ top \in Int /\ ip \in Offsets
      /\ program[ip] \in Instruction
  BY ReadyFacts DEF Ready
<1>2. program[ip].op \in Begins
  BY WordNames DEF Interpret!BeginFunction, Interpret!Handles
<1>3. ip \in Entries /\ ip \in Nat \ {0} /\ upper[ip] \in Nat /\ program[ip].b \in Nat
  BY <1>1, <1>2, InFunction, EffectOf DEF Entries, Accepted, TypeOK
<1>4. PICK b, at, free : Chain(b, at, free) BY DEF Ready, ChainInv
<1>5. Function(ip, fp, top)
  <2>1. 1 \in 1..Len(arg_sizes) BY <1>1 DEF ArgSizesOK
  <2>2. Function(at[1], b[1], free[1]) BY <1>4, <2>1 DEF Chain
  <2> QED BY <1>4, <2>2 DEF Chain
<1>6. CASE top + 1 < upper[ip] + program[ip].b
  <2>1. Interpret!Stop("error") BY <1>6, WordNames DEF Interpret!BeginFunction
  <2> QED BY <2>1, StopGoes
<1>7. CASE ~(top + 1 < upper[ip] + program[ip].b)
  <2>1. PICK i, f : i = ip + 1 /\ f = top - program[ip].b OBVIOUS
  <2>2. ip' = i /\ top' = f /\ UNCHANGED <<memory, fp, arg_sizes, closures, status>>
    BY <1>7, <2>1, WordNames DEF Interpret!BeginFunction, Interpret!frame
  <2>3. i \in Offsets /\ Function(i, fp, f)
    <3>1. top + 1 >= upper[ip] + program[ip].b BY <1>1, <1>3, <1>7
    <3> QED BY <1>1, <1>3, <1>5, <2>1, <3>1, AccountBegin
  <2>4. f \in Int BY <1>1, <1>3, <2>1
  <2>5. FollowedBy(ip, i) BY <1>2, <2>1 DEF FollowedBy, Begins
  <2>6. BeginOf(program, i) = BeginOf(program, ip) /\ program[i].op \notin Begins
    BY <1>1, <2>5, SameFunction
  <2>7. Kept(memory') BY <2>2 DEF Kept
  <2>8. ChainInv' BY <1>1, <1>4, <2>2, <2>3, <2>4, <2>6, <2>7, StepInFrame
  <2>9. WordsInv' BY <1>1, <2>2, WordsKept DEF Ready, WordsInv
  <2> QED BY <2>2, <2>8, <2>9 DEF Goes, Ready
<1> QED BY <1>6, <1>7

\* END returns to the frame that the running one stands on, or ends main.
LEMMA EndGoes ==
  ASSUME Ready, Interpret!EndFunction
  PROVE  Goes
<1>1. /\ Accepted /\ UNCHANGED vars /\ WordsInv /\ ArgSizesOK /\ fp \in Int /\ top \in Int
      /\ memory \in [Interpret!Words -> Sound]
  BY ReadyFacts DEF Ready, WordsInv
<1>2. PICK val, back, saved, ra :
        /\ val = Interpret!Peek(1) /\ back = Interpret!Read(fp + 1)
        /\ saved = Interpret!Read(fp + 2) /\ ra = Interpret!Read(fp + 3)
  OBVIOUS
<1>3. \/ Interpret!Stop("finished")
      \/ Interpret!Stop("undefined")
      \/ /\ back[1] = "at" /\ saved[1] = "at" /\ ra[1] = "code"
         /\ memory' = Interpret!Written(memory, back[2], <<val>>)
         /\ top' = back[2] - 1 /\ fp' = saved[2] /\ arg_sizes' = Tail(arg_sizes) /\ ip' = ra[2]
         /\ UNCHANGED <<closures, status>>
  BY <1>2 DEF Interpret!EndFunction
<1>4. PICK b, at, free : Chain(b, at, free) BY DEF Ready, ChainInv
<1>5. CASE Interpret!Stop("finished") \/ Interpret!Stop("undefined") BY <1>5, StopGoes
<1>6. CASE /\ back[1] = "at" /\ saved[1] = "at" /\ ra[1] = "code"
           /\ memory' = Interpret!Written(memory, back[2], <<val>>)
           /\ top' = back[2] - 1 /\ fp' = saved[2] /\ arg_sizes' = Tail(arg_sizes) /\ ip' = ra[2]
           /\ UNCHANGED <<closures, status>>
  <2>1. Len(arg_sizes) # 1
    <3> SUFFICES ASSUME Len(arg_sizes) = 1 PROVE FALSE OBVIOUS
    <3>1. fp + 3 = Interpret!START BY MainBase
    <3>2. memory[Interpret!START] = Null
      <4>1. b[1] = Interpret!START - 3 /\ memory[b[1] + 3] = Null BY <1>4 DEF Chain
      <4>2. Interpret!START - 3 + 3 = Interpret!START BY StartFacts
      <4> QED BY <4>1, <4>2
    <3>3. Interpret!START \in Interpret!Words BY StartFacts
    <3>4. ra = Null BY <1>2, <3>1, <3>2, <3>3 DEF Interpret!Read
    <3> QED BY <1>6, <3>4 DEF Null
  <2>2. 1 \in 1..Len(arg_sizes) /\ 2 \in 1..Len(arg_sizes) /\ 2 \in 2..Len(arg_sizes)
    <3>1. PICK n : n = Len(arg_sizes) OBVIOUS
    <3>2. n \in Nat /\ n # 0 /\ n # 1 BY <1>1, <2>1, <3>1 DEF ArgSizesOK
    <3> QED BY <3>1, <3>2
  <2>3. b[1] = fp BY <1>4 DEF Chain
  <2>4. Stands(fp, arg_sizes[1], at[2], b[2], free[2])
    <3>1. Stands(b[2 - 1], arg_sizes[2 - 1], at[2], b[2], free[2]) BY <1>4, <2>2 DEF Chain
    <3>2. 2 - 1 = 1 OBVIOUS
    <3> QED BY <2>3, <3>1, <3>2
  <2>5. /\ at[2] \in Offsets /\ b[2] \in Int /\ free[2] \in Int
        /\ Accounted(at[2], b[2], free[2])
    BY <1>1, <1>4, <2>2, FrameFacts DEF Function
  <2>6. PICK i, caller, g : i = at[2] /\ caller = b[2] /\ g = free[2] OBVIOUS
  <2>7. back = At(g + 1) /\ saved = At(caller) /\ ra = Code(i)
    <3>1. {fp + 1, fp + 2, fp + 3} \subseteq Interpret!Words
      BY <1>1, <1>4, <2>2, <2>3, FrameFacts
    <3>2. memory[fp + 1] = At(g + 1) /\ memory[fp + 2] = At(caller) /\ memory[fp + 3] = Code(i)
      BY <2>4, <2>6 DEF Stands
    <3> QED BY <1>2, <3>1, <3>2 DEF Interpret!Read
  <2>8. back[2] = g + 1 /\ saved[2] = caller /\ ra[2] = i BY <2>7 DEF At, Code
  <2>9. PICK ws : ws = <<val>> OBVIOUS
  <2>10. ws \in Seq(Sound)
    <3>1. val \in Sound BY <1>1, <1>2, ReadSound DEF Interpret!Peek
    <3> QED BY <2>9, <3>1, ShortSeqs
  <2>11. PICK t : t = g + 1 OBVIOUS
  <2>12. t \in Int /\ t <= caller /\ t - 1 = g /\ caller \in Int
    <3>1. /\ Operands(i, caller, g) \in Nat /\ g + Operands(i, caller, g) + Reserved(i) = caller
          /\ Operands(i, caller, g) >= 1 /\ Reserved(i) \in Nat /\ g \in Int /\ caller \in Int
      BY <1>1, <2>4, <2>5, <2>6, AccountFacts, InFunction DEF Stands
    <3>2. PICK d, r : d = Operands(i, caller, g) /\ r = Reserved(i) OBVIOUS
    <3>3. d \in Nat /\ r \in Nat /\ g + d + r = caller /\ d >= 1 BY <3>1, <3>2
    <3> QED BY <2>11, <3>1, <3>3
  <2>13. memory' = Interpret!Written(memory, t, ws) BY <1>6, <2>8, <2>9, <2>11
  <2>14. /\ memory' \in [Interpret!Words -> Sound]
         /\ \A j \in Interpret!Words : t < j => memory'[j] = memory[j]
    BY <1>1, <2>10, <2>12, <2>13, WrittenFacts
  <2>15. \A j \in Interpret!Words : caller < j => memory'[j] = memory[j]
    <3>1. Interpret!Words \subseteq Int BY StartFacts
    <3> QED BY <2>12, <2>14, <3>1
  <2>16. ip' = i /\ top' = g /\ fp' = caller /\ arg_sizes' = Tail(arg_sizes)
    BY <1>6, <2>8, <2>11, <2>12
  <2>17. ChainInv' BY <1>1, <1>4, <1>6, <2>1, <2>6, <2>15, <2>16, PopFrame
  <2>18. WordsInv' BY <1>1, <1>6, <2>14, WordsKept
  <2> QED BY <1>6, <2>17, <2>18 DEF Goes, Ready
<1> QED BY <1>3, <1>5, <1>6

\* Every step of a ready run.
LEMMA StepGoes ==
  ASSUME Ready, Interpret!Step
  PROVE  Goes
<1>1. CASE Interpret!Fetch
  <2>1. Interpret!Stop("undefined") \/ Interpret!Stop("error") BY <1>1 DEF Interpret!Fetch
  <2> QED BY <2>1, StopGoes
<1>2. ~Interpret!ToString
  <2>1. ip \in Offsets /\ Counted(program)
    BY ReadyFacts DEF Ready, Accepted, Traceable, Coverable
  <2>2. program[ip].op # "CALL_STRING" BY <2>1 DEF Counted, Offsets
  <2> QED BY <2>2, WordNames DEF Interpret!ToString, Interpret!Handles
<1> QED
  BY <1>1, <1>2, PushGoes, OperatorGoes, ObjectGoes, JumpGoes, StoreGoes, IndirectGoes, ClosureGoes,
     CallGoes, BeginGoes, EndGoes
     DEF Interpret!Step

-----------------------------------------------------------------------------
(* The invariant *)

\* What is proved of the verifier alone.
Context ==
  /\ TypeOK
  /\ Compiled(program) => LayoutInv
  /\ Counted(program) => DepthsConsistent
  /\ Compiled(program) => VariablesExist
  /\ Coverable(program) => MaxStackCovers
  /\ Entered(program) => BeginsInv

LEMMA ContextHolds == RunSpec => []Context
<1>1. /\ TypeOK
      /\ Compiled(program) => LayoutInv
      /\ Counted(program) => DepthsConsistent
      /\ Compiled(program) => VariablesExist
      /\ Coverable(program) => MaxStackCovers
      /\ Entered(program) => BeginsInv
      => Context
  BY DEF Context
<1> QED
  BY <1>1, RunsVerify, TypeCorrect, LayoutIsKept, MarksAreConsistent, VariablesDoExist,
     PatchedDepthsCover, BeginsAreRecorded, PTL

LEMMA ContextAccepts ==
  ASSUME Context, outcome = "accepted", OperandsSuffice, Traceable(program)
  PROVE  Accepted
BY DEF Context, Accepted, Traceable, Coverable, LayoutInv, EntryInv

\* interpret starts in the frame of main, at its begin.
LEMMA MachineStarts == Accepted /\ Interpret!MachineInit => WordsInv /\ ChainInv
<1> SUFFICES ASSUME Accepted, Interpret!MachineInit PROVE WordsInv /\ ChainInv OBVIOUS
<1>1. /\ ip = 1 /\ memory = Interpret!Frame(Interpret!Cleared, Interpret!START, 0, Null, Null, 0)
      /\ top = Interpret!START - 3 /\ fp = Interpret!START - 3 /\ arg_sizes = <<0>>
      /\ closures = <<>>
  BY WordNames DEF Interpret!MachineInit
<1>2. PICK s, base : s = Interpret!START /\ base = Interpret!START - 3 OBVIOUS
<1>3. /\ s \in Nat /\ 2 <= s /\ s \in Interpret!Words /\ s - 1 \in Interpret!Words
      /\ s - 2 \in Interpret!Words /\ base \in Int /\ base >= -1 /\ base + 3 = s
  BY <1>2, StartFacts
<1>4. PICK ws : ws = <<Null, Null, At(s)>> OBVIOUS
<1>5. ws \in Seq(Sound)
  <2>1. Null \in Sound /\ At(s) \in Sound BY <1>3, SoundWords
  <2> QED BY <1>4, <2>1
<1>6. memory = Interpret!Written(Interpret!Cleared, s, ws)
  <2>1. s + 0 + 0 = s BY <1>3
  <2> QED BY <1>1, <1>2, <1>4, <2>1, WordNames DEF Interpret!Frame
<1>7. Interpret!Cleared \in [Interpret!Words -> Sound]
  BY SoundWords, WordNames DEF Interpret!Cleared
<1>8. memory \in [Interpret!Words -> Sound] BY <1>3, <1>5, <1>6, <1>7, WrittenFacts
<1>9. memory[s] = Null /\ memory[s - 2] = At(s) BY <1>3, <1>4, <1>6, FrameWritten
<1>10. WordsInv BY <1>1, <1>8 DEF WordsInv
<1>11. 1 \in Entries /\ 1 \in Offsets /\ VerifiedFunction(1)
  <2>1. 1 \in Visited /\ program[1].op \in Begins
    BY DEF Accepted, BeginsInv, Traceable, Coverable, Compiled, MAIN
  <2> QED BY <2>1 DEF Accepted, VerifiedFunction, Visited, Entries
<1>12. Function(1, base, base) BY <1>3, <1>11, AccountEnter
<1>13. arg_sizes \in Seq(Nat) /\ arg_sizes # <<>> /\ Len(arg_sizes) = 1 BY <1>1
<1> DEFINE b == [k \in 1..1 |-> base]
<1> DEFINE at == [k \in 1..1 |-> 1]
<1>14. /\ b \in [1..1 -> Int] /\ at \in [1..1 -> Offsets] /\ b[1] = base /\ at[1] = 1
  BY <1>3, <1>11
<1> HIDE DEF b, at
<1>15. 1..1 = {1} /\ 2..1 = {} OBVIOUS
<1>16. Chain(b, at, b)
  <2>1. b[1] = fp /\ at[1] = ip /\ b[1] = top /\ b[1] = Interpret!START - 3
    BY <1>1, <1>2, <1>14
  <2>2. memory[b[1] + 3] = Null BY <1>3, <1>9, <1>14
  <2>3. \A k \in {1} : Function(at[k], b[k], b[k]) BY <1>12, <1>14
  <2>4. \A j, k \in {1} : j < k => b[j] + 3 <= b[k] OBVIOUS
  <2>5. \A k \in {1} : VerifiedFunction(at[k]) /\ (k < 1 => Declared(at[k]) <= arg_sizes[k])
    BY <1>11, <1>14
  <2>6. top = fp /\ arg_sizes[1] = 0 BY <1>1
  <2>7. memory[b[1] + 1] = At(b[1] + 3)
    <3>1. base + 1 = s - 2 BY <1>2, <1>3
    <3> QED BY <1>3, <1>9, <1>14, <3>1
  <2>9. BeginOf(program, at[1]) = MAIN BY <1>11, <1>14, BeginOfBegin DEF Entries, MAIN
  <2>8. Scoped(program) => \A k \in {1} : Called(at[k], b[k], arg_sizes[k])
    BY <1>14, <2>9 DEF Scoped, Called
  <2> QED BY <1>13, <1>14, <1>15, <2>1, <2>2, <2>3, <2>4, <2>5, <2>6, <2>7, <2>8, <2>9 DEF Chain
<1>17. ChainInv BY <1>1, <1>2, <1>3, <1>13, <1>16 DEF ChainInv
<1> QED BY <1>10, <1>17

\* Where nothing changes.
LEMMA Stays ==
  ASSUME Context, RunInv, UNCHANGED <<vars, machine>>, orderly' => orderly
  PROVE  RunInv'
<1>1. /\ UNCHANGED vars /\ UNCHANGED <<ip, memory, top, fp, arg_sizes, closures, status>>
      /\ program' = program /\ visited' = visited /\ outcome' = outcome
  BY DEF machine, vars, code, marks
<1>2. Interpret!MachineInit => Interpret!MachineInit'
  BY <1>1 DEF Interpret!MachineInit, Interpret!Frame, Interpret!Written, Interpret!Reversed,
              Interpret!Cleared, Interpret!START, Interpret!Words, Interpret!Null, Interpret!At,
              Interpret!Box, Interpret!Junk
<1>3. ASSUME outcome' = "accepted", OperandsSuffice', Traceable(program)', orderly'
      PROVE  /\ WordsInv' /\ (status' = "running" => ChainInv')
             /\ (status' = "outside" => OutsideInv')
  <2>1. Accepted /\ orderly
    <3>1. OperandsSuffice BY <1>1, <1>3 DEF OperandsSuffice, Visited, Offsets
    <3>2. Traceable(program) BY <1>1, <1>3
    <3> QED BY <1>1, <1>3, <3>1, <3>2, ContextAccepts
  <2>2. /\ WordsInv /\ (status = "running" => ChainInv) /\ (status = "outside" => OutsideInv)
    BY <1>1, <2>1 DEF RunInv, Accepted
  <2>3. WordsInv' BY <1>1, <2>2, WordsKept DEF WordsInv
  <2>4. ASSUME ChainInv PROVE ChainInv'
    <3>1. PICK b, at, free : Chain(b, at, free) BY <2>4 DEF ChainInv
    <3>2. ArgSizesOK BY <2>4 DEF ChainInv, ArgSizesOK
    <3>3. 1 \in 1..Len(arg_sizes) BY <3>2 DEF ArgSizesOK
    <3>4. b[1] = fp /\ at[1] = ip /\ free[1] = top BY <3>1 DEF Chain
    <3>5. ip \in Offsets /\ top \in Int /\ Function(ip, fp, top)
      BY <2>1, <3>1, <3>2, <3>3, <3>4, FrameFacts
    <3>6. Kept(memory') BY <1>1 DEF Kept
    <3>7. PICK i, f : i = ip /\ f = top OBVIOUS
    <3>8. program[i].op \in Begins => f = fp BY <3>1, <3>7 DEF Chain
    <3> QED BY <1>1, <2>1, <3>1, <3>2, <3>5, <3>6, <3>7, <3>8, StepInFrame
  <2>5. OutsideInv => OutsideInv'
    BY <1>1 DEF OutsideInv, VerifiedFunction, Ends, Visited, Offsets
  <2> QED BY <1>1, <2>2, <2>3, <2>4, <2>5
<1> QED BY <1>1, <1>2, <1>3 DEF RunInv

LEMMA RunStep ==
  ASSUME Context, Context', RunInv, [RunNext]_runVars,
         (Accepted /\ Interpret!MachineInit => WordsInv /\ ChainInv)'
  PROVE  RunInv'
<1>1. CASE UNCHANGED runVars BY <1>1, Stays DEF runVars
<1>2. CASE Rejected BY <1>2, Stays DEF Rejected, Stopped
<1>3. CASE Verifying
  <2>1. UNCHANGED <<machine, orderly>> /\ outcome # "accepted"
    BY <1>3 DEF Verifying, Context, TypeOK, CollectMarks, Verify, TakeLabel, ThrowUnsupported,
                ThrowArguments, ThrowExhausted, ThrowAt, WalkJump, WalkStop, WalkOn, Passes,
                CollectMarksDone, VerifyEOF, SkipUnvisited, VerifyEnd, VerifyEndEncoded,
                VerifyBegin, VerifyVariables, VerifyNoBegin, VerifyJump, VerifyOther, VerifyStep
  <2>2. Interpret!MachineInit BY <2>1 DEF RunInv
  <2>3. Interpret!MachineInit' /\ status' = "running"
    BY <2>1, <2>2
       DEF machine, Interpret!MachineInit, Interpret!Frame, Interpret!Written, Interpret!Reversed,
           Interpret!Cleared, Interpret!START, Interpret!Words, Interpret!Null, Interpret!At,
           Interpret!Box, Interpret!Junk
  <2>4. ASSUME outcome' = "accepted", OperandsSuffice', Traceable(program)'
        PROVE  WordsInv' /\ ChainInv'
    <3>1. Accepted'
      BY <2>4 DEF Context, Accepted, Traceable, Coverable, LayoutInv, EntryInv
    <3> QED BY <2>3, <3>1
  <2> QED BY <2>3, <2>4 DEF RunInv
<1>4. CASE Interpreting
  <2>1. /\ UNCHANGED vars /\ outcome = "accepted" /\ Interpret!Next
        /\ orderly' = (orderly /\ InOrder)
    BY <1>4, RunVerifies DEF Interpreting
  <2>2. CASE Interpret!Ended
    <3>1. UNCHANGED machine
      BY <2>2 DEF Interpret!Ended, Interpret!vars, Interpret!frame, machine
    <3> QED BY <2>1, <3>1, Stays
  <2>3. CASE Interpret!Step
    <3>1. status = "running"
      BY <2>3 DEF Interpret!Step, Interpret!Fetch, Interpret!Const, Interpret!Str,
         Interpret!ReadInt, Interpret!Dup, Interpret!Drop, Interpret!Swap, Interpret!Keep,
         Interpret!Fail, Interpret!Binop, Interpret!Test, Interpret!Length, Interpret!ToString,
         Interpret!Elem, Interpret!Array, Interpret!Sexp, Interpret!Jump, Interpret!CondJump,
         Interpret!Load, Interpret!LoadLink, Interpret!Store, Interpret!StoreElem,
         Interpret!StoreIndirect, Interpret!MakeClosure, Interpret!Call, Interpret!CallClosure,
         Interpret!BeginFunction, Interpret!EndFunction, Interpret!Handles
    <3>2. program' = program /\ visited' = visited /\ outcome' = outcome
      BY <2>1 DEF vars, code, marks
    <3>3. ASSUME OperandsSuffice', Traceable(program)', orderly' PROVE Goes
      <4>1. OperandsSuffice BY <3>2, <3>3 DEF OperandsSuffice, Visited, Offsets
      <4>2. Traceable(program) /\ orderly /\ InOrder BY <2>1, <3>2, <3>3
      <4>3. Accepted BY <2>1, <4>1, <4>2, ContextAccepts
      <4>4. WordsInv /\ ChainInv BY <2>1, <3>1, <4>1, <4>2 DEF RunInv
      <4>5. Ready BY <2>1, <3>1, <4>2, <4>3, <4>4 DEF Ready
      <4> QED BY <2>3, <4>5, StepGoes
    <3> QED BY <2>1, <3>2, <3>3 DEF RunInv, Goes
  <2> QED BY <2>1, <2>2, <2>3 DEF Interpret!Next
<1> QED BY <1>1, <1>2, <1>3, <1>4 DEF RunNext

THEOREM RunIsFramed == RunSpec => []RunInv
<1>1. RunInit => RunInv BY DEF RunInit, Init, RunInv
<1>2. Context /\ Context' /\ RunInv /\ [RunNext]_runVars
      /\ (Accepted /\ Interpret!MachineInit => WordsInv /\ ChainInv)'
      => RunInv'
  BY RunStep
<1> QED BY <1>1, <1>2, ContextHolds, MachineStarts, PTL DEF RunSpec

\* The running function's account, in a state of a run in order.
LEMMA RunningFacts ==
  ASSUME Context, RunInv, outcome = "accepted", OperandsSuffice, Traceable(program), orderly,
         status = "running"
  PROVE  /\ Accepted /\ ArgSizesOK /\ ip \in Offsets /\ fp \in Int /\ top \in Int
         /\ Accounted(ip, fp, top) /\ Roomy(ip, fp) /\ OperandDepth = Operands(ip, fp, top)
         /\ Direct(program) => /\ VerifiedFunction(ip)
                               /\ Len(arg_sizes) = 1 \/ Declared(ip) <= arg_sizes[1]
<1>1. Accepted BY ContextAccepts
<1>2. ChainInv BY DEF RunInv
<1>3. ArgSizesOK /\ fp \in Int /\ top \in Int BY <1>2 DEF ChainInv, ArgSizesOK
<1>4. PICK b, at, free : Chain(b, at, free) BY <1>2 DEF ChainInv
<1>5. PICK n : n = Len(arg_sizes) OBVIOUS
<1>6. n \in Nat \ {0} /\ 1 \in 1..n BY <1>3, <1>5 DEF ArgSizesOK
<1>7. b[1] = fp /\ at[1] = ip /\ free[1] = top BY <1>4 DEF Chain
<1>8. ip \in Offsets /\ Function(ip, fp, top) BY <1>1, <1>3, <1>4, <1>5, <1>6, <1>7, FrameFacts
<1>9. OperandDepth = Operands(ip, fp, top) BY DEF OperandDepth, Operands, Reserved
<1>10. ASSUME Direct(program)
       PROVE  VerifiedFunction(ip) /\ (n = 1 \/ Declared(ip) <= arg_sizes[1])
  <2>1. VerifiedFunction(at[1]) /\ (1 < n => Declared(at[1]) <= arg_sizes[1])
    BY <1>4, <1>5, <1>6, <1>10 DEF Chain
  <2> QED BY <1>6, <1>7, <2>1
<1> QED BY <1>1, <1>3, <1>5, <1>8, <1>9, <1>10 DEF Function

\* A run in order of an accepted code is as the verifier has recorded it, for
\* every code, every stack and every run.
THEOREM RunsAreAsVerified == RunSpec => [](Traceable(program) => RunsAsVerified)
<1>1. ASSUME Context, RunInv, Traceable(program) PROVE RunsAsVerified
  <2> SUFFICES ASSUME outcome = "accepted", OperandsSuffice, orderly, status = "running",
                      VerifiedFunction(ip) \/ closures = <<>>
               PROVE  /\ ip \in Visited
                      /\ OperandDepth = visited[ip]
                      /\ Ends(ip) => OperandDepth <= upper[BeginOf(program, ip)]
    BY DEF RunsAsVerified
  <2>1. /\ Accepted /\ ip \in Offsets /\ fp \in Int /\ top \in Int
        /\ Accounted(ip, fp, top) /\ Roomy(ip, fp) /\ OperandDepth = Operands(ip, fp, top)
    BY <1>1, RunningFacts
  <2>2. VerifiedFunction(ip) BY <2>1, AccountFacts
  <2>3. ip \in Visited /\ OperandDepth = visited[ip] BY <2>1, <2>2, AccountFacts
  <2>4. Ends(ip) => OperandDepth <= upper[BeginOf(program, ip)] BY <2>1, <2>2, RoomFound
  <2> QED BY <2>3, <2>4
<1> QED BY <1>1, ContextHolds, RunIsFramed, PTL

\* The check at BEGIN is enough: a run in order writes below the stack only where
\* no depth is patched, or with the words of a frame or a handler's temporary.
THEOREM BeginChecksSuffice == RunSpec => [](Traceable(program) => BeginCheckSuffices)
<1>1. RunInv /\ Traceable(program) => BeginCheckSuffices
  BY DEF RunInv, BeginCheckSuffices, OutsideInv
<1> QED BY <1>1, RunIsFramed, PTL

\* A code without closure calls and stores by reference, whose calls pass what is
\* declared, has no run that is not in order.
DirectInOrder == /\ outcome # "accepted" => orderly
                 /\ outcome = "accepted" /\ OperandsSuffice /\ Traceable(program) /\ Direct(program)
                      => orderly

THEOREM DirectRunsAreInOrder == RunSpec => []DirectInOrder
<1>1. RunInit => DirectInOrder BY DEF RunInit, DirectInOrder
<1>2. ASSUME Context, RunInv, DirectInOrder, [RunNext]_runVars PROVE DirectInOrder'
  <2>1. CASE UNCHANGED runVars
    BY <1>2, <2>1 DEF DirectInOrder, runVars, vars, code, marks, OperandsSuffice, Visited, Offsets
  <2>2. CASE Rejected
    BY <1>2, <2>2 DEF DirectInOrder, Rejected, Stopped, vars
  <2>3. CASE Verifying
    <3>1. orderly' = orderly /\ outcome # "accepted"
      BY <1>2, <2>3 DEF Verifying, Context, TypeOK, CollectMarks, Verify, TakeLabel,
                ThrowUnsupported, ThrowArguments, ThrowExhausted, ThrowAt, WalkJump, WalkStop,
                WalkOn, Passes, CollectMarksDone, VerifyEOF, SkipUnvisited, VerifyEnd,
                VerifyEndEncoded, VerifyBegin, VerifyVariables, VerifyNoBegin, VerifyJump,
                VerifyOther, VerifyStep
    <3> QED BY <1>2, <3>1 DEF DirectInOrder
  <2>4. CASE Interpreting
    <3>1. /\ UNCHANGED vars /\ outcome = "accepted" /\ orderly' = (orderly /\ InOrder)
          /\ program' = program /\ visited' = visited /\ outcome' = outcome
      BY <2>4, RunVerifies DEF Interpreting, vars, code, marks
    <3>2. ASSUME OperandsSuffice', Traceable(program)', Direct(program)' PROVE orderly'
      <4>1. OperandsSuffice BY <3>1, <3>2 DEF OperandsSuffice, Visited, Offsets
      <4>2. Traceable(program) /\ Direct(program) BY <3>1, <3>2
      <4>3. orderly BY <1>2, <3>1, <4>1, <4>2 DEF DirectInOrder
      <4>4. InOrder
        <5>1. SUFFICES ASSUME status = "running", ip \in Offsets
                       PROVE  /\ Len(arg_sizes) = 1 \/ Declared(ip) <= arg_sizes[1]
                              /\ VerifiedFunction(ip) /\ program[ip].op \notin {"STA", "STI"}
          BY DEF InOrder, Declared
        <5>2. /\ VerifiedFunction(ip)
              /\ Len(arg_sizes) = 1 \/ Declared(ip) <= arg_sizes[1]
          BY <1>2, <3>1, <4>1, <4>2, <4>3, <5>1, RunningFacts
        <5>3. program[ip].op \notin {"STA", "STI"} BY <4>2, <5>1 DEF Direct, Offsets
        <5> QED BY <5>2, <5>3
      <4> QED BY <3>1, <4>3, <4>4
    <3> QED BY <3>1, <3>2 DEF DirectInOrder
  <2> QED BY <1>2, <2>1, <2>2, <2>3, <2>4 DEF RunNext
<1> QED BY <1>1, <1>2, ContextHolds, RunIsFramed, PTL DEF RunSpec
================================================================================
