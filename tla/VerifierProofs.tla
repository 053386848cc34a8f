----------------------------- MODULE VerifierProofs -----------------------------
(***************************************************************************)
(* The parts of VerifierInvariant are invariants of Verifier, each under   *)
(* the conditions on the code it needs, and Verifier's safety properties   *)
(* follow from them, for every set of programs, number of global variables *)
(* and width of the half word.                                             *)
(***************************************************************************)
EXTENDS VerifierInvariant, FiniteSetTheorems, InductionFacts

(* Facts about a code section. *)

\* The positions of a code and what stands there.
LEMMA CodeFacts ==
  ASSUME NEW p, IsCode(p)
  PROVE  /\ Len(p) \in Nat \ {0} /\ DOMAIN p = 1..Len(p)
         /\ \A i \in DOMAIN p : /\ p[i] \in Instruction
                                /\ p[i].op \in Ops /\ p[i].a \in Nat /\ p[i].b \in Nat
                                /\ p[i].op # "EOF" => i + 1 \in DOMAIN p
         /\ MAIN \in DOMAIN p
<1>1. p \in Seq(Instruction) /\ p # <<>> BY DEF IsCode
<1>2. Len(p) \in Nat \ {0} /\ DOMAIN p = 1..Len(p) BY <1>1
<1>3. ASSUME NEW i \in DOMAIN p
      PROVE  p[i] \in Instruction /\ p[i].op \in Ops /\ p[i].a \in Nat /\ p[i].b \in Nat
  <2>1. p[i] \in Instruction BY <1>1
  <2> QED BY <2>1 DEF Instruction
<1>4. ASSUME NEW i \in DOMAIN p, p[i].op # "EOF" PROVE i + 1 \in DOMAIN p
  <2>1. i # Len(p) BY <1>4 DEF IsCode
  <2> QED BY <1>2, <2>1
<1> QED BY <1>2, <1>3, <1>4 DEF MAIN

\* BeginOf is the last BEGIN at or before a position, or 0.
LEMMA BeginOfFacts ==
  ASSUME NEW p, NEW i \in Nat \ {0}
  PROVE  /\ BeginOf(p, i) \in 0..i
         /\ BeginOf(p, i) # 0 => p[BeginOf(p, i)].op \in Begins
         /\ \A b \in 1..i : p[b].op \in Begins => BeginOf(p, i) # 0 /\ b <= BeginOf(p, i)
<1> DEFINE B == {b \in 1..i : p[b].op \in Begins}
<1>1. CASE B = {}
  <2>1. BeginOf(p, i) = 0 BY <1>1 DEF BeginOf
  <2> QED BY <1>1, <2>1
<1>2. CASE B # {}
  <2>1. B \in SUBSET (0..i) OBVIOUS
  <2>2. \E b \in B : \A c \in B : c <= b BY <1>2, <2>1, GreatestBelow, i \in Nat
  <2>3. BeginOf(p, i) = CHOOSE b \in B : \A c \in B : c <= b BY <1>2 DEF BeginOf
  <2>4. BeginOf(p, i) \in B /\ \A c \in B : c <= BeginOf(p, i) BY <2>2, <2>3
  <2> QED BY <2>4
<1> QED BY <1>1, <1>2

\* The function of the next position is the same one, or begins there.
LEMMA BeginOfNext ==
  ASSUME NEW p, NEW i \in Nat \ {0}
  PROVE  /\ p[i + 1].op \in Begins => BeginOf(p, i + 1) = i + 1
         /\ p[i + 1].op \notin Begins => BeginOf(p, i + 1) = BeginOf(p, i)
<1>1. i + 1 \in Nat \ {0} OBVIOUS
<1>2. PICK x : x = BeginOf(p, i) OBVIOUS
<1>3. PICK y : y = BeginOf(p, i + 1) OBVIOUS
<1>4. /\ x \in 0..i
      /\ x # 0 => p[x].op \in Begins
      /\ \A b \in 1..i : p[b].op \in Begins => x # 0 /\ b <= x
  BY <1>2, BeginOfFacts
<1>5. /\ y \in 0..(i + 1)
      /\ y # 0 => p[y].op \in Begins
      /\ \A b \in 1..(i + 1) : p[b].op \in Begins => y # 0 /\ b <= y
  BY <1>1, <1>3, BeginOfFacts
<1>6. p[i + 1].op \in Begins => y = i + 1 BY <1>5
<1>7. ASSUME p[i + 1].op \notin Begins PROVE y = x
  <2>1. y \in 0..i BY <1>5, <1>7
  <2>2. x # 0 => x \in 1..(i + 1) BY <1>4
  <2>3. y # 0 => y \in 1..i BY <2>1
  <2> QED BY <1>4, <1>5, <2>1, <2>2, <2>3
<1> QED BY <1>2, <1>3, <1>6, <1>7

\* A BEGIN is its own.
LEMMA BeginOfBegin ==
  ASSUME NEW p, NEW i \in Nat \ {0}, p[i].op \in Begins
  PROVE  BeginOf(p, i) = i
<1>1. i \in 1..i OBVIOUS
<1> QED BY <1>1, BeginOfFacts

\* get_new_stack counts what the handlers do, but for CALL_STRING.
LEMMA EffectCounted ==
  ASSUME NEW i \in Instruction, i.op \notin Unsupported, i.op # "CALL_STRING", NEW n \in Nat
  PROVE  GetNewStack(i, n) = n + Effect(i)
<1>1. i.op \in Ops /\ i.a \in Nat /\ i.b \in Nat BY DEF Instruction
<1>2. CASE i.op \in {"BINOP", "DROP", "ELEM", "STI", "STA", "SEXP", "CALL", "CALL_ARRAY", "CALLC"}
  BY <1>1, <1>2 DEF GetNewStack, Effect, Needs, Gives, CondJumps, Begins
<1>3. CASE i.op \in {"CONST", "DUP", "LD", "CALL_READ", "STRING", "LDA", "CLOSURE", "ST", "PATT"}
  BY <1>1, <1>3 DEF GetNewStack, Effect, Needs, Gives, CondJumps, Begins
<1>4. CASE i.op \in {"CALL_WRITE", "CALL_LENGTH", "TAG", "ARRAY", "END", "SWAP", "JMP", "LINE", "FAIL"}
  BY <1>1, <1>4 DEF GetNewStack, Effect, Needs, Gives, CondJumps, Begins
<1>5. CASE i.op \in CondJumps \cup Begins
  BY <1>1, <1>5 DEF GetNewStack, Effect, Needs, Gives, CondJumps, Begins
<1> QED BY <1>1, <1>2, <1>3, <1>4, <1>5
        DEF Ops, Begins, Variables, Jumps, CondJumps, Stops, Unsupported

\* It is a number.
LEMMA NewStackType ==
  ASSUME NEW i \in Instruction, NEW n \in Nat
  PROVE  GetNewStack(i, n) \in Int
<1>1. i.a \in Nat /\ i.b \in Nat BY DEF Instruction
<1> QED BY <1>1 DEF GetNewStack

-----------------------------------------------------------------------------
(* perform_step, and the types. *)

\* The positions that depths v record.
Recorded(v) == {i \in Offsets : v[i] # UNVISITED}
Depths == [Offsets -> Nat \cup {UNVISITED}]

\* What perform_step makes of v, l and o, case by case.
StepResult(v, l, o, nxt, stack, r) ==
  \/ o # "none" /\ r = [visited |-> v, labels |-> l, outcome |-> o]
  \/ /\ o = "none" /\ nxt \notin Offsets
     /\ r = [visited |-> v, labels |-> l, outcome |-> "outside"]
  \/ /\ o = "none" /\ nxt \in Offsets /\ v[nxt] = UNVISITED
     /\ r = [visited |-> [v EXCEPT ![nxt] = stack], labels |-> Append(l, nxt),
             outcome |-> "none"]
  \/ /\ o = "none" /\ nxt \in Offsets /\ v[nxt] # UNVISITED /\ v[nxt] = stack
     /\ r = [visited |-> v, labels |-> l, outcome |-> "none"]
  \/ /\ o = "none" /\ nxt \in Offsets /\ v[nxt] \notin {UNVISITED, stack}
     /\ r = [visited |-> v, labels |-> l, outcome |-> "differs"]

\* These are the cases.
LEMMA PerformStepCases ==
  ASSUME NEW v, NEW l, NEW o, NEW nxt, NEW stack \in Nat, NEW r,
         r = PerformStep([visited |-> v, labels |-> l, outcome |-> o], nxt, stack)
  PROVE  StepResult(v, l, o, nxt, stack, r)
<1> USE DEF StepResult
<1> DEFINE m == [visited |-> v, labels |-> l, outcome |-> o]
<1>1. m.visited = v /\ m.labels = l /\ m.outcome = o OBVIOUS
<1>2. CASE o # "none" BY <1>1, <1>2 DEF PerformStep
<1>3. CASE o = "none" /\ nxt \notin Offsets
  <2>1. r = [m EXCEPT !.outcome = "outside"] BY <1>1, <1>3 DEF PerformStep
  <2> QED BY <1>3, <2>1
<1>4. CASE o = "none" /\ nxt \in Offsets
  <2>1. r = CASE v[nxt] = UNVISITED ->
                   [m EXCEPT !.visited[nxt] = stack, !.labels = Append(@, nxt)]
              [] v[nxt] = stack -> m
              [] v[nxt] \notin {UNVISITED, stack} -> [m EXCEPT !.outcome = "differs"]
    BY <1>1, <1>4 DEF PerformStep
  <2>2. CASE v[nxt] \notin {UNVISITED, stack}
    <3>1. r = [m EXCEPT !.outcome = "differs"] BY <2>1, <2>2
    <3> QED BY <1>4, <2>2, <3>1
  <2>3. CASE v[nxt] = UNVISITED /\ v[nxt] # stack
    <3>1. r = [m EXCEPT !.visited[nxt] = stack, !.labels = Append(@, nxt)] BY <2>1, <2>3
    <3> QED BY <1>4, <2>3, <3>1
  <2>4. CASE v[nxt] # UNVISITED /\ v[nxt] = stack
    <3>1. r = m BY <2>1, <2>4
    <3> QED BY <1>4, <2>4, <3>1
  <2>5. stack # UNVISITED BY DEF UNVISITED
  <2> QED BY <2>2, <2>3, <2>4, <2>5
<1> QED BY <1>2, <1>3, <1>4
\* A sequence over a set is one over every larger set, and its elements are in it.
LEMMA SeqFacts ==
  ASSUME NEW S, NEW s \in Seq(S)
  PROVE  /\ Len(s) \in Nat /\ DOMAIN s = 1..Len(s)
         /\ \A k \in DOMAIN s : s[k] \in S
         /\ \A T : S \subseteq T => s \in Seq(T)
<1>1. Len(s) \in Nat /\ DOMAIN s = 1..Len(s) /\ \A k \in DOMAIN s : s[k] \in S OBVIOUS
<1>2. ASSUME NEW T, S \subseteq T PROVE s \in Seq(T) BY <1>1, <1>2
<1> QED BY <1>1, <1>2

\* One more element at the end.
LEMMA AppendFacts ==
  ASSUME NEW S, NEW s \in Seq(S), NEW x \in S
  PROVE  /\ Append(s, x) \in Seq(S) /\ Append(s, x) # <<>>
         /\ Len(Append(s, x)) = Len(s) + 1 /\ Append(s, x)[Len(s) + 1] = x
         /\ {Append(s, x)[k] : k \in DOMAIN Append(s, x)} = {s[k] : k \in DOMAIN s} \cup {x}
<1>1. /\ Append(s, x) \in Seq(S) /\ Append(s, x) # <<>>
      /\ Len(Append(s, x)) = Len(s) + 1 /\ Append(s, x)[Len(s) + 1] = x
      /\ \A k \in 1..Len(s) : Append(s, x)[k] = s[k]
      /\ DOMAIN Append(s, x) = 1..(Len(s) + 1) /\ DOMAIN s = 1..Len(s) /\ Len(s) \in Nat
  OBVIOUS
<1>2. ASSUME NEW k \in DOMAIN Append(s, x)
      PROVE  Append(s, x)[k] \in {s[j] : j \in DOMAIN s} \cup {x}
  <2>1. k = Len(s) + 1 \/ k \in 1..Len(s) BY <1>1
  <2> QED BY <1>1, <2>1
<1>3. ASSUME NEW k \in DOMAIN s
      PROVE  \E j \in DOMAIN Append(s, x) : s[k] = Append(s, x)[j]
  <2>1. k \in DOMAIN Append(s, x) BY <1>1
  <2> QED BY <1>1, <2>1
<1>4. \E j \in DOMAIN Append(s, x) : x = Append(s, x)[j] BY <1>1
<1> QED BY <1>1, <1>2, <1>3, <1>4

\* The marks a step of a walk may leave: v, l and o become those of r.
Grows(v, l, w, k) ==
  /\ w \in Depths /\ k \in Seq(Recorded(w))
  /\ Recorded(v) \subseteq Recorded(w) /\ \A i \in Recorded(v) : w[i] = v[i]
  /\ Recorded(w) \ Recorded(v) \subseteq {k[j] : j \in DOMAIN k}
  /\ {l[j] : j \in DOMAIN l} \subseteq {k[j] : j \in DOMAIN k}

\* One position more may be recorded.
Enters(v, w, nxt, stack) ==
  \/ w = v
  \/ nxt \in Offsets /\ v[nxt] = UNVISITED /\ w = [v EXCEPT ![nxt] = stack]

\* perform_step only adds to the marks, and what it adds it appends to the labels;
\* unless it throws, the position it was to step to is recorded as it was to be.
LEMMA PerformStepGrows ==
  ASSUME NEW v \in Depths, NEW l \in Seq(Recorded(v)), NEW o \in Outcomes,
         NEW nxt, NEW stack \in Nat, NEW r,
         r = PerformStep([visited |-> v, labels |-> l, outcome |-> o], nxt, stack)
  PROVE  /\ r = [visited |-> r.visited, labels |-> r.labels, outcome |-> r.outcome]
         /\ Grows(v, l, r.visited, r.labels) /\ r.outcome \in {o, "outside", "differs"}
         /\ Enters(v, r.visited, nxt, stack)
         /\ r.outcome = "none" => o = "none" /\ nxt \in Recorded(r.visited) /\ r.visited[nxt] = stack
         /\ o = "none" /\ r.outcome = "differs" =>
              nxt \in Recorded(r.visited) /\ r.visited[nxt] # stack
<1>1. CASE r = [visited |-> v, labels |-> l, outcome |-> o] /\ o # "none"
  BY <1>1 DEF Grows, Enters
<1>2. CASE /\ o = "none" /\ r.visited = v /\ r.labels = l
           /\ r = [visited |-> v, labels |-> l, outcome |-> r.outcome]
           /\ \/ r.outcome = "outside"
              \/ r.outcome = "none" /\ nxt \in Offsets /\ v[nxt] # UNVISITED /\ v[nxt] = stack
              \/ r.outcome = "differs" /\ nxt \in Offsets /\ v[nxt] \notin {UNVISITED, stack}
  BY <1>2 DEF Grows, Recorded, Enters
<1>3. CASE /\ o = "none" /\ nxt \in Offsets /\ v[nxt] = UNVISITED
           /\ r = [visited |-> [v EXCEPT ![nxt] = stack], labels |-> Append(l, nxt),
                   outcome |-> "none"]
  <2>1. PICK w : w = [v EXCEPT ![nxt] = stack] OBVIOUS
  <2>2. w \in Depths /\ w[nxt] = stack /\ \A i \in Offsets : i # nxt => w[i] = v[i]
    BY <1>3, <2>1 DEF Depths
  <2>3. Recorded(w) = Recorded(v) \cup {nxt} /\ nxt \notin Recorded(v)
    BY <1>3, <2>2 DEF Recorded, UNVISITED
  <2>4. l \in Seq(Recorded(w)) BY <2>3, SeqFacts
  <2>5. PICK k : k = Append(l, nxt) OBVIOUS
  <2>6. k \in Seq(Recorded(w)) /\ {k[j] : j \in DOMAIN k} = {l[j] : j \in DOMAIN l} \cup {nxt}
    BY <2>3, <2>4, <2>5, AppendFacts
  <2>7. Grows(v, l, w, k) BY <2>2, <2>3, <2>6 DEF Grows, Recorded
  <2>8. r = [visited |-> w, labels |-> k, outcome |-> "none"] BY <1>3, <2>1, <2>5
  <2>9. r.visited = w /\ r.labels = k /\ r.outcome = "none" BY <2>8
  <2> QED BY <1>3, <2>1, <2>2, <2>3, <2>7, <2>8, <2>9 DEF Enters
<1>4. ASSUME NEW w, NEW k, NEW q, r = [visited |-> w, labels |-> k, outcome |-> q]
      PROVE  r.visited = w /\ r.labels = k /\ r.outcome = q
  BY <1>4
<1>5. StepResult(v, l, o, nxt, stack, r) BY PerformStepCases
<1> QED BY <1>1, <1>2, <1>3, <1>4, <1>5 DEF StepResult
\* Where a jump's first step leads, and with what depth.
JumpDepth(new) == IF Instr.op = "CALL" THEN 0 ELSE new

\* A jump adds at most its target and then the position that follows.
LEMMA WalkJumpFacts ==
  ASSUME TypeOK, WalkJump, NEW new, new = GetNewStack(Instr, cur_stack)
  PROVE  /\ new \in Nat
         /\ Grows(visited, labels, visited', labels')
         /\ outcome' \in {"none", "outside", "differs"}
         /\ outcome' = "none" => Instr.a \in Visited' /\ visited'[Instr.a] = JumpDepth(new)
         /\ outcome' = "none" /\ Instr.op # "JMP" =>
              symbol_offset + 1 \in Visited' /\ visited'[symbol_offset + 1] = new
         /\ \E w : /\ Enters(visited, w, Instr.a, JumpDepth(new))
                   /\ IF Instr.op = "JMP" THEN visited' = w
                                          ELSE Enters(w, visited', symbol_offset + 1, new)
         /\ outcome' = "differs" =>
              \/ Instr.a \in Visited' /\ visited'[Instr.a] # JumpDepth(new)
              \/ /\ Instr.op # "JMP" /\ symbol_offset + 1 \in Visited'
                 /\ visited'[symbol_offset + 1] # new
<1>1. /\ phase = "walk" /\ outcome = "none" /\ IsCode(program) /\ program' = program
      /\ visited \in Depths /\ labels \in Seq(Recorded(visited)) /\ cur_stack \in Nat
      /\ symbol_offset \in Offsets
  BY DEF WalkJump, Passes, TypeOK, Depths, Recorded, code
<1>2. Instr \in Instruction BY <1>1, CodeFacts DEF Instr, Offsets
<1>3. new \in Nat BY <1>1, <1>2, NewStackType DEF WalkJump, Passes
<1>4. JumpDepth(new) \in Nat BY <1>3 DEF JumpDepth
<1>5. "none" \in Outcomes BY DEF Outcomes
<1>6. \A w : Recorded(w)' = Recorded(w) BY <1>1 DEF Recorded, Offsets
<1>7. Visited' = Recorded(visited') BY <1>1 DEF Visited, Recorded, Offsets
<1> DEFINE m == [visited |-> visited, labels |-> labels, outcome |-> "none"]
<1>8. PICK t : t = PerformStep(m, Instr.a, JumpDepth(new)) OBVIOUS
<1>9. PICK last : last = IF Instr.op = "JMP" THEN t
                                            ELSE PerformStep(t, symbol_offset + 1, new)
  OBVIOUS
<1>10. visited' = last.visited /\ labels' = last.labels /\ outcome' = last.outcome
  BY <1>1, <1>8, <1>9 DEF WalkJump, JumpDepth
<1> HIDE DEF m
<1>11. /\ t = [visited |-> t.visited, labels |-> t.labels, outcome |-> t.outcome]
       /\ Grows(visited, labels, t.visited, t.labels)
       /\ t.outcome \in {"none", "outside", "differs"}
       /\ Enters(visited, t.visited, Instr.a, JumpDepth(new))
       /\ t.outcome = "none" => /\ Instr.a \in Recorded(t.visited)
                                /\ t.visited[Instr.a] = JumpDepth(new)
       /\ t.outcome = "differs" => /\ Instr.a \in Recorded(t.visited)
                                   /\ t.visited[Instr.a] # JumpDepth(new)
  BY <1>1, <1>4, <1>5, <1>8, PerformStepGrows DEF m
<1>12. CASE Instr.op = "JMP"
  BY <1>3, <1>7, <1>9, <1>10, <1>11, <1>12
<1>13. CASE Instr.op # "JMP"
  <2>1. t.visited \in Depths /\ t.labels \in Seq(Recorded(t.visited)) /\ t.outcome \in Outcomes
    BY <1>11 DEF Grows, Outcomes
  <2>2. last = PerformStep([visited |-> t.visited, labels |-> t.labels, outcome |-> t.outcome],
                           symbol_offset + 1, new)
    BY <1>9, <1>11, <1>13
  <2>3. /\ Grows(t.visited, t.labels, last.visited, last.labels)
        /\ last.outcome \in {t.outcome, "outside", "differs"}
        /\ Enters(t.visited, last.visited, symbol_offset + 1, new)
        /\ last.outcome = "none" => /\ t.outcome = "none"
                                    /\ symbol_offset + 1 \in Recorded(last.visited)
                                    /\ last.visited[symbol_offset + 1] = new
        /\ t.outcome = "none" /\ last.outcome = "differs" =>
             /\ symbol_offset + 1 \in Recorded(last.visited)
             /\ last.visited[symbol_offset + 1] # new
    BY <1>3, <2>1, <2>2, PerformStepGrows
  <2>4. Grows(visited, labels, last.visited, last.labels)
    BY <1>11, <2>3 DEF Grows
  <2>5. \A i \in Recorded(t.visited) :
          i \in Recorded(last.visited) /\ last.visited[i] = t.visited[i]
    BY <2>3 DEF Grows
  <2>6. t.outcome = "outside" => last = t
    <3>1. ASSUME t.outcome # "none" PROVE last = t
      BY <2>1, <2>2, <1>11, <1>3, <3>1, PerformStepCases DEF StepResult
    <3> QED BY <3>1
  <2>7. last.outcome = "differs" => t.outcome \in {"none", "differs"} BY <1>11, <2>3, <2>6
  <2> QED BY <1>3, <1>7, <1>10, <1>11, <1>13, <2>3, <2>4, <2>5, <2>7
<1> QED BY <1>12, <1>13
\* Falling through to the next instruction: it is in the code.
LEMMA WalkOnFacts ==
  ASSUME TypeOK, WalkOn, NEW new, new = GetNewStack(Instr, cur_stack)
  PROVE  /\ new \in Nat /\ symbol_offset + 1 \in Offsets
         /\ outcome = "none" /\ outcome' \in {"none", "differs"} /\ labels' = labels
         /\ Enters(visited, visited', symbol_offset + 1, new)
         /\ outcome' = "none" => /\ visited'[symbol_offset + 1] = new
                                 /\ symbol_offset + 1 \in Visited'
         /\ \/ /\ visited' # visited /\ symbol_offset' = symbol_offset + 1 /\ cur_stack' = new
               /\ phase' = "walk" /\ outcome' = "none"
            \/ /\ visited' = visited /\ phase' \in {"collect_marks", "stopped"}
               /\ UNCHANGED <<symbol_offset, cur_stack>>
               /\ outcome' = "differs" => /\ visited[symbol_offset + 1] # new
                                          /\ symbol_offset + 1 \in Visited
<1>1. /\ phase = "walk" /\ outcome = "none" /\ IsCode(program) /\ program' = program
      /\ visited \in Depths /\ cur_stack \in Nat /\ symbol_offset \in Offsets
  BY DEF WalkOn, Passes, TypeOK, Depths, code
<1>2. Instr \in Instruction /\ symbol_offset + 1 \in Offsets
  BY <1>1, CodeFacts DEF Instr, Offsets, WalkOn, Passes, Unsupported
<1>3. new \in Nat BY <1>1, <1>2, NewStackType DEF WalkOn, Passes
<1>4. CASE /\ visited[symbol_offset + 1] = UNVISITED
           /\ visited' = [visited EXCEPT ![symbol_offset + 1] = new]
           /\ symbol_offset' = symbol_offset + 1 /\ cur_stack' = new
           /\ UNCHANGED <<labels, phase, outcome>>
  <2>1. visited'[symbol_offset + 1] = new BY <1>1, <1>2, <1>4 DEF Depths
  <2> QED BY <1>1, <1>2, <1>3, <1>4, <2>1 DEF Enters, Visited, UNVISITED, Offsets
<1>5. CASE /\ visited[symbol_offset + 1] = new
           /\ phase' = "collect_marks"
           /\ UNCHANGED <<marks, outcome, symbol_offset, cur_stack>>
  BY <1>1, <1>2, <1>3, <1>5 DEF Enters, Visited, UNVISITED, Offsets, marks
<1>6. CASE /\ visited[symbol_offset + 1] \notin {UNVISITED, new}
           /\ Stop("differs")
           /\ UNCHANGED <<marks, symbol_offset, cur_stack>>
  BY <1>1, <1>2, <1>3, <1>6 DEF Enters, Visited, UNVISITED, Offsets, marks, Stop
<1> QED BY <1>4, <1>5, <1>6 DEF WalkOn

\* The verifier starts in the types.
LEMMA InitType == Init => TypeOK
<1> SUFFICES ASSUME Init PROVE TypeOK OBVIOUS
<1> USE VerifierAssumption
<1>1. IsCode(program) BY DEF Init
<1>2. /\ MAIN \in Offsets
      /\ \A i \in Offsets : program[i].a \in Nat
  BY <1>1, CodeFacts DEF Offsets
<1>3. \A i \in Offsets : program[i].a \div HALF \in Nat BY <1>2
<1>4. visited \in [Offsets -> Nat \cup {UNVISITED}] /\ visited[MAIN] = 0
  BY <1>2 DEF Init
<1>5. upper \in [Offsets -> Nat] BY <1>3 DEF Init
<1>6. labels \in Seq({i \in Offsets : visited[i] # UNVISITED})
  BY <1>2, <1>4 DEF Init, UNVISITED
<1> QED BY <1>1, <1>2, <1>4, <1>5, <1>6 DEF Init, TypeOK, Phases, Outcomes

\* Every action keeps them.
LEMMA TypeStep == TypeOK /\ [Next]_vars => TypeOK'
<1> SUFFICES ASSUME TypeOK, [Next]_vars PROVE TypeOK' OBVIOUS
<1> USE VerifierAssumption
<1>0. /\ IsCode(program) /\ visited \in Depths /\ labels \in Seq(Recorded(visited))
      /\ symbol_offset \in Offsets /\ cur_stack \in Nat /\ max_stack \in Nat \cup {-1}
      /\ upper \in [Offsets -> Nat]
      /\ Instr \in Instruction
      /\ Instr.op # "EOF" => symbol_offset + 1 \in Offsets
      /\ 1 \in Offsets
      /\ begin_offsets \in Seq({i \in Offsets : program[i].op \in Begins})
  <2>1. IsCode(program) /\ symbol_offset \in Offsets BY DEF TypeOK
  <2> QED BY <2>1, CodeFacts DEF TypeOK, Depths, Recorded, Instr, Offsets, MAIN
<1>1. CASE TakeLabel
  <2>1. Head(labels) \in Recorded(visited) /\ Tail(labels) \in Seq(Recorded(visited))
    BY <1>0, <1>1 DEF TakeLabel
  <2>2. visited[Head(labels)] \in Nat BY <1>0, <2>1 DEF Recorded, Depths
  <2> QED BY <1>1, <2>1, <2>2 DEF TakeLabel, TypeOK, code, pass, Recorded, Offsets, Phases
<1>2. CASE ThrowUnsupported
  BY <1>2 DEF ThrowUnsupported, ThrowAt, Stop, TypeOK, code, marks, pass, Offsets, Phases, Outcomes
<1>3. CASE ThrowArguments
  BY <1>3 DEF ThrowArguments, ThrowAt, Stop, TypeOK, code, marks, pass, Offsets, Phases, Outcomes
<1>4. CASE ThrowExhausted
  BY <1>4 DEF ThrowExhausted, ThrowAt, Stop, TypeOK, code, marks, pass, Offsets, Phases, Outcomes
<1>5. CASE WalkJump
  <2>1. PICK new : new = GetNewStack(Instr, cur_stack) OBVIOUS
  <2>2. Grows(visited, labels, visited', labels') /\ outcome' \in {"none", "outside", "differs"}
    BY <1>5, <2>1, WalkJumpFacts
  <2>3. /\ visited' \in Depths /\ labels' \in Seq(Recorded(visited'))
        /\ UNCHANGED <<code, pass, symbol_offset, cur_stack>>
        /\ phase' \in Phases /\ outcome' \in Outcomes
        /\ phase' = "stopped" <=> outcome' # "none"
    BY <1>5, <2>2 DEF Grows, WalkJump, Passes, Phases, Outcomes
  <2> QED BY <2>3 DEF TypeOK, Depths, Recorded, code, pass, Offsets
<1>6. CASE WalkStop
  BY <1>6 DEF WalkStop, Passes, TypeOK, code, marks, pass, Offsets, Phases
<1>7. CASE WalkOn
  <2>1. PICK new : new = GetNewStack(Instr, cur_stack) OBVIOUS
  <2>2. /\ new \in Nat /\ symbol_offset + 1 \in Offsets
        /\ outcome' \in {"none", "differs"} /\ labels' = labels
        /\ Enters(visited, visited', symbol_offset + 1, new)
        /\ symbol_offset' \in {symbol_offset, symbol_offset + 1}
        /\ cur_stack' \in {cur_stack, new}
    BY <1>7, <2>1, WalkOnFacts
  <2>3. visited' \in Depths /\ Recorded(visited) \subseteq Recorded(visited')
    BY <1>0, <2>2 DEF Enters, Depths, Recorded, UNVISITED
  <2>4. labels' \in Seq(Recorded(visited')) BY <1>0, <2>2, <2>3, SeqFacts
  <2>5. UNCHANGED <<code, pass>> BY <1>7 DEF WalkOn, Passes
  <2>6. phase' \in Phases /\ (phase' = "stopped" <=> outcome' # "none")
    BY <1>7 DEF WalkOn, Passes, Stop, TypeOK, Phases
  <2>7. outcome' \in Outcomes BY <2>2 DEF Outcomes
  <2>8. symbol_offset' \in Offsets /\ cur_stack' \in Nat BY <1>0, <2>2
  <2> QED BY <2>3, <2>4, <2>5, <2>6, <2>7, <2>8
          DEF TypeOK, Depths, Recorded, code, pass, Offsets
<1>8. CASE CollectMarksDone
  BY <1>0, <1>8 DEF CollectMarksDone, TypeOK, code, marks, pass, Offsets, Phases
<1>9. CASE VerifyEOF
  BY <1>9 DEF VerifyEOF, Stop, TypeOK, code, marks, pass, Offsets, Phases, Outcomes
<1>10. CASE SkipUnvisited
  BY <1>0, <1>10 DEF SkipUnvisited, Advance, TypeOK, code, marks, pass, Offsets
<1>11. visited[symbol_offset] # UNVISITED => Seen \in Nat
  BY <1>0 DEF Seen, Depths
<1>12. ASSUME VerifyStep PROVE UNCHANGED <<program, visited, labels, cur_stack>>
  BY <1>12 DEF VerifyStep, marks
<1>13. CASE VerifyEnd
  <2>1. Seen % HALF \in Nat BY <1>11, <1>13 DEF VerifyEnd, VerifyStep
  <2>2. upper' \in [Offsets -> Nat] BY <1>0, <1>13, <2>1 DEF VerifyEnd
  <2>3. begin_offsets' \in Seq({i \in Offsets : program[i].op \in Begins})
    BY <1>0, <1>13 DEF VerifyEnd
  <2> QED BY <1>0, <1>12, <1>13, <2>2, <2>3 DEF VerifyEnd, VerifyStep, Advance, TypeOK, Offsets
<1>14. CASE VerifyEndEncoded
  BY <1>0, <1>11, <1>12, <1>14
     DEF VerifyEndEncoded, VerifyStep, Stop, TypeOK, Offsets, Phases, Outcomes
<1>15. CASE VerifyBegin
  <2>1. Append(begin_offsets, symbol_offset) \in Seq({i \in Offsets : program[i].op \in Begins})
    BY <1>0, <1>15 DEF VerifyBegin, Instr
  <2>2. Instr.op # "EOF" BY <1>15 DEF VerifyBegin, Begins
  <2> QED BY <1>0, <1>11, <1>12, <1>15, <2>1, <2>2
          DEF VerifyBegin, VerifyStep, Advance, TypeOK, Offsets
<1>16. CASE VerifyVariables
  <2>1. Instr.op # "EOF" BY <1>16 DEF VerifyVariables, Variables
  <2>2. \/ Advance
        \/ Stop("variable") /\ UNCHANGED symbol_offset
    BY <1>16 DEF VerifyVariables
  <2>3. UNCHANGED <<upper, begin_offsets>> /\ max_stack' = Seen /\ VerifyStep
    BY <1>16 DEF VerifyVariables
  <2> QED BY <1>0, <1>11, <1>12, <2>1, <2>2, <2>3
          DEF VerifyStep, Advance, Stop, TypeOK, Offsets, Phases, Outcomes
<1>17. CASE VerifyNoBegin
  BY <1>0, <1>11, <1>12, <1>17
     DEF VerifyNoBegin, VerifyStep, Stop, TypeOK, Offsets, Phases, Outcomes
<1>18. CASE VerifyJump
  <2>1. Instr.op # "EOF" BY <1>18 DEF VerifyJump, Jumps, CondJumps
  <2> QED BY <1>0, <1>11, <1>12, <1>18, <2>1
          DEF VerifyJump, VerifyStep, Advance, Stop, TypeOK, Offsets, Phases, Outcomes
<1>19. CASE VerifyOther
  BY <1>0, <1>11, <1>12, <1>19 DEF VerifyOther, VerifyStep, Advance, TypeOK, Offsets
<1>20. CASE UNCHANGED vars
  BY <1>20 DEF vars, code, marks, pass, TypeOK, Offsets
<1> QED BY <1>1, <1>2, <1>3, <1>4, <1>5, <1>6, <1>7, <1>8, <1>9, <1>10, <1>13, <1>14,
           <1>15, <1>16, <1>17, <1>18, <1>19, <1>20 DEF Next, CollectMarks, Verify, Stopped
\* The code is not changed, but for the upper halves of the first arguments.
LEMMA ProgramKept == [Next]_vars => program' = program
BY DEF Next, vars, code, CollectMarks, TakeLabel, ThrowUnsupported, ThrowArguments,
       ThrowExhausted, ThrowAt, WalkJump, WalkStop, WalkOn, Passes, CollectMarksDone,
       Verify, VerifyEOF, SkipUnvisited, VerifyStep, VerifyEnd, VerifyEndEncoded, VerifyBegin,
       VerifyVariables, VerifyNoBegin, VerifyJump, VerifyOther, Stopped

\* Every variable has its type; the worklist holds recorded positions, and neither
\* pass leaves the code.
THEOREM TypeCorrect == Spec => []TypeOK
<1> QED BY InitType, TypeStep, PTL DEF Spec

-----------------------------------------------------------------------------
(* Paths. *)

\* The recursion that defines Paths, step by step.
LEMMA PathsUnfold ==
  ASSUME NEW p, Len(p) \in Nat
  PROVE  /\ Paths(p)[0] = {<<MAIN, 0>>}
         /\ \A n \in 0..Len(p) : n < Len(p) => Paths(p)[n + 1] = Further(p, Paths(p)[n])
<1> DEFINE Body(g, m) == [n \in 0..m |-> IF n = 0 THEN {<<MAIN, 0>>} ELSE Further(p, g[n - 1])]
           Have == {m \in Nat : \E g : g = Body(g, m)}
<1>1. 0 \in Have
  <2>1. PICK g : g = [n \in 0..0 |-> {<<MAIN, 0>>}] OBVIOUS
  <2>2. g = Body(g, 0) BY <2>1
  <2> QED BY <2>2
<1>2. ASSUME NEW m \in Nat, m \in Have PROVE m + 1 \in Have
  <2>1. PICK g : g = Body(g, m) BY <1>2
  <2>2. PICK h : h = [n \in 0..(m + 1) |-> IF n = m + 1 THEN Further(p, g[m]) ELSE g[n]] OBVIOUS
  <2>3. \A n \in 0..m : h[n] = g[n] BY <2>2
  <2>4. ASSUME NEW n \in 0..(m + 1)
        PROVE  h[n] = IF n = 0 THEN {<<MAIN, 0>>} ELSE Further(p, h[n - 1])
    <3>1. CASE n = m + 1 BY <2>2, <2>3, <3>1
    <3>2. CASE n \in 0..m
      <4>1. h[n] = g[n] BY <2>3, <3>2
      <4>2. g[n] = IF n = 0 THEN {<<MAIN, 0>>} ELSE Further(p, g[n - 1]) BY <2>1, <3>2
      <4>3. n # 0 => n - 1 \in 0..m BY <3>2
      <4> QED BY <2>3, <4>1, <4>2, <4>3
    <3> QED BY <3>1, <3>2
  <2>5. h = Body(h, m + 1) BY <2>2, <2>4
  <2> QED BY <2>5
<1>3. Len(p) \in Have
  <2> HIDE DEF Have
  <2> QED BY <1>1, <1>2, SetInduction
<1>4. Paths(p) = CHOOSE g : g = Body(g, Len(p)) BY DEF Paths
<1>5. Paths(p) = Body(Paths(p), Len(p)) BY <1>3, <1>4
<1>6. \A n \in 0..Len(p) : Paths(p)[n] = IF n = 0 THEN {<<MAIN, 0>>} ELSE Further(p, Paths(p)[n - 1])
  BY <1>5
<1>7. ASSUME NEW n \in 0..Len(p), n < Len(p) PROVE Paths(p)[n + 1] = Further(p, Paths(p)[n])
  <2>1. n + 1 \in 0..Len(p) /\ n + 1 # 0 /\ (n + 1) - 1 = n BY <1>7
  <2> QED BY <1>6, <2>1
<1> QED BY <1>6, <1>7

\* Longer paths reach what shorter ones do, and what one step leads to.
LEMMA PathsGrow ==
  ASSUME NEW p, Len(p) \in Nat, NEW m \in 0..Len(p), NEW s \in Paths(p)[m]
  PROVE  /\ s \in Attained(p)
         /\ m < Len(p) => s \in Paths(p)[m + 1]
         /\ m < Len(p) /\ s[1] \in DOMAIN p =>
              \A t \in Flow(p, s[1], s[2]) : t \in Paths(p)[m + 1] /\ t \in Attained(p)
<1>1. ASSUME NEW n \in 0..Len(p), n < Len(p) PROVE Paths(p)[n] \subseteq Paths(p)[n + 1]
  BY <1>1, PathsUnfold DEF Further
<1>2. ASSUME NEW a \in 0..Len(p) PROVE Paths(p)[a] \subseteq Paths(p)[Len(p)]
  <2> DEFINE Upto == {k \in Nat : a + k <= Len(p) => Paths(p)[a] \subseteq Paths(p)[a + k]}
  <2>1. 0 \in Upto OBVIOUS
  <2>2. ASSUME NEW k \in Nat, k \in Upto PROVE k + 1 \in Upto
    <3> SUFFICES ASSUME a + (k + 1) <= Len(p) PROVE Paths(p)[a] \subseteq Paths(p)[a + (k + 1)]
      OBVIOUS
    <3>1. a + k \in 0..Len(p) /\ a + k < Len(p) /\ (a + k) + 1 = a + (k + 1) OBVIOUS
    <3>2. Paths(p)[a] \subseteq Paths(p)[a + k] BY <2>2, <3>1
    <3> QED BY <1>1, <3>1, <3>2
  <2>3. Len(p) - a \in Nat /\ a + (Len(p) - a) = Len(p) OBVIOUS
  <2>4. Len(p) - a \in Upto
    <3> HIDE DEF Upto
    <3> QED BY <2>1, <2>2, <2>3, SetInduction
  <2> QED BY <2>3, <2>4
<1>3. m < Len(p) => m + 1 \in 0..Len(p) OBVIOUS
<1>4. ASSUME m < Len(p), s[1] \in DOMAIN p, NEW t \in Flow(p, s[1], s[2])
      PROVE  t \in Paths(p)[m + 1]
  <2>1. t \in Further(p, Paths(p)[m]) BY <1>4 DEF Further
  <2> QED BY <1>4, <2>1, PathsUnfold
<1> QED BY <1>1, <1>2, <1>3, <1>4 DEF Attained
\* Some path of fewer steps than positions are recorded reaches each of them, with
\* the depth v records.
Reached(v) == \A i \in Recorded(v) : <<i, v[i]>> \in Paths(program)[Cardinality(Recorded(v)) - 1]

\* There are no more recorded positions than positions.
LEMMA RecordedCount ==
  ASSUME IsCode(program), NEW v
  PROVE  /\ IsFiniteSet(Recorded(v))
         /\ Cardinality(Recorded(v)) \in 0..Len(program)
         /\ Recorded(v) # {} => /\ Cardinality(Recorded(v)) >= 1
                                /\ Cardinality(Recorded(v)) - 1 \in 0..Len(program)
                                /\ Cardinality(Recorded(v)) - 1 < Len(program)
<1>1. Len(program) \in Nat \ {0} /\ Offsets = 1..Len(program) BY CodeFacts DEF Offsets
<1>2. IsFiniteSet(Offsets) /\ Cardinality(Offsets) = Len(program) BY <1>1, FS_Interval
<1>3. IsFiniteSet(Recorded(v)) /\ Cardinality(Recorded(v)) <= Len(program)
  BY <1>2, FS_Subset DEF Recorded
<1>4. Cardinality(Recorded(v)) \in Nat BY <1>3, FS_CardinalityType
<1>5. Recorded(v) # {} => Cardinality(Recorded(v)) # 0 BY <1>3, FS_EmptySet
<1> QED BY <1>1, <1>3, <1>4, <1>5

\* Recording a position that a path of one more step reaches.
LEMMA EnterReached ==
  ASSUME IsCode(program), NEW v \in Depths, Recorded(v) # {}, Reached(v),
         NEW nxt, NEW stack \in Nat, NEW w, Enters(v, w, nxt, stack),
         <<nxt, stack>> \in Paths(program)[Cardinality(Recorded(v))]
  PROVE  /\ w \in Depths /\ Recorded(w) # {} /\ Reached(w)
         /\ \A s \in Paths(program)[Cardinality(Recorded(v))] :
              s \in Paths(program)[Cardinality(Recorded(w))]
<1>1. CASE w = v BY <1>1
<1>2. CASE nxt \in Offsets /\ v[nxt] = UNVISITED /\ w = [v EXCEPT ![nxt] = stack]
  <2>1. w \in Depths /\ w[nxt] = stack /\ \A i \in Offsets : i # nxt => w[i] = v[i]
    BY <1>2 DEF Depths
  <2>2. nxt \notin Recorded(v) /\ Recorded(w) = Recorded(v) \cup {nxt}
    BY <1>2, <2>1 DEF Recorded, UNVISITED
  <2>3. PICK c : c = Cardinality(Recorded(v)) OBVIOUS
  <2>4. c \in 1..Len(program) /\ c - 1 \in 0..Len(program) /\ c - 1 < Len(program)
    BY <2>3, RecordedCount
  <2>5. Cardinality(Recorded(w)) = c + 1 BY <2>2, <2>3, RecordedCount, FS_AddElement
  <2>6. c + 1 <= Len(program) BY <2>4, <2>5, RecordedCount
  <2>7. ASSUME NEW i \in Recorded(v) PROVE <<i, w[i]>> \in Paths(program)[c]
    <3>1. <<i, v[i]>> \in Paths(program)[c - 1] BY <2>3 DEF Reached
    <3>2. <<i, v[i]>> \in Paths(program)[(c - 1) + 1] BY <2>4, <3>1, PathsGrow
    <3>3. i \in Offsets BY DEF Recorded
    <3> QED BY <2>1, <2>2, <2>4, <3>2, <3>3
  <2>8. <<nxt, w[nxt]>> \in Paths(program)[c] BY <2>1, <2>3
  <2>9. Reached(w)
    <3>1. (c + 1) - 1 = c BY <2>4
    <3> QED BY <2>2, <2>5, <2>7, <2>8, <3>1 DEF Reached
  <2>10. \A s \in Paths(program)[c] : s \in Paths(program)[c + 1]
    BY <2>4, <2>6, PathsGrow
  <2> QED BY <2>1, <2>2, <2>3, <2>5, <2>9, <2>10
<1> QED BY <1>1, <1>2 DEF Enters

\* What a walk is about to step to, by the handlers' effects.
LEMMA FlowOfWalk ==
  ASSUME TypeOK, Counted(program), Passes, NEW new, new = GetNewStack(Instr, cur_stack)
  PROVE  /\ new = cur_stack + Effect(Instr)
         /\ Instr.op = "JMP" =>
              Flow(program, symbol_offset, cur_stack) = {<<Instr.a, JumpDepth(new)>>}
         /\ Instr.op \in Jumps \ {"JMP"} =>
              Flow(program, symbol_offset, cur_stack) =
                {<<Instr.a, JumpDepth(new)>>, <<symbol_offset + 1, new>>}
         /\ Instr.op \in Stops => Flow(program, symbol_offset, cur_stack) = {}
         /\ Instr.op \notin Jumps \cup Stops =>
              Flow(program, symbol_offset, cur_stack) = {<<symbol_offset + 1, new>>}
<1>1. /\ Instr \in Instruction /\ Instr.op # "CALL_STRING" /\ Instr.op \notin Unsupported
      /\ cur_stack \in Nat /\ Instr = program[symbol_offset]
  BY CodeFacts DEF TypeOK, Instr, Offsets, Counted, Passes
<1>2. new = cur_stack + Effect(Instr) BY <1>1, EffectCounted
<1>3. Instr.op \in Jumps \cap Stops => FALSE BY DEF Jumps, CondJumps, Stops
<1> QED BY <1>1, <1>2, <1>3 DEF Flow, JumpDepth, Jumps, CondJumps, Stops, Unsupported
-----------------------------------------------------------------------------
(* collect_marks. *)

\* What is recorded is reached, in the two notations.
LEMMA PathInvReached == PathInv <=> Reached(visited)
BY DEF PathInv, Reached, Visited, Recorded

\* MAIN is recorded at first, and not walked.
LEMMA InitMarks == Init => MarksInv
<1> SUFFICES ASSUME Init PROVE MarksInv OBVIOUS
<1>1. IsCode(program) /\ MAIN \in Offsets /\ Len(program) \in Nat
  BY VerifierAssumption, CodeFacts DEF Init, Offsets
<1>2. Visited = {MAIN} /\ visited[MAIN] = 0 BY <1>1 DEF Init, Visited, UNVISITED
<1>3. Cardinality(Visited) - 1 = 0 BY <1>2, FS_Singleton
<1>4. PathInv BY <1>1, <1>2, <1>3, PathsUnfold DEF PathInv
<1>5. MAIN \in Pending
  <2>1. labels = <<MAIN>> /\ 1 \in DOMAIN labels /\ labels[1] = MAIN BY DEF Init
  <2> QED BY <2>1 DEF Pending
<1>6. WalkInv BY <1>2, <1>5 DEF Init, WalkInv, Marked
<1> QED BY <1>4, <1>6 DEF MarksInv

\* Marks that only grow keep what is solved.
LEMMA SolvedKept ==
  ASSUME program' = program, NEW i \in Visited, Solved(i),
         Visited \subseteq Visited', \A j \in Visited : visited'[j] = visited[j]
  PROVE  Solved(i)'
<1>1. visited'[i] = visited[i] OBVIOUS
<1>2. Flow(program, i, visited[i])' = Flow(program, i, visited[i])
  BY <1>1 DEF Flow, Effect
<1>3. Flow(program', i, visited'[i]) = Flow(program, i, visited[i]) BY <1>1
<1>4. \A s \in Flow(program, i, visited[i]) : s[1] \in Visited' /\ visited'[s[1]] = s[2]
  BY DEF Solved
<1>5. program'[i].op \notin Unsupported BY DEF Solved
<1> QED BY <1>3, <1>4, <1>5 DEF Solved

\* A step of collect_marks keeps the marks' invariant.
LEMMA CollectStep ==
  ASSUME TypeOK, TypeOK', Counted(program), MarksInv, CollectMarks
  PROVE  MarksInv'
<1>1. program' = program BY ProgramKept DEF Next
<1>2. /\ IsCode(program) /\ visited \in Depths /\ labels \in Seq(Recorded(visited))
      /\ cur_stack \in Nat /\ symbol_offset \in Offsets
  BY DEF TypeOK, Depths, Recorded
<1>3. Visited = Recorded(visited) /\ Visited' = Recorded(visited')
  BY <1>1 DEF Visited, Recorded, Offsets
<1>4. Reached(visited) BY PathInvReached DEF MarksInv
<1>5. ASSUME Reached(visited') PROVE PathInv'
  BY <1>1, <1>3, <1>5 DEF PathInv, Reached
<1>6. \A w : Reached(w)' <=> Reached(w) BY <1>1 DEF Reached, Recorded, Offsets
<1>7. CASE TakeLabel
  <2>1. visited' = visited /\ Visited' = Visited BY <1>3, <1>7 DEF TakeLabel
  <2>2. Pending' = Pending /\ symbol_offset' \in Visited
    <3>1. /\ labels # <<>> /\ labels' = Tail(labels) /\ symbol_offset' = Head(labels)
          /\ phase = "collect_marks" /\ phase' = "walk"
      BY <1>7 DEF TakeLabel
    <3>2. /\ Len(labels) \in Nat \ {0} /\ DOMAIN labels = 1..Len(labels)
          /\ DOMAIN Tail(labels) = 1..(Len(labels) - 1)
          /\ \A k \in 1..(Len(labels) - 1) : Tail(labels)[k] = labels[k + 1]
          /\ Head(labels) = labels[1]
      BY <1>2, <3>1
    <3>3. ASSUME NEW k \in DOMAIN labels
          PROVE  labels[k] = Head(labels) \/ \E j \in DOMAIN Tail(labels) : labels[k] = Tail(labels)[j]
      <4>1. CASE k = 1 BY <3>2, <4>1
      <4>2. CASE k # 1
        <5>1. k - 1 \in 1..(Len(labels) - 1) /\ (k - 1) + 1 = k BY <3>2, <4>2
        <5> QED BY <3>2, <5>1
      <4> QED BY <4>1, <4>2
    <3>4. ASSUME NEW j \in DOMAIN Tail(labels)
          PROVE  \E k \in DOMAIN labels : labels[k] = Tail(labels)[j]
      <4>1. j + 1 \in DOMAIN labels BY <3>2
      <4> QED BY <3>2, <4>1
    <3>5. 1 \in DOMAIN labels BY <3>2
    <3>6. {labels[k] : k \in DOMAIN labels} =
            {Tail(labels)[k] : k \in DOMAIN Tail(labels)} \cup {Head(labels)}
      BY <3>2, <3>3, <3>4, <3>5, SMTT(60)
    <3>7. Head(labels) \in Visited BY <1>2, <1>3, <3>2, <3>5
    <3> QED BY <3>1, <3>6, <3>7 DEF Pending
  <2>3. \A i \in Visited : Solved(i) => Solved(i)' BY <1>1, <2>1, SolvedKept
  <2>4. phase = "collect_marks" /\ outcome' = outcome /\ phase' = "walk"
        /\ visited[symbol_offset'] = cur_stack'
    BY <1>7 DEF TakeLabel
  <2>5. outcome = "none" BY <2>4 DEF TypeOK
  <2>6. WalkInv' BY <2>1, <2>2, <2>3, <2>4, <2>5 DEF WalkInv, MarksInv, Marked
  <2> QED BY <1>4, <1>5, <2>1, <2>6 DEF MarksInv
<1>8. CASE ThrowUnsupported \/ ThrowArguments \/ ThrowExhausted
  <2>1. /\ visited' = visited /\ phase' = "stopped"
        /\ outcome' \in {"unsupported", "arguments", "exhausted"}
    BY <1>8 DEF ThrowUnsupported, ThrowArguments, ThrowExhausted, ThrowAt, Stop, marks
  <2> QED BY <1>4, <1>5, <2>1 DEF MarksInv, WalkInv, Marked
<1>9. ASSUME Passes
      PROVE  /\ symbol_offset \in Visited /\ visited[symbol_offset] = cur_stack
             /\ Instr.op \notin Unsupported /\ phase = "walk" /\ outcome = "none"
             /\ \A s \in Flow(program, symbol_offset, cur_stack) :
                  s \in Paths(program)[Cardinality(Recorded(visited))]
             /\ \A i \in Visited : i = symbol_offset \/ i \in {labels[k] : k \in DOMAIN labels}
                                     \/ Solved(i)
  <2>1. visited[symbol_offset] = cur_stack BY <1>9 DEF Passes, MarksInv, WalkInv
  <2>2. symbol_offset \in Visited BY <1>2, <2>1 DEF Visited, UNVISITED
  <2>3. PICK c : c = Cardinality(Recorded(visited)) - 1 OBVIOUS
  <2>4. c \in 0..Len(program) /\ c < Len(program) /\ c + 1 = Cardinality(Recorded(visited))
    BY <1>2, <1>3, <2>2, <2>3, RecordedCount
  <2>5. <<symbol_offset, cur_stack>> \in Paths(program)[c]
    BY <1>3, <1>4, <2>1, <2>2, <2>3 DEF Reached
  <2>6. \A s \in Flow(program, symbol_offset, cur_stack) : s \in Paths(program)[c + 1]
    <3>1. PICK s : s = <<symbol_offset, cur_stack>> OBVIOUS
    <3>2. s[1] = symbol_offset /\ s[2] = cur_stack BY <3>1
    <3>3. s \in Paths(program)[c] /\ s[1] \in DOMAIN program /\ Len(program) \in Nat
      BY <1>2, <2>5, <3>1, <3>2, CodeFacts DEF Offsets
    <3>4. \A t \in Flow(program, s[1], s[2]) : t \in Paths(program)[c + 1]
      BY <2>4, <3>3, PathsGrow
    <3> QED BY <3>2, <3>4
  <2>7. phase = "walk" /\ Instr.op \notin Unsupported /\ outcome = "none"
    BY <1>9 DEF Passes, TypeOK
  <2>8. \A i \in Visited \ Pending : Solved(i) BY <2>7 DEF MarksInv, WalkInv
  <2> QED BY <2>1, <2>2, <2>4, <2>6, <2>7, <2>8 DEF Pending
<1>10. CASE WalkJump
  <2>1. PICK new : new = GetNewStack(Instr, cur_stack) OBVIOUS
  <2>2. Passes /\ Instr.op \in Jumps /\ UNCHANGED symbol_offset BY <1>10 DEF WalkJump
  <2>3. /\ new \in Nat
        /\ Grows(visited, labels, visited', labels')
        /\ outcome' \in {"none", "outside", "differs"}
        /\ outcome' = "none" => Instr.a \in Visited' /\ visited'[Instr.a] = JumpDepth(new)
        /\ outcome' = "none" /\ Instr.op # "JMP" =>
             symbol_offset + 1 \in Visited' /\ visited'[symbol_offset + 1] = new
        /\ \E w : /\ Enters(visited, w, Instr.a, JumpDepth(new))
                  /\ IF Instr.op = "JMP" THEN visited' = w
                                         ELSE Enters(w, visited', symbol_offset + 1, new)
    BY <1>10, <2>1, WalkJumpFacts
  <2>4. JumpDepth(new) \in Nat BY <2>3 DEF JumpDepth
  <2>5. Reached(visited')
    <3>1. PICK w : /\ Enters(visited, w, Instr.a, JumpDepth(new))
                   /\ IF Instr.op = "JMP" THEN visited' = w
                                          ELSE Enters(w, visited', symbol_offset + 1, new)
      BY <2>3
    <3>2. <<Instr.a, JumpDepth(new)>> \in Paths(program)[Cardinality(Recorded(visited))]
      BY <1>9, <2>1, <2>2, FlowOfWalk
    <3>3. /\ w \in Depths /\ Recorded(w) # {} /\ Reached(w)
          /\ \A s \in Paths(program)[Cardinality(Recorded(visited))] :
               s \in Paths(program)[Cardinality(Recorded(w))]
      BY <1>2, <1>3, <1>4, <1>9, <2>2, <2>4, <3>1, <3>2, EnterReached
    <3>4. CASE Instr.op = "JMP" BY <3>1, <3>3, <3>4
    <3>5. CASE Instr.op # "JMP"
      <4>1. <<symbol_offset + 1, new>> \in Paths(program)[Cardinality(Recorded(visited))]
        BY <1>9, <2>1, <2>2, <3>5, FlowOfWalk
      <4> QED BY <1>2, <2>3, <3>1, <3>3, <3>5, <4>1, EnterReached
    <3> QED BY <3>4, <3>5
  <2>6. WalkInv'
    <3>1. CASE outcome' # "none"
      <4>1. phase' = "stopped" BY <3>1 DEF TypeOK
      <4> QED BY <2>3, <3>1, <4>1 DEF WalkInv, Marked
    <3>2. CASE outcome' = "none"
      <4>1. phase' = "collect_marks" BY <1>10, <3>2 DEF WalkJump, TypeOK
      <4>2. Visited \subseteq Visited' /\ \A j \in Visited : visited'[j] = visited[j]
        BY <1>3, <2>3 DEF Grows
      <4>3. ASSUME NEW i \in Visited', i \notin Pending' PROVE Solved(i)'
        <5>1. i \notin {labels'[k] : k \in DOMAIN labels'} BY <4>3 DEF Pending
        <5>2. i \in Visited /\ i \notin {labels[k] : k \in DOMAIN labels}
          BY <1>3, <2>3, <5>1 DEF Grows
        <5>3. CASE Solved(i) BY <1>1, <4>2, <5>2, <5>3, SolvedKept
        <5>4. CASE i = symbol_offset
          <6>1. visited'[i] = cur_stack BY <1>9, <2>2, <4>2, <5>2, <5>4
          <6>2. \A s \in Flow(program, symbol_offset, cur_stack) :
                  s[1] \in Visited' /\ visited'[s[1]] = s[2]
            BY <2>1, <2>2, <2>3, <3>2, FlowOfWalk
          <6> QED BY <1>1, <1>9, <2>2, <5>4, <6>1, <6>2 DEF Solved, Instr
        <5> QED BY <1>9, <2>2, <5>2, <5>3, <5>4
      <4> QED BY <3>2, <4>1, <4>3 DEF WalkInv, Marked
    <3> QED BY <3>1, <3>2
  <2> QED BY <1>5, <2>5, <2>6 DEF MarksInv
<1>11. CASE WalkStop
  <2>1. /\ Passes /\ Instr.op \in Stops /\ visited' = visited /\ labels' = labels
        /\ phase' = "collect_marks" /\ outcome' = outcome
    BY <1>11 DEF WalkStop, marks
  <2>2. Flow(program, symbol_offset, cur_stack) = {} BY <2>1, FlowOfWalk
  <2>3. Solved(symbol_offset) BY <1>9, <2>1, <2>2 DEF Solved, Instr
  <2>4. ASSUME NEW i \in Visited', i \notin Pending' PROVE Solved(i)'
    <3>1. i \in Visited /\ i \notin {labels[k] : k \in DOMAIN labels}
      BY <1>3, <2>1, <2>4 DEF Pending
    <3>2. Solved(i) BY <1>9, <2>1, <2>3, <3>1
    <3> QED BY <1>1, <1>3, <2>1, <3>1, <3>2, SolvedKept
  <2>5. WalkInv' BY <1>9, <2>1, <2>4 DEF WalkInv, Marked
  <2> QED BY <1>4, <1>5, <2>1, <2>5 DEF MarksInv
<1>12. CASE WalkOn
  <2>1. PICK new : new = GetNewStack(Instr, cur_stack) OBVIOUS
  <2>2. Passes /\ Instr.op \notin Jumps \cup Stops BY <1>12 DEF WalkOn
  <2>3. /\ new \in Nat /\ symbol_offset + 1 \in Offsets
        /\ outcome' \in {"none", "differs"} /\ labels' = labels
        /\ Enters(visited, visited', symbol_offset + 1, new)
        /\ outcome' = "none" => /\ visited'[symbol_offset + 1] = new
                                /\ symbol_offset + 1 \in Visited'
        /\ \/ /\ visited' # visited /\ symbol_offset' = symbol_offset + 1 /\ cur_stack' = new
              /\ phase' = "walk" /\ outcome' = "none"
           \/ /\ visited' = visited /\ phase' \in {"collect_marks", "stopped"}
              /\ UNCHANGED <<symbol_offset, cur_stack>>
    BY <1>12, <2>1, WalkOnFacts
  <2>4. Flow(program, symbol_offset, cur_stack) = {<<symbol_offset + 1, new>>}
    BY <2>1, <2>2, FlowOfWalk
  <2>5. Reached(visited')
    <3>1. <<symbol_offset + 1, new>> \in Paths(program)[Cardinality(Recorded(visited))]
      BY <1>9, <2>2, <2>4
    <3> QED BY <1>2, <1>3, <1>4, <1>9, <2>2, <2>3, <3>1, EnterReached
  <2>6. /\ Visited \subseteq Visited' /\ \A j \in Visited : visited'[j] = visited[j]
        /\ visited' = visited \/ Visited' = Visited \cup {symbol_offset + 1}
    <3>1. CASE visited' = visited BY <1>3, <3>1
    <3>2. CASE /\ visited[symbol_offset + 1] = UNVISITED
               /\ visited' = [visited EXCEPT ![symbol_offset + 1] = new]
      BY <1>2, <1>3, <2>3, <3>2 DEF Depths, Recorded, UNVISITED
    <3> QED BY <2>3, <3>1, <3>2 DEF Enters
  <2>7. ASSUME outcome' = "none", NEW i \in Visited', i \notin Pending' PROVE Solved(i)'
    <3>1. i \notin {labels[k] : k \in DOMAIN labels} BY <2>3, <2>7 DEF Pending
    <3>2. i \in Visited
      <4>1. CASE visited' = visited BY <1>3, <2>7, <4>1
      <4>2. CASE visited' # visited
        <5>1. symbol_offset + 1 \in Pending' BY <2>3, <4>2 DEF Pending
        <5> QED BY <2>6, <2>7, <4>2, <5>1
      <4> QED BY <4>1, <4>2
    <3>3. CASE Solved(i) BY <1>1, <2>6, <3>2, <3>3, SolvedKept
    <3>4. CASE i = symbol_offset
      <4>1. visited'[i] = cur_stack BY <1>9, <2>2, <2>6, <3>2, <3>4
      <4>2. \A s \in Flow(program, symbol_offset, cur_stack) :
              s[1] \in Visited' /\ visited'[s[1]] = s[2]
        BY <2>3, <2>4, <2>7
      <4> QED BY <1>1, <1>9, <2>2, <3>4, <4>1, <4>2 DEF Solved, Instr
    <3> QED BY <1>9, <2>2, <3>1, <3>2, <3>3, <3>4
  <2>8. phase' = "walk" => visited'[symbol_offset'] = cur_stack' BY <2>3
  <2>9. phase' = "stopped" <=> outcome' # "none" BY DEF TypeOK
  <2>10. WalkInv' 
    <3>1. CASE outcome' = "none" BY <2>3, <2>7, <2>8, <2>9, <3>1 DEF WalkInv, Marked
    <3>2. CASE outcome' = "differs" BY <2>3, <2>8, <2>9, <3>2 DEF WalkInv, Marked
    <3> QED BY <2>3, <3>1, <3>2
  <2> QED BY <1>5, <2>5, <2>10 DEF MarksInv
<1>13. CASE CollectMarksDone
  <2>1. /\ visited' = visited /\ labels = <<>> /\ labels' = <<>> /\ phase = "collect_marks"
        /\ phase' = "verify" /\ outcome' = outcome
    BY <1>13 DEF CollectMarksDone, marks
  <2>2. Pending' = Pending BY <2>1 DEF Pending
  <2>3. \A i \in Visited : Solved(i) => Solved(i)' BY <1>1, <1>3, <2>1, SolvedKept
  <2>4. WalkInv' BY <1>3, <2>1, <2>2, <2>3 DEF WalkInv, MarksInv
  <2> QED BY <1>4, <1>5, <2>1, <2>4 DEF MarksInv
<1> QED BY <1>7, <1>8, <1>10, <1>11, <1>12, <1>13 DEF CollectMarks
\* verify leaves the marks alone.
LEMMA MarksInVerify ==
  ASSUME TypeOK, Verify
  PROVE  /\ UNCHANGED <<program, visited, labels, cur_stack>>
         /\ phase = "verify" /\ phase' \in {"verify", "stopped"} /\ outcome = "none"
         /\ outcome' \in {"none", "accepted", "variable", "encode", "jump", "no_begin"}
<1>1. ASSUME phase = "verify", Advance PROVE phase' = "verify" /\ outcome' = outcome
  BY <1>1 DEF Advance
<1>2. outcome = "none" <=> phase # "stopped" BY DEF TypeOK
<1> QED BY <1>1, <1>2
        DEF Verify, VerifyEOF, SkipUnvisited, VerifyStep, VerifyEnd, VerifyEndEncoded,
            VerifyBegin, VerifyVariables, VerifyNoBegin, VerifyJump, VerifyOther,
            Stop, marks, code, pass

\* Every step keeps the marks' invariant.
LEMMA MarksStep ==
  TypeOK /\ TypeOK' /\ (Counted(program) => MarksInv) /\ [Next]_vars =>
    (Counted(program) => MarksInv)'
<1> SUFFICES ASSUME TypeOK, TypeOK', Counted(program) => MarksInv, [Next]_vars, Counted(program)'
             PROVE  MarksInv'
  OBVIOUS
<1>1. program' = program BY ProgramKept
<1>2. Counted(program) /\ MarksInv BY <1>1 DEF Counted
<1>3. CASE CollectMarks BY <1>2, <1>3, CollectStep
<1>4. ASSUME UNCHANGED <<program, visited, labels, cur_stack>>
      PROVE  /\ PathInv' /\ Visited' = Visited
             /\ \A i \in Visited : Solved(i) => Solved(i)'
  <2>1. Visited' = Visited BY <1>4 DEF Visited, Offsets
  <2> QED BY <1>2, <1>4, <2>1, SolvedKept DEF MarksInv, PathInv
<1>5. CASE Verify
  <2>1. /\ UNCHANGED <<program, visited, labels, cur_stack>>
        /\ phase = "verify" /\ phase' \in {"verify", "stopped"}
    BY <1>5, MarksInVerify
  <2>2. Marked /\ labels = <<>> BY <1>2, <2>1 DEF Marked, MarksInv, WalkInv
  <2>3. Pending = {} /\ Pending' = {} BY <2>1, <2>2 DEF Pending
  <2>4. \A i \in Visited' \ Pending' : Solved(i)'
    BY <1>2, <1>4, <2>1, <2>2, <2>3 DEF MarksInv, WalkInv
  <2> QED BY <1>4, <2>1, <2>2, <2>4 DEF MarksInv, WalkInv
<1>6. CASE UNCHANGED vars
  <2>1. UNCHANGED <<program, visited, labels, cur_stack, phase, outcome, symbol_offset>>
    BY <1>6 DEF vars, code, marks
  <2>2. Pending' = Pending /\ Marked' = Marked BY <2>1 DEF Pending, Marked
  <2> QED BY <1>2, <1>4, <2>1, <2>2 DEF MarksInv, WalkInv
<1> QED BY <1>3, <1>5, <1>6 DEF Next, Stopped

\* While the worklist runs, what is recorded and walked is solved by the depths
\* recorded, each of which some path attains.
THEOREM MarksAreSound == Spec => [](Counted(program) => MarksInv)
<1>1. Init => (Counted(program) => MarksInv) BY InitMarks
<1> QED BY <1>1, TypeCorrect, MarksStep, PTL DEF Spec

\* collect_marks returns a solution, for every code without CALL_STRING, whatever
\* its loops, recursions and dead code.
THEOREM MarksAreConsistent == Spec => [](Counted(program) => DepthsConsistent)
<1>1. ASSUME MarksInv, Marked, NEW i \in Visited, NEW s \in Flow(program, i, visited[i]), TypeOK
      PROVE  s[1] \in Visited /\ visited[s[1]] = s[2]
  <2>1. labels = <<>> BY <1>1 DEF MarksInv, WalkInv
  <2>2. phase # "walk" BY <1>1 DEF Marked, TypeOK
  <2>3. Pending = {} BY <2>1, <2>2 DEF Pending
  <2> QED BY <1>1, <2>3 DEF MarksInv, WalkInv, Solved
<1>2. TypeOK /\ (Counted(program) => MarksInv) => (Counted(program) => DepthsConsistent)
  BY <1>1 DEF DepthsConsistent
<1> QED BY <1>2, TypeCorrect, MarksAreSound, PTL

\* What is recorded is attained.
LEMMA ReachedAttained ==
  ASSUME IsCode(program), NEW v, Reached(v), NEW i \in Recorded(v)
  PROVE  <<i, v[i]>> \in Attained(program)
<1>1. Len(program) \in Nat BY CodeFacts
<1>2. Cardinality(Recorded(v)) - 1 \in 0..Len(program) BY RecordedCount
<1> QED BY <1>1, <1>2, PathsGrow DEF Reached

\* It is the least solution: every recorded depth is that of a path, for every code
\* without CALL_STRING.
THEOREM MarksAreAttained == Spec => [](Counted(program) => DepthsAttained)
<1>1. TypeOK /\ (Counted(program) => MarksInv) => (Counted(program) => DepthsAttained)
  BY PathInvReached, ReachedAttained DEF DepthsAttained, MarksInv, TypeOK, Visited, Recorded
<1> QED BY <1>1, TypeCorrect, MarksAreSound, PTL
-----------------------------------------------------------------------------
(* Rejections. *)

\* The walk's own position and depth are attained, and what its instruction leads to.
LEMMA WalkAttained ==
  ASSUME TypeOK, MarksInv, phase = "walk"
  PROVE  /\ <<symbol_offset, cur_stack>> \in Attained(program)
         /\ \A t \in Flow(program, symbol_offset, cur_stack) : t \in Attained(program)
<1>1. /\ IsCode(program) /\ Len(program) \in Nat /\ Visited = Recorded(visited)
      /\ symbol_offset \in Offsets /\ cur_stack \in Nat
  BY CodeFacts DEF TypeOK, Visited, Recorded
<1>2. visited[symbol_offset] = cur_stack BY DEF MarksInv, WalkInv
<1>3. symbol_offset \in Visited BY <1>1, <1>2 DEF Visited, UNVISITED
<1>4. PICK c : c = Cardinality(Visited) - 1 OBVIOUS
<1>5. c \in 0..Len(program) /\ c < Len(program) BY <1>1, <1>3, <1>4, RecordedCount
<1>6. PICK s : s = <<symbol_offset, cur_stack>> OBVIOUS
<1>7. s[1] = symbol_offset /\ s[2] = cur_stack BY <1>6
<1>8. s \in Paths(program)[c] BY <1>2, <1>3, <1>4, <1>6 DEF MarksInv, PathInv
<1>9. s \in Attained(program) /\ \A t \in Flow(program, s[1], s[2]) : t \in Attained(program)
  BY <1>1, <1>5, <1>7, <1>8, PathsGrow DEF Offsets
<1> QED BY <1>6, <1>7, <1>9

\* What is said of a stopped verifier and the code stays true.
LEMMA StoppedStays ==
  ASSUME TypeOK, [Next]_vars, outcome # "none"
  PROVE  UNCHANGED vars
<1>1. phase = "stopped" BY DEF TypeOK
<1> QED BY <1>1
        DEF Next, CollectMarks, TakeLabel, ThrowUnsupported, ThrowArguments, ThrowExhausted,
            ThrowAt, WalkJump, WalkStop, WalkOn, Passes, CollectMarksDone,
            Verify, VerifyEOF, SkipUnvisited, VerifyStep, VerifyEnd, VerifyEndEncoded,
            VerifyBegin, VerifyVariables, VerifyNoBegin, VerifyJump, VerifyOther, Stopped

\* Two recorded or attained depths of a position that differ.
LEMMA DifferenceFound ==
  ASSUME TypeOK', MarksInv', program' = program,
         NEW t, NEW d, t \in Visited', visited'[t] # d, <<t, d>> \in Attained(program)
  PROVE  \E x, y \in Attained(program) : x[1] = y[1] /\ x[2] # y[2]
<1>1. <<t, visited'[t]>> \in Attained(program)
  <2>1. IsCode(program) /\ Visited' = Recorded(visited')
    BY DEF TypeOK, Visited, Recorded, Offsets
  <2>2. Reached(visited') BY <2>1 DEF MarksInv, PathInv, Reached
  <2> QED BY <2>1, <2>2, ReachedAttained
<1>2. PICK x : x = <<t, visited'[t]>> OBVIOUS
<1>3. PICK y : y = <<t, d>> OBVIOUS
<1>4. x[1] = t /\ x[2] = visited'[t] /\ y[1] = t /\ y[2] = d BY <1>2, <1>3
<1> QED BY <1>1, <1>2, <1>3, <1>4

\* A walk that throws "Stack at ... differs" has met two paths.
LEMMA DifferenceStep ==
  ASSUME TypeOK, TypeOK', Counted(program), MarksInv, MarksInv', [Next]_vars, DifferenceIsReal
  PROVE  DifferenceIsReal'
<1> SUFFICES ASSUME outcome' = "differs"
             PROVE  \E x, y \in Attained(program) : x[1] = y[1] /\ x[2] # y[2]
  BY ProgramKept DEF DifferenceIsReal
<1>1. program' = program BY ProgramKept
<1>2. CASE outcome # "none"
  <2>1. outcome' = outcome BY <1>2, StoppedStays DEF vars
  <2> QED BY <2>1 DEF DifferenceIsReal
<1>3. PICK new : new = GetNewStack(Instr, cur_stack) OBVIOUS
<1>4. CASE outcome = "none" /\ WalkJump
  <2>1. Passes /\ phase = "walk" /\ Instr.op \in Jumps BY <1>4 DEF WalkJump, Passes
  <2>2. \/ Instr.a \in Visited' /\ visited'[Instr.a] # JumpDepth(new)
        \/ /\ Instr.op # "JMP" /\ symbol_offset + 1 \in Visited'
           /\ visited'[symbol_offset + 1] # new
    BY <1>3, <1>4, WalkJumpFacts
  <2>3. <<Instr.a, JumpDepth(new)>> \in Attained(program)
    BY <1>3, <2>1, FlowOfWalk, WalkAttained
  <2>4. Instr.op # "JMP" => <<symbol_offset + 1, new>> \in Attained(program)
    BY <1>3, <2>1, FlowOfWalk, WalkAttained
  <2> QED BY <1>1, <2>2, <2>3, <2>4, DifferenceFound
<1>5. CASE outcome = "none" /\ WalkOn
  <2>1. Passes /\ phase = "walk" /\ Instr.op \notin Jumps \cup Stops BY <1>5 DEF WalkOn, Passes
  <2>2. /\ visited' = visited /\ visited[symbol_offset + 1] # new
        /\ symbol_offset + 1 \in Visited
    BY <1>3, <1>5, WalkOnFacts
  <2>3. symbol_offset + 1 \in Visited' BY <1>1, <2>2 DEF Visited, Offsets
  <2>4. <<symbol_offset + 1, new>> \in Attained(program)
    BY <1>3, <2>1, FlowOfWalk, WalkAttained
  <2> QED BY <1>1, <2>2, <2>3, <2>4, DifferenceFound
<1>6. CASE outcome = "none" /\ UNCHANGED outcome BY <1>6
<1>7. CASE ThrowUnsupported \/ ThrowArguments \/ ThrowExhausted
  BY <1>7 DEF ThrowUnsupported, ThrowArguments, ThrowExhausted, ThrowAt, Stop
<1>8. CASE Verify BY <1>8, MarksInVerify
<1> QED BY <1>2, <1>4, <1>5, <1>6, <1>7, <1>8
        DEF Next, vars, Stopped, CollectMarks, TakeLabel, WalkStop, CollectMarksDone

\* A walk throws "unsupported" where a path leads to.
LEMMA UnsupportedStep ==
  ASSUME TypeOK, MarksInv, [Next]_vars, UnsupportedIsReal
  PROVE  UnsupportedIsReal'
<1> SUFFICES ASSUME outcome' = "unsupported"
             PROVE  \E s \in Attained(program) :
                      s[1] \in Offsets /\ program[s[1]].op \in Unsupported
  BY ProgramKept DEF UnsupportedIsReal, Offsets
<1>1. CASE outcome # "none"
  <2>1. outcome' = outcome BY <1>1, StoppedStays DEF vars
  <2> QED BY <2>1 DEF UnsupportedIsReal
<1>2. CASE ThrowUnsupported
  <2>1. phase = "walk" /\ Instr.op \in Unsupported
    BY <1>2 DEF ThrowUnsupported, ThrowAt
  <2>2. <<symbol_offset, cur_stack>> \in Attained(program) BY <2>1, WalkAttained
  <2>3. <<symbol_offset, cur_stack>>[1] = symbol_offset OBVIOUS
  <2> QED BY <2>1, <2>2, <2>3 DEF Instr, TypeOK
<1>3. CASE outcome = "none" /\ WalkJump BY <1>3, WalkJumpFacts
<1>4. CASE outcome = "none" /\ WalkOn BY <1>4, WalkOnFacts
<1>5. CASE outcome = "none" /\ UNCHANGED outcome BY <1>5
<1>6. CASE ThrowArguments \/ ThrowExhausted
  BY <1>6 DEF ThrowArguments, ThrowExhausted, ThrowAt, Stop
<1>7. CASE Verify BY <1>7, MarksInVerify
<1> QED BY <1>1, <1>2, <1>3, <1>4, <1>5, <1>6, <1>7
        DEF Next, vars, Stopped, CollectMarks, TakeLabel, WalkStop, CollectMarksDone

\* Where too few operands are counted, the handler does take more.
LEMMA ShortageFound ==
  ASSUME TypeOK, Counted(program), SmallPatterns(program), Instr.op \notin Unsupported,
         TooManyArguments \/ GetNewStack(Instr, cur_stack) < 0
  PROVE  Needs(Instr) > cur_stack
<1>1. /\ Instr \in Instruction /\ Instr.a \in Nat /\ Instr.b \in Nat /\ cur_stack \in Nat
      /\ Instr.op # "CALL_STRING"
      /\ Instr.op = "ARRAY" => Instr.a <= 1
  BY CodeFacts DEF TypeOK, Instr, Offsets, Counted, SmallPatterns
<1>2. CASE TooManyArguments
  <2>1. CASE Instr.op = "CALLC" /\ Instr.a > cur_stack
    BY <1>1, <2>1 DEF Needs, CondJumps
  <2>2. CASE Instr.op = "ARRAY" /\ Instr.a > cur_stack
    <3>1. Needs(Instr) = 1 BY <2>2 DEF Needs
    <3> QED BY <1>1, <2>2, <3>1
  <2>3. CASE Instr.op \in {"SEXP", "CALL"} /\ Instr.b > cur_stack
    BY <1>1, <2>3 DEF Needs, CondJumps
  <2> QED BY <1>2, <2>1, <2>2, <2>3 DEF TooManyArguments
<1>3. CASE GetNewStack(Instr, cur_stack) < 0
  <2>1. GetNewStack(Instr, cur_stack) = cur_stack + Effect(Instr) BY <1>1, EffectCounted
  <2>2. Gives(Instr) \in 0..2 BY DEF Gives
  <2>3. Needs(Instr) \in Nat BY <1>1 DEF Needs
  <2> QED BY <1>1, <1>3, <2>1, <2>2, <2>3 DEF Effect
<1> QED BY <1>2, <1>3

\* A walk throws for want of operands where a path leads to that lacks them.
LEMMA ShortageStep ==
  ASSUME TypeOK, Counted(program), SmallPatterns(program), MarksInv, [Next]_vars, ShortageIsReal
  PROVE  ShortageIsReal'
<1> SUFFICES ASSUME outcome' \in {"arguments", "exhausted"}
             PROVE  \E s \in Attained(program) :
                      s[1] \in Offsets /\ Needs(program[s[1]]) > s[2]
  BY ProgramKept DEF ShortageIsReal, Offsets
<1>1. CASE outcome # "none"
  <2>1. outcome' = outcome BY <1>1, StoppedStays DEF vars
  <2> QED BY <2>1 DEF ShortageIsReal
<1>2. CASE outcome = "none" /\ (ThrowUnsupported \/ ThrowArguments \/ ThrowExhausted)
  <2>1. phase = "walk" BY <1>2 DEF ThrowUnsupported, ThrowArguments, ThrowExhausted, ThrowAt
  <2>2. ~ ThrowUnsupported BY DEF ThrowUnsupported, ThrowAt, Stop
  <2>3. TooManyArguments \/ GetNewStack(Instr, cur_stack) < 0
    BY <1>2, <2>2 DEF ThrowArguments, ThrowExhausted
  <2>4. Instr.op \notin Unsupported
    BY <1>2, <2>2 DEF ThrowArguments, ThrowExhausted, TooManyArguments, Unsupported
  <2>5. Needs(Instr) > cur_stack BY <2>3, <2>4, ShortageFound
  <2>6. <<symbol_offset, cur_stack>> \in Attained(program) BY <2>1, WalkAttained
  <2>7. PICK s : s = <<symbol_offset, cur_stack>> OBVIOUS
  <2>8. s[1] = symbol_offset /\ s[2] = cur_stack BY <2>7
  <2> QED BY <2>5, <2>6, <2>7, <2>8 DEF Instr, TypeOK
<1>3. CASE outcome = "none" /\ WalkJump BY <1>3, WalkJumpFacts
<1>4. CASE outcome = "none" /\ WalkOn BY <1>4, WalkOnFacts
<1>5. CASE outcome = "none" /\ UNCHANGED outcome BY <1>5
<1>6. CASE Verify BY <1>6, MarksInVerify
<1> QED BY <1>1, <1>2, <1>3, <1>4, <1>5, <1>6
        DEF Next, vars, Stopped, CollectMarks, TakeLabel, WalkStop, CollectMarksDone

\* A code without CALL_STRING and without array patterns of two or more elements is
\* rejected by collect_marks only if some path of it is at fault.
THEOREM RejectionsAreReal ==
  Spec => [](Counted(program) /\ SmallPatterns(program) => RejectionIsReal)
<1> DEFINE C == Counted(program) /\ SmallPatterns(program)
<1>1. Init => (C => RejectionIsReal)
  BY DEF Init, RejectionIsReal, DifferenceIsReal, ShortageIsReal, UnsupportedIsReal
<1>2. /\ TypeOK /\ TypeOK' /\ [Next]_vars
      /\ (Counted(program) => MarksInv) /\ (Counted(program) => MarksInv)'
      /\ (C => RejectionIsReal)
      => (C => RejectionIsReal)'
  <2> SUFFICES ASSUME TypeOK, TypeOK', [Next]_vars, Counted(program) => MarksInv,
                      (Counted(program) => MarksInv)', C => RejectionIsReal, C'
               PROVE  RejectionIsReal'
    OBVIOUS
  <2>1. Counted(program) /\ SmallPatterns(program) /\ Counted(program)'
    BY ProgramKept DEF Counted, SmallPatterns
  <2> QED BY <2>1, DifferenceStep, ShortageStep, UnsupportedStep DEF RejectionIsReal
<1> QED BY <1>1, <1>2, TypeCorrect, MarksAreSound, PTL DEF Spec
-----------------------------------------------------------------------------
(* verify, for functions as lamac lays them out. *)

\* Every step but those of verify's END leaves the upper halves alone; those of
\* collect_marks lead to nothing that is said of verify.
LEMMA CollectLeaves ==
  ASSUME TypeOK, CollectMarks
  PROVE  /\ upper' = upper /\ program' = program
         /\ phase \in {"collect_marks", "walk"} /\ outcome = "none" /\ outcome' # "accepted"
         /\ phase' = "verify" => CollectMarksDone
<1>1. ASSUME WalkJump PROVE phase' # "verify" /\ outcome' # "accepted"
  <2>1. outcome' \in {"none", "outside", "differs"} BY <1>1, WalkJumpFacts
  <2>2. phase' \in {"collect_marks", "stopped"} BY <1>1 DEF WalkJump
  <2> QED BY <2>1, <2>2
<1>2. ASSUME WalkOn PROVE phase' # "verify" /\ outcome' # "accepted"
  BY <1>2, WalkOnFacts
<1>3. outcome = "none" <=> phase # "stopped" BY DEF TypeOK
<1> QED BY <1>1, <1>2, <1>3
        DEF CollectMarks, TakeLabel, ThrowUnsupported, ThrowArguments, ThrowExhausted,
            ThrowAt, Stop, WalkJump, WalkStop, WalkOn, Passes, CollectMarksDone, code

\* From a position a walk goes to one of the same function or to the begin of one.
LEMMA StepStays ==
  ASSUME TypeOK, Compiled(program), NEW i \in Offsets, NEW t \in Offsets,
         t = i + 1 \/ (program[i].op \in Jumps /\ t = program[i].a)
  PROVE  BeginOf(program, t) \in {t, BeginOf(program, i)}
<1>1. i \in Nat \ {0} /\ t \in Nat \ {0} BY CodeFacts, SMTT(40) DEF TypeOK, Offsets
<1>2. CASE t = i + 1 BY <1>1, <1>2, BeginOfNext
<1>3. CASE program[i].op = "CALL" /\ t = program[i].a
  <2>1. program[t].op \in Begins BY <1>3 DEF Compiled, Jumps, Offsets
  <2> QED BY <1>1, <2>1, BeginOfBegin
<1>4. CASE program[i].op \in Jumps \ {"CALL"} /\ t = program[i].a
  BY <1>4 DEF Compiled, Offsets
<1> QED BY <1>2, <1>3, <1>4

\* collect_marks enters a function at its BEGIN.
LEMMA EntryStep ==
  ASSUME TypeOK, TypeOK', Compiled(program), EntryInv, CollectMarks
  PROVE  EntryInv'
<1>1. program' = program /\ phase \in {"collect_marks", "walk"} BY CollectLeaves
<1>2. /\ IsCode(program) /\ visited \in Depths /\ labels \in Seq(Recorded(visited))
      /\ symbol_offset \in Offsets /\ Visited = Recorded(visited) /\ Visited' = Recorded(visited')
  BY <1>1 DEF TypeOK, Depths, Recorded, Visited, Offsets
<1>3. ASSUME UNCHANGED visited PROVE \A i \in Visited' : BeginOf(program, i)' \in Visited'
  BY <1>1, <1>2, <1>3 DEF EntryInv
<1>4. ASSUME NEW v \in Depths, NEW w, NEW t, NEW d \in Nat, Enters(v, w, t, d),
             \A i \in Recorded(v) : BeginOf(program, i) \in Recorded(v),
             t \in Offsets => BeginOf(program, t) \in {t} \cup Recorded(v)
      PROVE  /\ w \in Depths /\ Recorded(v) \subseteq Recorded(w)
             /\ \A i \in Recorded(w) : BeginOf(program, i) \in Recorded(w)
  <2>1. CASE w = v BY <1>4, <2>1
  <2>2. CASE t \in Offsets /\ v[t] = UNVISITED /\ w = [v EXCEPT ![t] = d]
    <3>1. w \in Depths /\ Recorded(w) = Recorded(v) \cup {t}
      BY <1>4, <2>2 DEF Depths, Recorded, UNVISITED
    <3> QED BY <1>4, <2>2, <3>1
  <2> QED BY <1>4, <2>1, <2>2 DEF Enters
<1>5. ASSUME Passes, NEW t \in Offsets,
             t = symbol_offset + 1 \/ (Instr.op \in Jumps /\ t = Instr.a)
      PROVE  BeginOf(program, t) \in {t} \cup Visited
  <2>1. BeginOf(program, symbol_offset) \in Visited BY <1>5 DEF EntryInv, Passes
  <2> QED BY <1>2, <1>5, <2>1, StepStays DEF Instr
<1>6. CASE TakeLabel
  <2>1. symbol_offset' \in Visited BY <1>2, <1>6 DEF TakeLabel
  <2>2. UNCHANGED visited BY <1>6 DEF TakeLabel
  <2> QED BY <1>2, <1>3, <2>1, <2>2 DEF EntryInv
<1>7. CASE ThrowUnsupported \/ ThrowArguments \/ ThrowExhausted
  <2>1. UNCHANGED visited /\ phase' = "stopped"
    BY <1>7 DEF ThrowUnsupported, ThrowArguments, ThrowExhausted, ThrowAt, Stop, marks
  <2> QED BY <1>3, <2>1 DEF EntryInv
<1>8. CASE WalkJump
  <2>1. PICK new : new = GetNewStack(Instr, cur_stack) OBVIOUS
  <2>2. Passes /\ Instr.op \in Jumps /\ phase' # "walk" BY <1>8 DEF WalkJump
  <2>3. /\ new \in Nat
        /\ \E w : /\ Enters(visited, w, Instr.a, JumpDepth(new))
                  /\ IF Instr.op = "JMP" THEN visited' = w
                                         ELSE Enters(w, visited', symbol_offset + 1, new)
    BY <1>8, <2>1, WalkJumpFacts
  <2>4. PICK w : /\ Enters(visited, w, Instr.a, JumpDepth(new))
                 /\ IF Instr.op = "JMP" THEN visited' = w
                                        ELSE Enters(w, visited', symbol_offset + 1, new)
    BY <2>3
  <2>5. JumpDepth(new) \in Nat BY <2>3 DEF JumpDepth
  <2>6. /\ w \in Depths /\ Recorded(visited) \subseteq Recorded(w)
        /\ \A i \in Recorded(w) : BeginOf(program, i) \in Recorded(w)
    BY <1>2, <1>4, <1>5, <2>2, <2>4, <2>5 DEF EntryInv
  <2>7. \A i \in Recorded(visited') : BeginOf(program, i) \in Recorded(visited')
    BY <1>2, <1>4, <1>5, <2>2, <2>3, <2>4, <2>6
  <2> QED BY <1>1, <1>2, <2>2, <2>7 DEF EntryInv
<1>9. CASE WalkStop
  <2>1. UNCHANGED visited /\ phase' = "collect_marks" BY <1>9 DEF WalkStop, marks
  <2> QED BY <1>3, <2>1 DEF EntryInv
<1>10. CASE WalkOn
  <2>1. PICK new : new = GetNewStack(Instr, cur_stack) OBVIOUS
  <2>2. Passes /\ phase = "walk" BY <1>10 DEF WalkOn, Passes
  <2>3. /\ new \in Nat /\ symbol_offset + 1 \in Offsets
        /\ Enters(visited, visited', symbol_offset + 1, new)
        /\ outcome' = "none" => symbol_offset + 1 \in Visited'
        /\ \/ symbol_offset' = symbol_offset + 1 /\ outcome' = "none"
           \/ phase' \in {"collect_marks", "stopped"}
    BY <1>10, <2>1, WalkOnFacts
  <2>4. \A i \in Recorded(visited') : BeginOf(program, i) \in Recorded(visited')
    BY <1>2, <1>4, <1>5, <2>2, <2>3 DEF EntryInv
  <2> QED BY <1>1, <1>2, <2>3, <2>4 DEF EntryInv
<1>11. CASE CollectMarksDone
  <2>1. UNCHANGED visited /\ phase' = "verify" BY <1>11 DEF CollectMarksDone, marks
  <2> QED BY <1>3, <2>1 DEF EntryInv
<1> QED BY <1>6, <1>7, <1>8, <1>9, <1>10, <1>11 DEF CollectMarks
\* In the middle of a function whose BEGIN is recorded, that BEGIN is on top.
LEMMA WithinFunction ==
  ASSUME TypeOK, Compiled(program), OpenInv, phase = "verify",
         BeginOf(program, symbol_offset) \in Visited, Instr.op \notin Begins \cup {"EOF"}
  PROVE  /\ Last \in Offsets /\ Open /\ begin_offsets # <<>>
         /\ Back = BeginOf(program, symbol_offset)
         /\ BeginOf(program, Last) = BeginOf(program, symbol_offset)
<1>1. /\ IsCode(program) /\ symbol_offset \in Offsets
      /\ Offsets = 1..Len(program) /\ Len(program) \in Nat
  BY CodeFacts DEF TypeOK, Offsets
<1>2. symbol_offset # 1 BY DEF Compiled, Instr, MAIN
<1>3. Last \in Offsets /\ Last \in Nat \ {0} /\ Last + 1 = symbol_offset BY <1>1, <1>2 DEF Last
<1>4. program[Last].op # "END" BY <1>3 DEF Compiled, Instr, Offsets
<1>5. BeginOf(program, Last) = BeginOf(program, symbol_offset)
  BY <1>3, BeginOfNext DEF Instr
<1>6. Open BY <1>3, <1>4, <1>5 DEF Open
<1> QED BY <1>3, <1>5, <1>6 DEF OpenInv

\* An END passed is that of another function.
LEMMA ClosedElsewhere ==
  ASSUME TypeOK, Compiled(program), Instr.op # "EOF", NEW e, Closed(e)
  PROVE  BeginOf(program, e) < BeginOf(program, symbol_offset)
<1>1. /\ IsCode(program) /\ symbol_offset \in Offsets
      /\ Offsets = 1..Len(program) /\ Len(program) \in Nat
  BY CodeFacts DEF TypeOK, Offsets
<1>2. e \in Offsets /\ e < symbol_offset /\ program[e].op = "END" BY DEF Closed, Visited
<1>3. e + 1 \in Offsets /\ e + 1 \in 1..symbol_offset BY <1>1, <1>2
<1>4. program[e + 1].op \in Begins \cup {"EOF"} BY <1>2 DEF Compiled, Offsets
<1>5. program[e + 1].op # "EOF"
  <2>1. CASE e + 1 = symbol_offset BY <2>1 DEF Instr
  <2>2. CASE e + 1 # symbol_offset
    <3>1. e + 1 # Len(program) BY <1>1, <1>3, <2>2
    <3> QED BY <1>1, <1>3, <3>1 DEF IsCode, Offsets
  <2> QED BY <2>1, <2>2
<1>6. symbol_offset \in Nat \ {0} /\ e \in Nat \ {0} BY <1>1, <1>2
<1>7. e + 1 <= BeginOf(program, symbol_offset)
  BY <1>3, <1>4, <1>5, <1>6, BeginOfFacts
<1>8. BeginOf(program, e) \in 0..e /\ BeginOf(program, symbol_offset) \in 0..symbol_offset
  BY <1>6, BeginOfFacts
<1> QED BY <1>2, <1>6, <1>7, <1>8

\* Whatever the instruction passed, the BEGIN on top is that of its function.
LEMMA OpenAdvances ==
  ASSUME TypeOK, Compiled(program), OpenInv, phase = "verify", Advance, Instr.op # "EOF",
         UNCHANGED <<program, visited>>,
         Instr.op \notin Begins \cup {"END"} => UNCHANGED begin_offsets,
         Instr.op \in Begins /\ symbol_offset \in Visited =>
           begin_offsets' = Append(begin_offsets, symbol_offset)
  PROVE  OpenInv'
<1>1. /\ IsCode(program) /\ symbol_offset \in Offsets /\ symbol_offset \in Nat \ {0}
      /\ begin_offsets \in Seq({i \in Offsets : program[i].op \in Begins})
  BY CodeFacts DEF TypeOK, Offsets
<1>2. Last' = symbol_offset BY <1>1 DEF Advance, Last
<1>3. Visited' = Visited BY DEF Visited, Offsets
<1> SUFFICES ASSUME Instr.op # "END", BeginOf(program, symbol_offset) \in Visited
             PROVE  begin_offsets' # <<>> /\ Back' = BeginOf(program, symbol_offset)
  BY <1>2, <1>3 DEF OpenInv, Open, Instr
<1>4. CASE Instr.op \in Begins
  <2>1. BeginOf(program, symbol_offset) = symbol_offset BY <1>1, <1>4, BeginOfBegin DEF Instr
  <2>2. begin_offsets' = Append(begin_offsets, symbol_offset) BY <1>4, <2>1
  <2>3. symbol_offset \in {i \in Offsets : program[i].op \in Begins} BY <1>1, <1>4 DEF Instr
  <2>4. /\ begin_offsets' # <<>> /\ Len(begin_offsets') = Len(begin_offsets) + 1
        /\ begin_offsets'[Len(begin_offsets) + 1] = symbol_offset
    BY <1>1, <2>2, <2>3, AppendFacts
  <2> QED BY <2>1, <2>4 DEF Back
<1>5. CASE Instr.op \notin Begins
  <2>1. begin_offsets # <<>> /\ Back = BeginOf(program, symbol_offset) BY <1>5, WithinFunction
  <2> QED BY <1>5, <2>1 DEF Back
<1> QED BY <1>4, <1>5

\* What is Closed grows with the position.
LEMMA ClosedAdvances ==
  ASSUME TypeOK, Advance, UNCHANGED <<program, visited>>, NEW e
  PROVE  Closed(e)' <=> Closed(e) \/ (e = symbol_offset /\ e \in Visited /\ Instr.op = "END")
<1>1. symbol_offset \in Nat /\ Offsets \subseteq Nat BY CodeFacts DEF TypeOK, Offsets
<1>2. Visited' = Visited /\ Visited \subseteq Nat BY <1>1 DEF Visited, Offsets
<1>3. e \in Nat => (e < symbol_offset + 1 <=> e < symbol_offset \/ e = symbol_offset)
  BY <1>1
<1> QED BY <1>2, <1>3 DEF Closed, Advance, Instr

\* Passing an instruction that is no visited END and names no variable amiss.
LEMMA LayoutAdvances ==
  ASSUME TypeOK, TypeOK', Compiled(program), LayoutInv, phase = "verify", Advance,
         Instr.op # "EOF", UNCHANGED <<program, visited, upper>>,
         Instr.op = "END" => symbol_offset \notin Visited,
         Instr.op \notin Begins => UNCHANGED begin_offsets,
         Instr.op \in Begins /\ symbol_offset \in Visited =>
           begin_offsets' = Append(begin_offsets, symbol_offset),
         symbol_offset \in Visited => Exist(symbol_offset)
  PROVE  LayoutInv'
<1>1. Visited' = Visited /\ Offsets' = Offsets /\ phase' = "verify" /\ outcome' = outcome
  BY DEF Visited, Offsets, Advance
<1>2. OpenInv' BY OpenAdvances DEF LayoutInv
<1>3. EntryInv' BY <1>1 DEF LayoutInv, EntryInv
<1>4. \A e : Closed(e)' <=> Closed(e) BY ClosedAdvances
<1>5. UpperInv'
  <2>1. \A b : AsCompiled(b)' <=> AsCompiled(b) BY DEF AsCompiled
  <2>2. Passing /\ Passing' BY <1>1 DEF Passing
  <2> QED BY <1>1, <1>4, <2>1, <2>2 DEF LayoutInv, UpperInv
<1>6. VariablesInv'
  <2>1. \A i : Exist(i)' <=> Exist(i) BY DEF Exist
  <2>2. Passing BY DEF Passing
  <2>3. symbol_offset \in Nat /\ Visited \subseteq Nat
    BY CodeFacts, SMTT(40) DEF TypeOK, Offsets, Visited
  <2>4. \A i \in Visited : i < symbol_offset + 1 => i < symbol_offset \/ i = symbol_offset
    BY <2>3
  <2> QED BY <1>1, <2>1, <2>2, <2>4 DEF LayoutInv, VariablesInv, Advance
<1>7. EndInv'
  <2>1. outcome' # "accepted" BY <1>1 DEF TypeOK
  <2> QED BY <2>1 DEF EndInv
<1> QED BY <1>2, <1>3, <1>5, <1>6, <1>7 DEF LayoutInv

\* A pass that throws says nothing more.
LEMMA LayoutThrows ==
  ASSUME EntryInv, UNCHANGED <<program, visited>>, phase' = "stopped", outcome' # "accepted"
  PROVE  LayoutInv'
<1>1. Visited' = Visited BY DEF Visited, Offsets
<1> QED BY <1>1
        DEF LayoutInv, EntryInv, OpenInv, UpperInv, VariablesInv, EndInv, Passing
\* A number put together again from its halves.
LEMMA Halves ==
  ASSUME NEW n \in Nat, NEW h \in Nat \ {0}
  PROVE  (n % h) + h * (n \div h) = n
BY Z3

\* Before its END is passed, the BEGIN on top holds its number of arguments as the
\* check of verify_variable reads it.
LEMMA BeginOnTop ==
  ASSUME TypeOK, Compiled(program), LayoutInv, phase = "verify", symbol_offset \in Visited,
         Instr.op \notin Begins \cup {"EOF"}
  PROVE  /\ begin_offsets # <<>> /\ Back = BeginOf(program, symbol_offset)
         /\ Back \in Offsets /\ program[Back].op \in Begins /\ Open
         /\ BeginOf(program, Last) = Back
         /\ upper[Back] = program[Back].a \div HALF
         /\ (program[Back].a % HALF) + HALF * upper[Back] = program[Back].a
<1>1. BeginOf(program, symbol_offset) \in Visited BY DEF LayoutInv, EntryInv
<1>2. /\ begin_offsets # <<>> /\ Back = BeginOf(program, symbol_offset) /\ Open
      /\ BeginOf(program, Last) = Back
  BY <1>1, WithinFunction DEF LayoutInv
<1>3. IsCode(program) /\ Back \in Offsets /\ symbol_offset \in Nat \ {0}
  BY <1>1, <1>2, CodeFacts DEF TypeOK, Offsets, Visited
<1>4. Back # 0 /\ program[Back].op \in Begins /\ program[Back].a \in Nat
  BY <1>2, <1>3, CodeFacts, BeginOfFacts DEF Offsets
<1>5. ASSUME NEW e \in Offsets, Closed(e), BeginOf(program, e) = Back PROVE FALSE
  <2>1. BeginOf(program, e) < BeginOf(program, symbol_offset) BY <1>5, ClosedElsewhere
  <2>2. Back \in Int BY <1>3, CodeFacts DEF Offsets
  <2> QED BY <1>2, <1>5, <2>1, <2>2
<1>6. Passing BY DEF Passing
<1>7. AsCompiled(Back) BY <1>3, <1>4, <1>5, <1>6 DEF LayoutInv, UpperInv
<1>8. (program[Back].a % HALF) + HALF * upper[Back] = program[Back].a
  BY <1>4, <1>7, Halves, VerifierAssumption DEF AsCompiled
<1> QED BY <1>2, <1>3, <1>4, <1>7, <1>8 DEF AsCompiled

\* An END patches the BEGIN on top.
LEMMA LayoutEnd ==
  ASSUME TypeOK, TypeOK', Compiled(program), LayoutInv, phase = "verify", VerifyEnd
  PROVE  LayoutInv'
<1>1. /\ program' = program /\ visited' = visited /\ Advance /\ symbol_offset \in Visited
      /\ Instr.op = "END" /\ phase' = "verify" /\ outcome' = outcome
  BY DEF VerifyEnd, VerifyStep, marks, Visited, TypeOK, Advance
<1>2. Instr.op \notin Begins \cup {"EOF"} BY <1>1 DEF Begins
<1>3. /\ Back = BeginOf(program, symbol_offset) /\ Back \in Offsets
      /\ symbol_offset \in Offsets
  BY <1>1, <1>2, BeginOnTop DEF TypeOK
<1>4. upper' = [upper EXCEPT ![Back] = Seen % HALF] BY DEF VerifyEnd
<1>5. Visited' = Visited /\ Offsets' = Offsets BY <1>1 DEF Visited, Offsets
<1>6. \A e : Closed(e)' <=> Closed(e) \/ e = symbol_offset
  BY <1>1, ClosedAdvances
<1>7. OpenInv' BY <1>1, <1>2, OpenAdvances DEF LayoutInv
<1>8. EntryInv' BY <1>1, <1>5 DEF LayoutInv, EntryInv
<1>9. UpperInv'
  <2> SUFFICES ASSUME NEW b \in Offsets, program[b].op \in Begins
               PROVE  AsCompiled(b)' \/ \E e \in Offsets : Closed(e)' /\ BeginOf(program, e) = b
    BY <1>1, <1>5 DEF UpperInv
  <2>1. CASE b = Back BY <1>3, <1>6, <2>1
  <2>2. CASE b # Back
    <3>1. upper'[b] = upper[b] BY <1>3, <1>4, <2>2 DEF TypeOK
    <3>2. AsCompiled(b) \/ \E e \in Offsets : Closed(e) /\ BeginOf(program, e) = b
      BY DEF LayoutInv, UpperInv, Passing
    <3> QED BY <1>1, <1>6, <3>1, <3>2 DEF AsCompiled
  <2> QED BY <2>1, <2>2
<1>10. VariablesInv'
  <2>1. \A i : Exist(i)' <=> Exist(i) BY <1>1 DEF Exist
  <2>2. Exist(symbol_offset) BY <1>1 DEF Exist, Instr, Variables
  <2>3. symbol_offset \in Nat /\ Visited \subseteq Nat
    BY CodeFacts, SMTT(40) DEF TypeOK, Offsets, Visited
  <2>4. \A i \in Visited : i < symbol_offset + 1 => i < symbol_offset \/ i = symbol_offset
    BY <2>3
  <2> QED BY <1>1, <1>5, <2>1, <2>2, <2>4 DEF LayoutInv, VariablesInv, Advance, Passing
<1>11. EndInv' BY <1>1 DEF EndInv, TypeOK
<1> QED BY <1>7, <1>8, <1>9, <1>10, <1>11 DEF LayoutInv

\* Every variable that passes verify_variable exists.
LEMMA CheckedExist ==
  ASSUME TypeOK, Compiled(program), LayoutInv, phase = "verify", VerifyVariables, Advance
  PROVE  Exist(symbol_offset)
<1>1. symbol_offset \in Visited BY DEF VerifyVariables, VerifyStep, Visited, TypeOK
<1>2. Instr.op \notin Begins \cup {"EOF"} BY DEF VerifyVariables, Variables, Begins
<1>3. /\ Back = BeginOf(program, symbol_offset)
      /\ (program[Back].a % HALF) + HALF * upper[Back] = program[Back].a
  BY <1>1, <1>2, BeginOnTop
<1>4. symbol_offset \in Nat BY CodeFacts DEF TypeOK, Offsets
<1>5. symbol_offset' # symbol_offset BY <1>4 DEF Advance
<1>6. \A v \in Named(Instr) :
        ValidVariable(v.mem_var, v.value, program[Back].a, program[Back].b)
  BY <1>3, <1>5 DEF VerifyVariables
<1>7. ASSUME NEW v \in Named(Instr)
      PROVE  /\ v.mem_var = "Global" => v.value < global_area_size
             /\ v.mem_var = "Local" => v.value < program[Back].b
             /\ v.mem_var = "Argument" => v.value < program[Back].a
  BY <1>6 DEF ValidVariable
<1> QED BY <1>3, <1>7 DEF Exist, Instr

\* Every step keeps what is known of the functions.
LEMMA LayoutStep ==
  ASSUME TypeOK, TypeOK', Compiled(program), LayoutInv, [Next]_vars
  PROVE  LayoutInv'
<1>1. program' = program BY ProgramKept
<1>2. CASE UNCHANGED vars
  <2>1. UNCHANGED <<program, upper, visited, labels, phase, outcome, symbol_offset,
                    max_stack, begin_offsets>>
    BY <1>2 DEF vars, code, marks, pass
  <2>2. UNCHANGED <<Visited, Last, Passing, Instr, Back, Offsets>>
    BY <2>1 DEF Visited, Last, Passing, Instr, Back, Offsets
  <2>3. UNCHANGED Open /\ \A e : Closed(e)' <=> Closed(e)
    BY <2>1, <2>2 DEF Open, Closed
  <2> QED BY <2>1, <2>2, <2>3
          DEF LayoutInv, EntryInv, OpenInv, UpperInv, AsCompiled, VariablesInv, Exist, EndInv
<1>3. CASE CollectMarks
  <2>1. EntryInv' BY <1>3, EntryStep DEF LayoutInv
  <2>2. /\ upper' = upper /\ phase \in {"collect_marks", "walk"} /\ outcome' # "accepted"
        /\ phase' = "verify" => CollectMarksDone
    BY <1>3, CollectLeaves
  <2>3. UpperInv'
    <3>1. \A b \in Offsets : program[b].op \in Begins => AsCompiled(b)
      BY <2>2 DEF LayoutInv, UpperInv
    <3> QED BY <1>1, <2>2, <3>1 DEF UpperInv, AsCompiled, Offsets
  <2>4. ASSUME phase' = "verify" PROVE symbol_offset' = 1
    BY <2>2, <2>4 DEF CollectMarksDone
  <2>5. OpenInv' BY <2>4 DEF OpenInv, Open, Last
  <2>6. VariablesInv'
    <3>1. \A i \in Visited' : ~ (i < 1) BY CodeFacts DEF TypeOK, Visited, Offsets
    <3> QED BY <2>2, <2>4, <3>1 DEF VariablesInv, Passing
  <2>7. EndInv' BY <2>2 DEF EndInv
  <2> QED BY <2>1, <2>3, <2>5, <2>6, <2>7 DEF LayoutInv
<1>4. CASE Verify
  <2>1. /\ UNCHANGED <<program, visited, labels, cur_stack>>
        /\ phase = "verify" /\ outcome = "none"
    BY <1>4, MarksInVerify
  <2>2. symbol_offset \in Offsets BY DEF TypeOK
  <2>3. symbol_offset \in Visited => visited[symbol_offset] # UNVISITED BY DEF Visited
  <2>4. VerifyStep => symbol_offset \in Visited BY <2>2 DEF VerifyStep, Visited
  <2>5. CASE VerifyEOF
    <3>1. UNCHANGED <<upper, symbol_offset, max_stack, begin_offsets>> /\ outcome' = "accepted"
          /\ phase' = "stopped" /\ Instr.op = "EOF"
      BY <2>5 DEF VerifyEOF, Stop, code, pass
    <3>2. UNCHANGED <<Visited, Instr, Offsets>> /\ Passing /\ \A e : Closed(e)' <=> Closed(e)
      BY <2>1, <3>1 DEF Visited, Instr, Offsets, Closed, Passing
    <3> QED BY <2>1, <3>1, <3>2
            DEF LayoutInv, EntryInv, OpenInv, UpperInv, AsCompiled, VariablesInv, Exist, EndInv
  <2>6. CASE SkipUnvisited
    BY <2>1, <2>3, <2>6, LayoutAdvances DEF SkipUnvisited, code, pass
  <2>7. CASE VerifyEnd BY <2>1, <2>7, LayoutEnd
  <2>8. CASE VerifyEndEncoded \/ VerifyNoBegin
    BY <2>1, <2>8, LayoutThrows DEF VerifyEndEncoded, VerifyNoBegin, Stop, LayoutInv
  <2>9. CASE VerifyBegin
    <3>1. Exist(symbol_offset) BY <2>9 DEF VerifyBegin, Exist, Instr, Begins, Variables
    <3> QED BY <2>1, <2>9, <3>1, LayoutAdvances DEF VerifyBegin, Begins
  <2>10. CASE VerifyVariables
    <3>1. Advance \/ Stop("variable") BY <2>10 DEF VerifyVariables
    <3>2. CASE Advance
      <4>1. Exist(symbol_offset) BY <2>1, <2>10, <3>2, CheckedExist
      <4>2. Instr.op \notin {"EOF", "END"} \cup Begins
        BY <2>10 DEF VerifyVariables, Variables, Begins
      <4> QED BY <2>1, <2>10, <3>2, <4>1, <4>2, LayoutAdvances DEF VerifyVariables
    <3>3. CASE Stop("variable")
      BY <2>1, <3>3, LayoutThrows DEF Stop, LayoutInv
    <3> QED BY <3>1, <3>2, <3>3
  <2>11. CASE VerifyJump
    <3>1. Advance \/ Stop("jump") BY <2>11 DEF VerifyJump
    <3>2. CASE Advance
      <4>1. Exist(symbol_offset)
        BY <2>11 DEF VerifyJump, Exist, Instr, Jumps, CondJumps, Variables
      <4>2. Instr.op \notin {"EOF", "END"} \cup Begins
        BY <2>11 DEF VerifyJump, Jumps, CondJumps, Begins
      <4> QED BY <2>1, <2>11, <3>2, <4>1, <4>2, LayoutAdvances DEF VerifyJump
    <3>3. CASE Stop("jump")
      BY <2>1, <3>3, LayoutThrows DEF Stop, LayoutInv
    <3> QED BY <3>1, <3>2, <3>3
  <2>12. CASE VerifyOther
    <3>1. Exist(symbol_offset) BY <2>12 DEF VerifyOther, Exist, Instr
    <3> QED BY <2>1, <2>12, <3>1, LayoutAdvances DEF VerifyOther
  <2> QED BY <1>4, <2>5, <2>6, <2>7, <2>8, <2>9, <2>10, <2>11, <2>12 DEF Verify
<1> QED BY <1>2, <1>3, <1>4 DEF Next, Stopped
\* Nothing is known of the functions at first but that MAIN begins one.
LEMMA LayoutInit == Init /\ Compiled(program) => LayoutInv
<1> SUFFICES ASSUME Init, Compiled(program) PROVE LayoutInv OBVIOUS
<1>1. TypeOK BY InitType
<1>2. Visited = {MAIN}
  <2>1. MAIN \in Offsets BY <1>1, CodeFacts DEF TypeOK, Offsets
  <2> QED BY <2>1 DEF Init, Visited, UNVISITED
<1>3. BeginOf(program, MAIN) = MAIN BY BeginOfBegin DEF Compiled, MAIN
<1>4. EntryInv BY <1>2, <1>3 DEF EntryInv, Init
<1>5. UpperInv BY DEF Init, UpperInv, AsCompiled, Passing
<1> QED BY <1>4, <1>5 DEF Init, LayoutInv, OpenInv, VariablesInv, EndInv, Passing

\* verify keeps the stack of BEGINs right for every layout of recorded and dead
\* functions.
THEOREM LayoutIsKept == Spec => [](Compiled(program) => LayoutInv)
<1>1. Init => (Compiled(program) => LayoutInv) BY LayoutInit
<1>2. TypeOK /\ TypeOK' /\ [Next]_vars /\ (Compiled(program) => LayoutInv) =>
        (Compiled(program) => LayoutInv)'
  <2> SUFFICES ASSUME TypeOK, TypeOK', [Next]_vars, Compiled(program) => LayoutInv,
                      Compiled(program)'
               PROVE  LayoutInv'
    OBVIOUS
  <2>1. Compiled(program) BY ProgramKept DEF Compiled
  <2> QED BY <2>1, LayoutStep
<1> QED BY <1>1, <1>2, TypeCorrect, PTL DEF Spec

\* Every global, local and argument that a visited instruction of an accepted program
\* names exists, by the counts in the BEGIN of its own function: begin_offsets.back()
\* is never another function's.  Captured variables are not validated, and not meant.
THEOREM VariablesDoExist == Spec => [](Compiled(program) => VariablesExist)
<1>1. ASSUME TypeOK, LayoutInv, outcome = "accepted",
             NEW i \in Visited, program[i].op \in Variables \cup {"CLOSURE"}
      PROVE  Exist(i)
  <2>1. IsCode(program) /\ i \in Offsets /\ symbol_offset \in Offsets
    BY <1>1 DEF TypeOK, Visited
  <2>2. Instr.op = "EOF" BY <1>1 DEF LayoutInv, EndInv
  <2>3. symbol_offset = Len(program) /\ i # Len(program)
    BY <1>1, <2>1, <2>2 DEF IsCode, Instr, Offsets, Variables
  <2>4. i < symbol_offset BY <2>1, <2>3, CodeFacts DEF Offsets
  <2> QED BY <1>1, <2>4 DEF LayoutInv, VariablesInv, Passing
<1>2. TypeOK /\ (Compiled(program) => LayoutInv) => (Compiled(program) => VariablesExist)
  BY <1>1 DEF VariablesExist, Exist
<1> QED BY <1>2, TypeCorrect, LayoutIsKept, PTL

-----------------------------------------------------------------------------
(* The patched depths. *)

\* Every recorded depth fits the half word.
LEMMA DepthsFit ==
  ASSUME TypeOK, MarksInv, Shallow(program), NEW i \in Visited
  PROVE  visited[i] \in Nat /\ visited[i] < HALF
<1>1. visited[i] \in Nat BY DEF TypeOK, Visited
<1>2. <<i, visited[i]>> \in Attained(program)
  BY PathInvReached, ReachedAttained DEF MarksInv, TypeOK, Visited, Recorded
<1>3. <<i, visited[i]>>[2] = visited[i] OBVIOUS
<1> QED BY <1>1, <1>2, <1>3 DEF Shallow

\* The maximum with the position at hand fits, and covers it and what was covered.
LEMMA SeenFits ==
  ASSUME TypeOK, MarksInv, Shallow(program), CoverInv, phase = "verify",
         symbol_offset \in Visited
  PROVE  /\ Seen \in Nat /\ Seen < HALF
         /\ visited[symbol_offset] <= Seen /\ max_stack <= Seen
<1>1. visited[symbol_offset] \in Nat /\ visited[symbol_offset] < HALF BY DepthsFit
<1>2. max_stack \in Nat \cup {-1} /\ max_stack < HALF BY DEF TypeOK, CoverInv
<1> QED BY <1>1, <1>2, VerifierAssumption DEF Seen

\* Passing a position keeps the cover of the function it stands in.
LEMMA CoverAdvances ==
  ASSUME TypeOK, TypeOK', Compiled(program), MarksInv, Shallow(program), LayoutInv, CoverInv,
         phase = "verify", Advance, Instr.op # "EOF", UNCHANGED <<program, visited, upper>>,
         Instr.op = "END" => symbol_offset \notin Visited,
         max_stack' = IF symbol_offset \in Visited THEN Seen ELSE max_stack
  PROVE  CoverInv'
<1>1. /\ Visited' = Visited /\ Offsets' = Offsets /\ phase' = "verify"
      /\ outcome' = outcome /\ symbol_offset' = symbol_offset + 1
  BY DEF Visited, Offsets, Advance
<1>2. /\ IsCode(program) /\ symbol_offset \in Offsets /\ symbol_offset \in Nat \ {0}
      /\ Offsets \subseteq Nat \ {0} /\ Visited \subseteq Offsets
  BY CodeFacts, SMTT(40) DEF TypeOK, Offsets, Visited
<1>3. Last' = symbol_offset /\ Last = symbol_offset - 1 BY <1>1, <1>2 DEF Last
<1>4. max_stack' < HALF
  BY SeenFits DEF CoverInv
<1>5. max_stack \in Int /\ max_stack' \in Int /\ max_stack <= max_stack' BY SeenFits DEF TypeOK
<1>6. ASSUME Open', NEW i \in Visited, BeginOf(program, symbol_offset) <= i, i <= symbol_offset
      PROVE  visited[i] <= max_stack'
  <2>1. BeginOf(program, symbol_offset) \in Visited BY <1>1, <1>3, <1>6 DEF Open
  <2>2. CASE i = symbol_offset BY <2>2, SeenFits
  <2>3. CASE i # symbol_offset
    <3>1. Instr.op \notin Begins
      <4>1. ASSUME Instr.op \in Begins PROVE BeginOf(program, symbol_offset) = symbol_offset
        BY <1>2, <4>1, BeginOfBegin DEF Instr
      <4>2. i \in Nat BY <1>2
      <4> QED BY <1>2, <1>6, <2>3, <4>1, <4>2
    <3>2. Open /\ BeginOf(program, Last) = BeginOf(program, symbol_offset)
      BY <2>1, <3>1, WithinFunction DEF LayoutInv
    <3>3. i <= Last BY <1>2, <1>3, <1>6, <2>3
    <3>4. visited[i] <= max_stack BY <1>6, <3>2, <3>3 DEF CoverInv
    <3>5. visited[i] \in Int BY DepthsFit
    <3> QED BY <1>5, <3>4, <3>5
  <2> QED BY <2>2, <2>3
<1>7. \A e : Closed(e)' <=> Closed(e) BY ClosedAdvances
<1>8. \A e \in Offsets : Closed(e) => \A i \in Visited :
        BeginOf(program, i) = BeginOf(program, e) => visited[i] <= upper[BeginOf(program, e)]
  BY DEF CoverInv, Passing
<1> QED BY <1>1, <1>3, <1>4, <1>6, <1>7, <1>8 DEF CoverInv

\* An END patches a depth that covers its function.
LEMMA CoverEnd ==
  ASSUME TypeOK, TypeOK', Compiled(program), MarksInv, Shallow(program), LayoutInv, CoverInv,
         phase = "verify", VerifyEnd
  PROVE  CoverInv'
<1>1. /\ program' = program /\ visited' = visited /\ Advance /\ symbol_offset \in Visited
      /\ Instr.op = "END" /\ phase' = "verify" /\ outcome' = outcome /\ max_stack' = -1
      /\ symbol_offset' = symbol_offset + 1
      /\ upper' = [upper EXCEPT ![Back] = Seen % HALF]
  BY DEF VerifyEnd, VerifyStep, marks, Visited, TypeOK, Advance
<1>2. /\ IsCode(program) /\ symbol_offset \in Offsets /\ symbol_offset \in Nat \ {0}
      /\ Offsets = 1..Len(program) /\ Visited \subseteq Offsets /\ Len(program) \in Nat
      /\ upper \in [Offsets -> Nat]
  BY CodeFacts DEF TypeOK, Offsets, Visited
<1>3. Visited' = Visited /\ Offsets' = Offsets BY <1>1 DEF Visited, Offsets
<1>4. Last' = symbol_offset /\ Last = symbol_offset - 1 BY <1>1, <1>2 DEF Last
<1>5. ~ Open' BY <1>1, <1>4 DEF Open, Instr
<1>6. Instr.op \notin Begins \cup {"EOF"} BY <1>1 DEF Begins
<1>7. /\ Back = BeginOf(program, symbol_offset) /\ Back \in Offsets /\ Open
      /\ BeginOf(program, Last) = Back
  BY <1>1, <1>6, BeginOnTop
<1>8. Seen % HALF = Seen /\ Seen \in Nat /\ visited[symbol_offset] <= Seen /\ max_stack <= Seen
  <2>1. Seen \in Nat /\ Seen < HALF /\ visited[symbol_offset] <= Seen /\ max_stack <= Seen
    BY <1>1, SeenFits
  <2>2. Seen % HALF = Seen BY <2>1, VerifierAssumption
  <2> QED BY <2>1, <2>2
<1>9. upper'[Back] = Seen BY <1>1, <1>2, <1>7, <1>8
<1>10. ASSUME NEW i \in Visited, BeginOf(program, i) = Back PROVE visited[i] <= Seen
  <2>1. i \in Nat \ {0} /\ i \in Offsets /\ visited[i] \in Int BY <1>2, DepthsFit
  <2>2. Back <= i BY <1>10, <2>1, BeginOfFacts
  <2>3. CASE i = symbol_offset BY <1>8, <2>3
  <2>4. CASE i < symbol_offset
    <3>1. i <= Last BY <1>2, <1>4, <2>1, <2>4
    <3>2. visited[i] <= max_stack BY <1>7, <2>2, <3>1 DEF CoverInv
    <3> QED BY <1>8, <2>1, <3>2 DEF TypeOK
  <2>5. CASE i > symbol_offset
    <3>1. symbol_offset + 1 \in Offsets /\ symbol_offset + 1 \in 1..i BY <1>2, <2>1, <2>5
    <3>2. program[symbol_offset + 1].op \in Begins \cup {"EOF"}
      BY <1>1, <1>2 DEF Compiled, Instr, Offsets
    <3>3. CASE program[symbol_offset + 1].op \in Begins
      <4>1. symbol_offset + 1 <= BeginOf(program, i) BY <2>1, <3>1, <3>3, BeginOfFacts
      <4>2. Back <= symbol_offset BY <1>2, <1>7, BeginOfFacts
      <4> QED BY <1>2, <1>7, <1>10, <4>1, <4>2
    <3>4. CASE program[symbol_offset + 1].op = "EOF"
      <4>1. symbol_offset + 1 = Len(program) BY <1>2, <3>1, <3>4 DEF IsCode, Offsets
      <4>2. i = Len(program) BY <1>2, <2>1, <3>1, <4>1
      <4>3. program[i].op = "EOF" BY <3>4, <4>1, <4>2
      <4>4. Marked /\ labels = <<>>
        BY DEF Marked, MarksInv, WalkInv
      <4>5. Pending = {} BY <4>4 DEF Pending
      <4>6. program[i].op \notin Unsupported
        BY <4>4, <4>5 DEF MarksInv, WalkInv, Solved
      <4> QED BY <4>3, <4>6 DEF Unsupported
    <3> QED BY <3>2, <3>3, <3>4
  <2> QED BY <1>2, <2>1, <2>3, <2>4, <2>5
<1>11. ASSUME NEW e \in Offsets, Closed(e)', NEW i \in Visited,
              BeginOf(program, i) = BeginOf(program, e)
       PROVE  visited[i] <= upper'[BeginOf(program, e)]
  <2>1. Closed(e) \/ e = symbol_offset BY <1>1, <1>11, ClosedAdvances
  <2>2. CASE e = symbol_offset BY <1>7, <1>9, <1>10, <1>11, <2>2
  <2>3. CASE Closed(e)
    <3>1. visited[i] <= upper[BeginOf(program, e)] BY <1>11, <2>3 DEF CoverInv, Passing
    <3>2. BeginOf(program, e) < Back BY <1>6, <1>7, <2>3, ClosedElsewhere
    <3>3. Back \in Int /\ e \in Visited BY <1>2, <1>7, <2>3 DEF Closed
    <3>4. BeginOf(program, e) \in Offsets BY <1>2, <3>3 DEF LayoutInv, EntryInv
    <3>5. BeginOf(program, e) \in Int BY <1>2, <3>4
    <3>6. upper'[BeginOf(program, e)] = upper[BeginOf(program, e)]
      BY <1>1, <1>2, <3>2, <3>3, <3>4, <3>5
    <3> QED BY <3>1, <3>6
  <2> QED BY <2>1, <2>2, <2>3
<1>12. max_stack' < HALF BY <1>1, VerifierAssumption
<1> QED BY <1>1, <1>3, <1>5, <1>11, <1>12 DEF CoverInv
\* Every step keeps the cover.
LEMMA CoverStep ==
  ASSUME TypeOK, TypeOK', Compiled(program), MarksInv, Shallow(program), LayoutInv, CoverInv,
         [Next]_vars
  PROVE  CoverInv'
<1>1. program' = program BY ProgramKept
<1>2. CASE UNCHANGED vars
  <2>1. UNCHANGED <<program, upper, visited, labels, phase, outcome, symbol_offset, max_stack>>
    BY <1>2 DEF vars, code, marks, pass
  <2>2. UNCHANGED <<Visited, Last, Passing, Offsets>>
    BY <2>1 DEF Visited, Last, Passing, Offsets
  <2>3. UNCHANGED Open /\ \A e : Closed(e)' <=> Closed(e)
    BY <2>1, <2>2 DEF Open, Closed
  <2> QED BY <2>1, <2>2, <2>3 DEF CoverInv
<1>3. CASE CollectMarks
  <2>1. /\ upper' = upper /\ phase \in {"collect_marks", "walk"} /\ outcome' # "accepted"
        /\ phase' = "verify" => CollectMarksDone
    BY <1>3, CollectLeaves
  <2>2. max_stack' = max_stack
    BY <1>3 DEF CollectMarks, TakeLabel, ThrowUnsupported, ThrowArguments, ThrowExhausted,
                ThrowAt, WalkJump, WalkStop, WalkOn, Passes, CollectMarksDone, pass
  <2>3. phase' = "verify" => symbol_offset' = 1 BY <2>1 DEF CollectMarksDone
  <2>4. phase' = "verify" => ~ Open' BY <2>3 DEF Open, Last
  <2>5. ASSUME phase' = "verify", NEW e PROVE ~ Closed(e)'
    <3>1. e \in Visited' => e \in Nat \ {0} BY CodeFacts, SMTT(40) DEF TypeOK, Visited, Offsets
    <3> QED BY <2>3, <2>5, <3>1 DEF Closed
  <2> QED BY <2>1, <2>2, <2>4, <2>5 DEF CoverInv, Passing
<1>4. CASE Verify
  <2>1. /\ UNCHANGED <<program, visited, labels, cur_stack>>
        /\ phase = "verify" /\ phase' \in {"verify", "stopped"} /\ outcome = "none"
    BY <1>4, MarksInVerify
  <2>2. Visited' = Visited /\ Offsets' = Offsets BY <2>1 DEF Visited, Offsets
  <2>3. VerifyStep => symbol_offset \in Visited BY DEF VerifyStep, Visited, TypeOK
  <2>4. CASE VerifyEOF
    <3>1. UNCHANGED <<upper, symbol_offset, max_stack>> /\ phase' = "stopped"
      BY <2>4 DEF VerifyEOF, Stop, code, pass
    <3>2. \A e : Closed(e)' <=> Closed(e) BY <2>1, <2>2, <3>1 DEF Closed
    <3> QED BY <2>1, <2>2, <3>1, <3>2 DEF CoverInv, Passing
  <2>5. CASE SkipUnvisited
    <3>1. /\ symbol_offset \notin Visited /\ max_stack' = max_stack /\ upper' = upper
          /\ Advance /\ Instr.op # "EOF"
      BY <2>5 DEF SkipUnvisited, Visited, code, pass
    <3> QED BY <2>1, <3>1, CoverAdvances
  <2>6. CASE VerifyEnd BY <2>1, <2>6, CoverEnd
  <2>7. ASSUME phase' = "stopped", outcome' # "accepted" PROVE CoverInv'
    BY <2>7 DEF CoverInv, Passing
  <2>8. CASE VerifyEndEncoded \/ VerifyNoBegin
    BY <2>7, <2>8 DEF VerifyEndEncoded, VerifyNoBegin, Stop
  <2>9. ASSUME VerifyBegin \/ VerifyVariables \/ VerifyJump \/ VerifyOther
        PROVE  /\ VerifyStep /\ upper' = upper /\ max_stack' = Seen
               /\ Instr.op \notin {"EOF", "END"}
               /\ Advance \/ (phase' = "stopped" /\ outcome' # "accepted")
    BY <2>9 DEF VerifyBegin, VerifyVariables, VerifyJump, VerifyOther, Stop,
                Begins, Variables, Jumps, CondJumps
  <2>10. CASE VerifyBegin \/ VerifyVariables \/ VerifyJump \/ VerifyOther
    BY <2>1, <2>3, <2>7, <2>9, <2>10, CoverAdvances
  <2> QED BY <1>4, <2>4, <2>5, <2>6, <2>8, <2>10 DEF Verify
<1> QED BY <1>2, <1>3, <1>4 DEF Next, Stopped

\* One maximum and one stack of BEGINs serve all functions without mixing them up.
THEOREM CoverIsKept == Spec => [](Coverable(program) => CoverInv)
<1>1. Init => (Coverable(program) => CoverInv)
  BY VerifierAssumption DEF Init, CoverInv, Passing
<1>2. /\ TypeOK /\ TypeOK' /\ [Next]_vars /\ (Counted(program) => MarksInv)
      /\ (Compiled(program) => LayoutInv) /\ (Coverable(program) => CoverInv)
      => (Coverable(program) => CoverInv)'
  <2> SUFFICES ASSUME TypeOK, TypeOK', [Next]_vars, Counted(program) => MarksInv,
                      Compiled(program) => LayoutInv, Coverable(program) => CoverInv,
                      Coverable(program)'
               PROVE  CoverInv'
    OBVIOUS
  <2>1. Coverable(program)
    BY ProgramKept DEF Coverable, Compiled, Counted, Shallow
  <2>2. Compiled(program) /\ MarksInv /\ Shallow(program) /\ LayoutInv /\ CoverInv
    BY <2>1 DEF Coverable
  <2> QED BY <2>2, CoverStep
<1> QED BY <1>1, <1>2, TypeCorrect, MarksAreSound, LayoutIsKept, PTL DEF Spec

\* The depth in the BEGIN of a function whose END is reached bounds the depth at
\* every position of it: what the interpreter's overflow check relies on.
THEOREM PatchedDepthsCover == Spec => [](Coverable(program) => MaxStackCovers)
<1>1. ASSUME TypeOK, LayoutInv, CoverInv, outcome = "accepted", NEW i \in Visited,
             NEW e \in Visited, program[e].op = "END",
             BeginOf(program, i) = BeginOf(program, e)
      PROVE  visited[i] <= upper[BeginOf(program, e)]
  <2>1. IsCode(program) /\ e \in Offsets /\ symbol_offset \in Offsets
    BY <1>1 DEF TypeOK, Visited
  <2>2. Instr.op = "EOF" BY <1>1 DEF LayoutInv, EndInv
  <2>3. symbol_offset = Len(program) /\ e # Len(program)
    BY <1>1, <2>1, <2>2 DEF IsCode, Instr, Offsets
  <2>4. e < symbol_offset BY <2>1, <2>3, CodeFacts DEF Offsets
  <2>5. Closed(e) BY <1>1, <2>4 DEF Closed
  <2> QED BY <1>1, <2>1, <2>5 DEF CoverInv, Passing
<1>2. TypeOK /\ (Compiled(program) => LayoutInv) /\ (Coverable(program) => CoverInv) =>
        (Coverable(program) => MaxStackCovers)
  <2> SUFFICES ASSUME TypeOK, Compiled(program) => LayoutInv, Coverable(program) => CoverInv,
                      Coverable(program)
               PROVE  MaxStackCovers
    OBVIOUS
  <2>1. LayoutInv /\ CoverInv BY DEF Coverable
  <2> QED BY <1>1, <2>1 DEF MaxStackCovers
<1> QED BY <1>2, TypeCorrect, LayoutIsKept, CoverIsKept, PTL
================================================================================
