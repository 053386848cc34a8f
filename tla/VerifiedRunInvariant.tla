------------------------- MODULE VerifiedRunInvariant -------------------------
(***************************************************************************)
(* The inductive invariant of VerifiedRun: the frames from the running one *)
(* to main's, with the depth at which each of them goes on.                *)
(* VerifiedRunProofs proves it, and RunsAsVerified and BeginCheckSuffices  *)
(* from it.                                                                *)
(***************************************************************************)
EXTENDS VerifiedRun, VerifierInvariant

(* Conditions on a code section. *)

\* Control enters a function by calls only, and calls and closures lead to the
\* begin of one: as lamac lays functions out, each after the END of another.
Entered(p) ==
  \A i \in DOMAIN p :
    /\ p[i].op \in Begins /\ i # MAIN => p[i - 1].op = "END"
    /\ p[i].op \in Jumps => p[i].a \in DOMAIN p
    /\ p[i].op \in Jumps \ {"CALL"} => p[p[i].a].op \notin Begins
    /\ p[i].op = "CLOSURE" => p[i].a \in DOMAIN p /\ p[p[i].a].op \in Begins

\* An access names a variable by one of the designations; verify throws at another.
Designated(p) == \A i \in DOMAIN p : p[i].op \in Variables => p[i].low \in Designations

Traceable(p) == Coverable(p) /\ Entered(p) /\ Designated(p)

\* A code whose runs are all in order: its calls are direct and pass as many arguments
\* as declared, and it stores to variables only.
Direct(p) ==
  \A i \in DOMAIN p :
    /\ p[i].op \notin {"CALLC", "STI", "STA"}
    /\ p[i].op = "CALL" => p[p[i].a].a <= p[i].b

\* Captured variables are named in the bodies of closures only, which only calls of
\* closures enter, and arguments in functions that have been passed them: main has
\* been passed none.  A store goes to a variable or an element: ActivationRecords
\* has no addresses to store through.
Scoped(p) ==
  /\ p[MAIN].op = "BEGIN"
  /\ \A i \in DOMAIN p :
       /\ p[i].op # "STI"
       /\ p[i].op = "CALL" => p[p[i].a].op = "BEGIN"
       /\ \A v \in Named(p[i]) :
            /\ v.mem_var = "Closure" => p[BeginOf(p, i)].op = "CBEGIN"
            /\ v.mem_var = "Argument" => BeginOf(p, i) # MAIN

------------------------------------------------------------------------------
(* The words of memory *)

\* A word that names a closure names one that was created.
Sound == {w \in AnyWord : w[1] = "closure" => w[2] \in DOMAIN closures}
Entries == {i \in Offsets : program[i].op \in Begins}
WordsInv ==
  /\ memory \in [Interpret!Words -> Sound]
  /\ closures \in Seq([at : Entries, captured : Seq(Sound)])

------------------------------------------------------------------------------
(* The frames: b[k] is the fp of the k-th, the running one first, at[k] the *)
(* position where it goes on, and free[k] the free slot it then has.        *)

\* The locals that are reserved at a position.
Reserved(i) == IF program[i].op \in Begins THEN 0 ELSE program[BeginOf(program, i)].b

\* The operands between base and the free slot f, at a position.
Operands(i, base, f) == base - f - Reserved(i)

\* They are as many as the verifier has recorded, if it has entered the function.
Accounted(i, base, f) ==
  IF VerifiedFunction(i) THEN i \in Visited /\ Operands(i, base, f) = visited[i]
                         ELSE closures # <<>> /\ Operands(i, base, f) >= 0

\* BEGIN has found room for the greatest depth.
Roomy(i, base) ==
  VerifiedFunction(i) /\ Ends(i) /\ program[i].op \notin Begins =>
    base + 1 >= upper[BeginOf(program, i)] + Reserved(i)

\* A function that goes on at i, with the frame at base and the free slot f.
Function(i, base, f) == f >= -1 /\ Accounted(i, base, f) /\ Roomy(i, base)

\* The frame at base, of a call with n arguments, stands on the operands of its
\* caller, to whose frame, position i and free slot f it returns.
Stands(base, n, i, caller, f) ==
  /\ program[i].op \notin Begins /\ Operands(i, caller, f) >= 1
  /\ base + 3 + n <= f + 1
  /\ memory[base + 1] = At(f + 1) /\ memory[base + 2] = At(caller) /\ memory[base + 3] = Code(i)

Declared(i) == program[BeginOf(program, i)].a

\* The frame at base of a function at i, called with n arguments, stands on the
\* closure it was called through, if the function is the body of one.
Called(i, base, n) ==
  program[BeginOf(program, i)].op = "CBEGIN" => memory[base + 1] = At(base + 4 + n)

Chain(b, at, free) ==
  LET n == Len(arg_sizes)
  IN  /\ b \in [1..n -> Int] /\ at \in [1..n -> Offsets] /\ free \in [1..n -> Int]
      /\ b[1] = fp /\ at[1] = ip /\ free[1] = top
      /\ b[n] = Interpret!START - 3 /\ memory[b[n] + 3] = Null
      /\ \A j, k \in 1..n : j < k => b[j] + 3 <= b[k]
      /\ \A k \in 1..n : Function(at[k], b[k], free[k])
      /\ \A k \in 2..n : Stands(b[k - 1], arg_sizes[k - 1], at[k], b[k], free[k])
      /\ Direct(program) =>
           \A k \in 1..n : VerifiedFunction(at[k]) /\ (k < n => Declared(at[k]) <= arg_sizes[k])
      /\ program[ip].op \in Begins => top = fp
      /\ arg_sizes[n] = 0 /\ memory[b[n] + 1] = At(b[n] + 3) /\ BeginOf(program, at[n]) = MAIN
      /\ Scoped(program) => \A k \in 1..n : Called(at[k], b[k], arg_sizes[k])

ChainInv == /\ arg_sizes \in Seq(Nat) /\ arg_sizes # <<>> /\ fp \in Int /\ top \in Int
            /\ \E b, at, free : Chain(b, at, free)
OutsideInv == program[ip].op \in {"CALL", "CALLC", "SEXP", "CLOSURE"} \/ ~VerifiedFunction(ip) \/ ~Ends(ip)

RunInv ==
  /\ outcome # "accepted" => Interpret!MachineInit
  /\ outcome = "accepted" /\ OperandsSuffice /\ Traceable(program) /\ orderly =>
       /\ WordsInv
       /\ status = "running" => ChainInv
       /\ status = "outside" => OutsideInv
================================================================================
