# Verification of the Lama stack-machine interpreter

The repository is an interpreter for the bytecode of the language Lama: a C
runtime with a mark-compact garbage collector (`runtime/`), a C++ stack machine
(`src/`), a bytecode verifier that runs before it, and an analyzer that counts
instruction sequences. Everything is single-threaded. `lama_sm_interpreter -i`
reads a file, verifies it (`verify`), and interprets it (`interpret`); `-a`
analyzes it; `-p` prints it.

## 1. Inventory

| Component | State | Operations | Interacts with |
|---|---|---|---|
| Garbage collector `runtime/gc.c` | the chunk `heap` (begin, end, current, size), the objects in it with their forward addresses, mark bits and queue bits, the pool `extra_roots` | `alloc`, `gc_alloc`, `mark_phase`, `compact_phase`, `push_extra_root`, `pop_extra_root`, `__init`, `__shutdown` | reads and rewrites the machine's stack between `__gc_stack_top` and `__gc_stack_bottom`; called by the runtime |
| Allocating runtime calls `runtime/runtime.c` | none of their own | `Barray`, `Bsexp`, `Bclosure`, `Bstring`, `Lstring`, `LmakeString`, `Li__Infix_4343`, ... | register their arguments as extra roots, allocate, read the arguments again, fill |
| Pure runtime library `runtime/runtime.c` | a string buffer | `Belem`, `Bsta`, `Btag`, the pattern tests, `Lcompare`, `Lhash`, `LtagHash`, printing | reads objects; `Bsta` writes them |
| Frame stack `state/FrameStack.hpp` | the stack, `fp`, the string table's offsets, `arg_sizes` | push and pop of operands and frames, globals, locals, arguments, captures, links to them | shares the stack with the collector |
| Interpreter `main.cpp`, `single_interpreters/` | the code pointer | one handler per instruction, exceptions end the process | frame stack, runtime |
| Verifier `verifier/Verifier.hpp` | depth per offset, worklist, `begin_offsets`, `max_stack` | `collect_marks`, `verify` | patches `BEGIN` in the code, which the interpreter's overflow check reads |
| Analyzer `analyzer/Analyzer.hpp` | `visited` bits, worklist, collected offsets | `collect_marks`, `analyze`, `results` | reads the code |
| Bytecode file, decoders | the file in memory, the code pointer | `read_file`, `consume_as`, `general_byterun` | every reader of the code |
| Arithmetic and boxing `boxing.hpp`, `binop_interpreter.hpp`, `runtime.c` | none | `box_int`, `unbox`, the handler of `BINOP`, `Ls__Infix_43` and the others | words of the stack |
| Printer `printers.hpp` | the code pointer | `print_instructions` | reads the code, by its own account of it |
| `printf.S`, `Std.i`, build, regression script | - | output, stubs | - |

What is hard here is not concurrency but aliasing and order: one stack is the
interpreter's operand stack, its frames, and the collector's root set; objects
move at any allocation; the marking queue lives in the words that later hold
new addresses; a collection rewrites words one at a time while walking the
heap it overwrites. What makes each part correct:

* collector: exactly the reachable objects survive, unchanged up to their
  addresses, and every word that leads to them is updated once; the queue in
  the objects never overflows nor repeats; a collection ends and makes room.
* runtime calls: what an object is filled with is what the arguments denoted
  when the call was made; the extra roots are popped in order.
* frame stack: frames nest; every word in the scanned region is a root the
  collector may follow; a call below the checked depth does not leave the stack.
* verifier: every path reaches an offset with the depth recorded there; the
  depth it records bounds the interpreter's.
* analyzer: every reachable instruction is counted once and no pair spans a
  jump target.
* decoders: the printer, the analyzer and the verifier, and the handlers agree on
  where an instruction ends.
* runtime library: a call's result is that of the values its arguments had, however
  many of them move during it; comparison is an order and the hash agrees with it.

The hazards this exposes are listed with their lines in `PROJECT.json`.

## 2. What is modelled

| Module | Content |
|---|---|
| `ObjectGraph` | The abstract specification of the collector: a stack of values and the graph of objects it reaches; no addresses and no collections. |
| `GC` | `runtime/gc.c` and the allocating calls, driven by the most general client of the stack. |
| `GCRefinement` | The refinement mapping from `GC` to `ObjectGraph`. |
| `GCInvariant`, `GCProofs` | The inductive invariant of `GC`; the theorems and their proofs, then what a finished collection leaves. |
| `Bytecode`, `StackWords` | The instructions, their operands and successors; the words of the interpreter's stack. |
| `Verifier` | `collect_marks` and `verify`. |
| `VerifierInvariant`, `VerifierProofs` | The conditions on a code, the inductive invariants, the theorems and their proofs. |
| `ActivationRecords` | The abstract specification of the interpreter: a call is a record of its own. |
| `Interpreter` | The dispatch loop, the handlers and `FrameStack`'s memory. |
| `InterpreterRefinement` | The mapping that reads the records off the chain of frame pointers. |
| `VerifiedRun` | `main -i`: `Verifier`, then `Interpreter` on the code it has patched. |
| `VerifiedRunInvariant`, `VerifiedRunProofs` | The invariant of the frames of such a run; the theorems and their proofs. |
| `VerifiedRunRefinement` | The proof that such a run implements `ActivationRecords`. |
| `Analyzer` | `collect_marks`, `analyze` and the counting. |
| `Encoding` | The bytes of the code, the length of an instruction for each of the three readers, the comparison of bytes. |
| `Modes` | `main -a` and `main -p`: `Analyzer`, and the printer's loop. |
| `AnalyzerProofs`, `ModesProofs` | The invariants of both, the theorems and their proofs. |
| `FrameRoots` | `FrameStack` from its constructor on, over a heap whose chunks `mmap` and `munmap` give and take: which words the collector sees and which it does not. |
| `FrameRootsProofs` | Its invariant, the theorems and their proofs. |
| `InductionFacts` | Induction over numbers, stated for sets; functions defined by recursion over an interval. |
| `Values` | The abstract specification of the runtime library: operations on values that nothing moves. |
| `RuntimeLibrary` | The calls of `runtime.c` over objects that any allocation may move; `Lcompare`, the hash, the pattern tests. |
| `Tags`, `Arithmetic` | The tags of s-expressions and the bytes of strings; boxing and the operators, as `BINOP` and as `runtime.c` have them. |
| `Assembler` | Helpers to write down programs for TLC. |
| `MC...` | Constants for TLC. |

A module that models code also has the properties of it and, next to the
definitions they replace and marked as mutants, the mutated forms that the
properties are tested with.

### GC and the code

State. An address unit is half a machine word, so that a pointer is even and an
unboxed word odd. `heap` and `old_heap` are the two `memory_chunk`s (`old_heap`
is the local of `compact_phase`). An object is an entry of `objs` at its
header's address; its forward address, mark bit and queue bit, which the code
packs in one word, are `fwd`, `marked` and `enqueued`. `objs[a].id` is the debug
build's `id`; no action of the collector reads it. `stack[1]` is the word at
`__gc_stack_top + 1`. `cells` are the two words outside the stack whose
addresses are registered as roots: the cell that `call_string` allocates for
a boxed argument, and the local `content` of `Lstring`. The other variables
are the code's iterators and program position.

Actions, in the order of a call:

| Action | Code |
|---|---|
| `Push` `Dup` `Belem` `Pop` `Bsta` `BstaString` | what instructions do to the stack and to objects between two allocations |
| `Barray` `BsexpOrBclosure` `Bstring` `Lstring` | the interpreter's part of the call: reversing, pushing the tag or the offset, choosing the roots |
| `PushExtraRoot` `Alloc` `Fill` `PopExtraRoot` `Return` | the runtime's part; `Alloc` is also the second attempt after a collection |
| `GcAlloc` `MarkRoot` `Dequeue` `ScanField` `FieldsDone` `QueueEmpty` `MarkPhaseDone` | `mark_phase`: one root, one dequeue, one field per step |
| `ComputeLocation` `MapNewHeap` `UpdateObject` `UpdateRoots` `Relocate` `CompactPhaseDone` | `compact_phase`: one object per step in each walk |
| `Exited` | the process has exited in `push_extra_root` |

`MapNewHeap` chooses any base in `Bases` at which the new chunk does not overlap
the old one, as `mmap` may; addresses are reused by later collections. `Relocate`
removes every object that the move overwrites, so that a walk or a pointer that
relied on one would be caught. `Push` of NULL requires a heap because the
heap is all zeros until the first allocation (`main` never calls `__gc_init`):
zero would be a "valid" pointer then, and the code makes its first allocation
for the string table before any slot may hold NULL.

Abstractions. A string is a sequence of machine words, since the collector
reads only its size; sizes are in words, as `BYTES_TO_WORDS` rounds them before
anything depends on them. A word that points into C memory lies below the
chunks (assumption `GCAssumption`). `UpdateRoots` fixes the stack and the extra
roots in one step: each word is fixed independently of the others.

Not in the model:

* where `mmap` puts a chunk, its failure, and the size given to `munmap`: these are in
  `FrameRoots`.
* the extra word that `update_references` fixes beyond the stack's bottom, and
  the word that `scan_global_area` reads at the one-byte anchor of
  `custom_data.c`: both are outside the program's data.
* the debug build (dumps, ids other than as identity), the test helpers,
  `__shutdown`, `__init` (not called by the interpreter).
* links (`LDA` of a stack slot, `STI`): a word of the stack that points into
  the stack is one that points into C memory for the collector, and is so in
  `CWords`; storing through it is `Interpreter`'s affair.
* the word at `__gc_stack_top` itself, where the constructor stores the string table:
  `Bstring` here pushes into the part that is scanned, as the instruction `STRING` does;
  the constructor's place is `FrameRoots`' affair.

### Bytecode

A program is a sequence of decoded instructions that ends with `EOF`, and a
position in it stands for an offset: jumps into the middle of an instruction
have no counterpart (`Encoding` has the bytes, and `ReadersAgree` says when the two
views agree). An instruction has its operation, the low bits (`low`: where
a variable lives, or which pattern), two numbers and, for `CLOSURE`, the captured
designations. `Needs` and `Effect` say what the interpreter's handlers take and
leave; they are read off the handlers and are independent of the verifier's
`GetNewStack`, which is checked against them.

### Verifier and the code

`visited`, `labels`, `symbol_offset`, `cur_stack`, `max_stack` and `begin_offsets` are the
variables of those names. `upper` is the upper half of each `BEGIN`'s first
argument, which `verify` patches; `HALF` is 2^16. One step is one instruction of
`collect_marks` or one position of `verify`'s pass:

| Action | Code |
|---|---|
| `TakeLabel`, `CollectMarksDone` | the worklist loop |
| `ThrowUnsupported`, `ThrowArguments`, `ThrowExhausted` | the exceptions in `collect_marks`, in the order of the tests |
| `WalkJump`, `WalkStop`, `WalkOn` | the rest of the walk, with `PerformStep` the lambda `perform_step` |
| `VerifyEnd`, `VerifyBegin`, `VerifyVariables`, `VerifyJump`, ... | `verify`, by the kind of instruction |

`outcome` is the exception thrown, "accepted", "outside" where `visited` is indexed
beyond its end (a jump out of the code is only looked for in the pass that follows
`collect_marks`, `Verifier.hpp:297`), or "no_begin" where `back()` is taken of an empty vector. `main` is
the first function (`MAIN = 1`), as the compiler emits it. Depths are integers:
`CALL_ARRAY`'s argument is the only number that `get_new_stack` takes from the depth
untested, and `DepthAssumption` keeps it below 2^31, where the `uint32_t` depth would wrap.

### Interpreter and the code

`memory` is `stack_data` with its real layout, growing towards index 0; `top` and `fp`
are indices. The operands, frames, locals, globals and string table share it,
and a handler that pushes a temporary (the tag of an s-expression, the captured
values of a closure) writes it there, as the code does. There is one action per
handler. `status` is "outside" when a handler writes below the stack, and
"undefined" when it follows a word that is not what it takes it for.

Abstractions. A heap object that is no closure is the one word `Box`: contents
are `GC`'s affair, and what is read from an object or computed by a binary
operation is any of a few values. A closure used as an array is put down as
"undefined". `FrameStack`'s constructor is `Cleared`: the words below the globals and
the string table are not yet given meaning, which is `FrameRoots`' affair.

`ActivationRecords` has no memory. `Fault` lets the abstract program stop with an
error at any instruction: when the interpreter must not fail is the subject of
`VerifiedRun` and not of this refinement. A store through a link into the stack
that succeeds has no abstract counterpart; the programs of the refinement run
have none.

### VerifiedRun

The steps of `Verifier`, and after "accepted" those of `Interpreter` on the same
`program` and `upper`; after an exception, none. The interpreter's variables are
its own, so nothing but the patched `BEGIN`s passes from one to the other.

`orderly` is a history variable, no part of the program: every state of the run so far
was `InOrder`. That has four conjuncts, each of something that a pass over the code
cannot find out and the handlers do not test: a call passes the arguments that its
function declares; a body the verifier has not entered has the operands and the
variables it takes; `STA` is told an index and not a reference; `STI` stores to a
variable that still exists. Without any one of them TLC finds a run that overwrites
a frame or ends up at another depth than was recorded.

### Analyzer, Encoding, Modes and the code

`visited` holds the bits 1, 2 and 4 of each offset as a set; `q` and `labels` are the two
worklists; `prev` is `prev_ptr`, 0 for `prev_initialized == false`. Jumps lead into the
code (the analyzer does not test for others). `bytes` is the code's text, one sequence
of cells for an instruction: a byte is a cell and so is a 32-bit word. `Cmp` compares
these cells as `compare_bytes` does, signed and with the lengths last, and `Count`
sorts by it and measures runs.

`Encoding` gives each reader (`general_byterun`, `print_instructions`, the handlers) as
the instructions it takes for those of no, one and two arguments, each written down
from its own source; `Passed` is where a reader goes from an offset. `Modes` adds the
loop of `-p`, one instruction a step. What is printed for an instruction beyond its
name and its place is left out.

### FrameRoots and the code

`memory`, `top` and `fp` are `Interpreter`'s. A word is a number, or a pointer with the
identity of the object it was made for, so that a stale pointer is told from a good
one that happens to have the same address. A collection is one step; the loops it
consists of are `GC`'s. `mapped` is the set of mapped pages: `mmap` gives the highest
free run of pages, as Linux does, or fails; `Unmapped` is what `munmap` gives back
when it is told the size in words (`gc.c:299`).

| Action | Code |
|---|---|
| `BuildString`, `EnterMain` | the constructor's loop over the string table; the push of `main`'s frame, whose place is computed from the bytes of the table and not from its strings |
| `BeginFunction`, `Call`, `EndFunction` | `reserve_locals`, `push_stack_frame`, `pop_stack_frame` |
| `Const` `Drop` `PushString` `Load` `Store` `ToString` | one handler for each way to write, lose or allocate |

A failed allocation ends in `Fails`: a root that is no object's contents ("wrong root"),
a failed `mmap` found ("mmap failed"), or the copy to `MAP_FAILED` that is made before it is
looked for ("fault").

### RuntimeLibrary, Values and the code

An address is the number of an object in its chunk, and `Allocated` gives what an
allocation may leave: the same heap, or the collected one, whether or not it was
full. Every call is one action that chooses among these and then reads its
arguments from where the code does, before or after. `Construct` has `Barray`,
`Bsexp` and `Bclosure`; `Operate` has the operators, of `BINOP` and of `runtime.c` both.
`Values` has the same operations on trees, without a heap; `RuntimeLibrary!Value` is the
mapping. An in-place store (`Bsta`) is `GC`'s: what it does to a shared object has no
counterpart in trees.

`failed` is that `Lsubstring` has ended the process. A negative position passes its test;
the model takes the position -1, whose byte is the highest of the forward address and
zero outside of collections. Positions before it read the rest of the forward address and
the header. `Stringcat` has `stringcat`'s four branches; the texts that two of them print
for what is no list and no string are one byte each, which no string of a run holds.

`InnerHash` is the sequence of words that `inner_hash` folds into a number: equal
sequences have equal hashes, and the number is not computed. `Arithmetic` has words
of `BITS + 1` bits; `Word` is what is left of a number in one.

## 3. What the runs check

The collector:

| Run | Question | Bounds |
|---|---|---|
| `gc_small` | type invariant, queue, marking, walks, room, compaction, client's view; `ImplementsObjectGraph`, `CallsReturn` | 3 objects, 2 stack words, capacity 6 words (three words hold the smallest non-empty object), 1 root, 2 chunk bases |
| `gc_refinement_args` | `ImplementsObjectGraph`; `Inv`, the inductive invariant of the proofs | 2 objects, 3 stack words, capacity 4, 2 roots |

Why the bounds suffice. Two stack words and three objects give shared objects, chains,
cycles and self references (through `Bsta`), garbage below and between live
objects, roots to the same object, an empty object at the heap's end, and
collections that empty, slide, and grow the heap. Capacity 6 makes the second or
third allocation collect; the third collection reuses the first chunk's
addresses. The unboxed word 209 has the value of an address of one chunk, and
the string's word 104 that of a content pointer of the other: a field or a byte
mistaken for a pointer is followed. `gc_refinement_args` needs a third stack word
to tell the order of an s-expression's arguments apart, and lowers the number of
objects to pay for it. That the properties also hold for larger heaps is what
the proofs show.

Properties:

* `TypeOK`: types; bits and forward addresses belong to objects.
* `QueueHasRoom`: `queue_enqueue` never writes past the heap's last object.
* `QueueInvariant`: the invariant of `gc.c`'s comment at 534.
* `MarkedIsReachable`: at the end of marking, marked = reachable, with
  reachability defined without an algorithm (the least closed set).
* `WalkOnHeaders`: each walk stands on a header, during overwriting too.
* `CollectionMakesRoom`: the unchecked second attempt succeeds.
* `CompactedHeap`: after a collection no garbage, no bit, the original order.
* `HeapSound`: between calls no dangling pointer, no gap, no root left.
* `CallsReturn`: every call whose arguments fit the pool of extra roots returns to
  the client; of the others, and of no others, the process exits in `push_extra_root`.
* `ImplementsObjectGraph`: the collector is invisible. The abstract state is
  defined at every step, so that a single missing or doubled update shows.

Fairness: weak fairness of `Runtime`, the steps inside a call. The call is
sequential code that nothing can suspend; the client is under no obligation.
The refinement is of the safety part (`ObjectGraph` has no fairness).

Deadlock is checked in all of these runs. At `MaxAllocs` the client can still work
on its stack, and `Exited` stutters.

Verifier, interpreter, analyzer and printer:

| Run | Question | Bounds |
|---|---|---|
| `verified_run` | type invariant, marks, rejections, patches, variables, `VerifyTerminates`; `RunsAsVerified`, `BeginCheckSuffices` | 29,590 codes: every one-function body of four instructions with jumps to all positions; every pair of functions of three and two instructions that call each other and themselves; every pair of the other instructions at depths 0 to 3; closures whose bodies nothing else reaches; stores by reference, to variables that live and that do not; a function that no path ends; stack of 16 words |
| `interpreter_refinement` | `ImplementsActivationRecords` | 3,079 programs; stack of 24 words |
| `modes` | traversal, pairs, counts, orders; readers and listing; `ModeEnds` | 13,122 codes of control flow and every pair of some 50 instructions, with two symbol tables, under `-a` and `-p` |
| `verifier_string`, `verifier_pattern`, `verifier_operands`, `verified_run_overflow` | findings of section 5 | one program each |

Why the bounds suffice. Programs are not sampled: a family has every code over
its alphabet, so that a join is reached by the walk first and by the worklist
first, a loop goes back to recorded and to unrecorded code, and functions recurse
directly and mutually. Four instructions between `BEGIN` and `END` let two branches
meet with different depths. The 16 and 24 words hold two to four frames; at 16,
recursion runs into the overflow check and past it. The passing runs of
`Verifier` leave out `CALL_STRING` and patterns `ARRAY` of more than one element,
whose treatment is two findings; `RunsAsVerified` presupposes `OperandsSuffice`
(that no binary operation runs on one operand), another one. The bodies of closures
presume the depths that only their execution finds (`DepthAfter`), as the verifier
never walks them. The straight codes of `modes` have every opcode, with arguments
that are the byte which ends the code, and closures of no, one and two captures.

Properties:

* `DepthsConsistent`: the marks solve the flow equations of the handlers' effects,
  along every edge, whatever order the paths were met in.
* `DepthsAttained`: and nothing else is marked. Together: the least solution.
* `RejectionIsReal`: an exception names a fault that the code has.
* `MaxStackCovers`, `VariablesExist`: what `verify` patches is at least every depth
  of the function, although one `max_stack` serves all functions in turn; no
  visited instruction names a global, a local or an argument that is not there.
  (`verify` does not look at captured variables, `Verifier.hpp:223`, nor does the property.)
* `VerifyTerminates`: the verifier ends.
* `ImplementsActivationRecords`: frames nest. `END` restores a caller from words
  that lie between arguments and locals, arguments are reversed in the words that
  the restored top is computed from, temporaries lie above operands: none of it
  shows.
* `RunsAsVerified`: the two programs' accounts of the stack agree at every
  instruction of every run in order.
* `BeginCheckSuffices`: after the check of a visited `BEGIN` only a call's frame or a
  handler's temporary can be written below the stack. A `CBEGIN` that is not visited
  keeps the depth 0 (`Verifier.hpp:165`), and so does a `BEGIN` whose `END` no path
  reaches (`258`): the property says nothing of these.
* `TraversalOnMarks`: the analyzer's second traversal, whose rules differ from the
  first's, goes only where the first has marked, and its labels are leaders.
* `SinglesAreReachable`, `PairsAreStraight`, `CountsAreOccurrences`: each reachable
  instruction is collected once; a pair is collected once, never across a point
  where control may enter, and always where none can; the counts are numbers
  of occurrences.
* `ComparatorsAreOrders`: what `std::sort` requires of `cmp_single` and `cmp_pair`, and that
  only equal instructions are equivalent, without which a run would mix them.
* `ReadersAgree`, `ListingIsProgram`: three accounts of the layout of an instruction,
  in three files, agree (of `RET`, which no handler executes, two); the printer ends at
  the end of the code though its arguments hold the byte that ends it.
* `ModeEnds`: the analysis ends, whatever loops the code has, and the printing.

Fairness: weak fairness of the whole next-state relation in `Verifier` and `Modes`,
which are sequential code that nothing suspends. No liveness is claimed of `Interpreter`: a
program may loop.

Deadlock is checked here too; a process that has ended stutters (`Stopped`,
`Rejected`, `Ended`, `Printed_p`).

The stack as roots, and the library:

| Run | Question | Bounds |
|---|---|---|
| `frame_roots` | which scanned words may be stale; where variables lie; which pages stay mapped | two string tables (one makes no collection in the constructor, one makes one), 3 strings made at run time, 2 frames, chunks from 4 words, pages of 10 words of two bytes, 5 pages |
| `frame_strings` | a finding of section 5 | a table of eight strings, 6 pages |
| `runtime_library` | `ImplementsValues`; operators, hash, comparison, tags | 4 calls, 3 stack words, objects of 2 elements, integers of 5 bits made from -16 and -1, tags of two characters out of three |

Why the bounds suffice. In `frame_roots` the second string of the larger table collects
while the first is the newest; a run-time string of six bytes makes the heap grow
beyond a page, so that pages are left behind, and `mmap` fails for want of a free run (only
after the first chunk, so that "mmap failed" is never the outcome; "wrong root" takes
the table of `frame_strings`). Every stack depth
at which a function may begin is reached with words of an ended call above the
top. In `runtime_library` four calls make two strings, or an object of two elements,
and use them, each with and without a collection. From -16 and -1 the operators
make 0, 1 and integers at which boxing loses a bit: the property `OperatorsCompute`
is stated of every pair on the stack and every operator, the least number by -1
among them. The names include one longer than the limit, one that begins with the
character whose digit is zero, and one that differs only by it. `MaxCalls` ends the
run, so that deadlock is not checked in it.

Properties:

* `OnlyFreshOrLostAreStale`: a word the collector reads denotes the object it was made
  for, unless it is a local that has not been assigned (`FrameStack.hpp:107`) or a
  string that was the newest when the constructor collected (53). That the words of
  locals are safe before they are assigned holds because the constructor's
  collections are over by then and later ones have fixed every word above the top;
  it takes several calls to see whether one is missed.
* `VariablesAreApart`: globals are placed by the number of strings, the first frame by
  their bytes; neither the table, nor globals, nor a frame's words overlap.
* `HeapIsMapped`: `munmap` told words for bytes never unmaps the new chunk, and leaves
  pages behind only when the heap has outgrown a page.
* `ImplementsValues`: a call's result is made of what its arguments denoted, and no
  other word's value changes, wherever collections come.
* `OperatorsCompute`: both implementations of the operators compute modulo 2^BITS.
* `EqualHashAlike`, `CompareIsOrder`: equal values have equal hashes, and `Lcompare` is a
  total order, except for strings with a zero byte before the end and for
  differences that `BOX` truncates: the exceptions are those of the code, and
  each is needed. What happens to the excepted values is no part of either property.
* `TagsAreNames`: tags that pass `LtagHash` are told apart by their first characters.

Every property has a mutant of a mapped definition (a plausible slip in that
code) under which TLC finds it violated: for example an unset queue bit, a scan
that starts one word off, the new chunk sized without the request.

## 4. What is proved

The prover takes every theorem for all values of the constants that satisfy the
assumptions of their modules; TLC has checked the same properties, and the
inductive invariants, on the instances of section 3. Counts of states bound
nothing here: of `MaxAllocs`, `MaxStack`, `MaxFrames` nothing is assumed but, at
most, that they are numbers.

Some theorems carry a hypothesis on the code section. Each excludes a class of
programs that TLC has shown, or could show, to violate the property; none
excludes what the compiler writes, except where a finding of section 5 says so.

### The collector: `GCInvariant`, `GCProofs`

| Theorem | Property |
|---|---|
| `Invariance` | `Spec => []Inv` |
| `TypeCorrect` | `Spec => []TypeOK` |
| `QueueNeverOverflows` | `Spec => []QueueHasRoom` |
| `QueueIsSound` | `Spec => []QueueInvariant` |
| `MarkingIsExact` | `Spec => []MarkedIsReachable` |
| `WalksStayOnHeaders` | `Spec => []WalkOnHeaders` |
| `CollectionSuffices` | `Spec => []CollectionMakesRoom` |
| `HeapIsSound` | `Spec => []HeapSound` |
| `CollectionIsExact` | `Spec => []CompactedHeap` |

Assumptions (`GCAssumption`): chunks lie above all words that point into C memory;
pointers are even and unboxed words odd.

The argument. None of the safety properties is inductive: `HeapSound` speaks of
the state between two calls and must be carried through a collection.
`GCInvariant!Inv` says what holds inside one:

* `Tiles`: objects tile the heap, so that `NextObj` walks from header to header;
  during relocation this splits in two (`RelocatedTo(f)`): the moved ones tile
  `begin..f`, the rest tile `scan..current`, and `f <= scan`.
* `QueueInv`: slots, elements, and a count: no more objects lie before the tail
  than have been marked or enqueued. At an enqueue the new object is neither,
  so some object lies at or after the tail: the tail stands on one. This is the
  reason the code needs no test, and the only place that needs cardinalities.
* `MarkInv`: what has been scanned leads to marked or queued objects
  (completeness), and what is marked or queued is in every closed set with the
  roots (soundness). At an empty queue, both give `MarkedIsReachable`.
* `Slides`: the new addresses are in order, without gaps, none above the old
  one. With it, a move overwrites only moved objects and garbage.
* `UpdateInv`, `RelocateInv`: which words still lead to old places, which to new
  ones, and which to where an object already stands.
* `Room`: free space after compaction covers the request (`NextHeapSize`).

The proof has one lemma per action, each split by the conjuncts it can disturb,
over general lemmas on tiling, sliding and words.

`CompactedHeap` says that nothing but the reachable survives, and `Inv` only that
what was marked does. `GCProofs!CompactInv` adds, for each pass, what
"reached from the roots" means while half of the words are rewritten (a path by
new addresses is one by old ones), and that objects stay in the order of their
numbers. It is proved inductive on top of `Inv`.

### The verifier: `VerifierInvariant`, `VerifierProofs`

| Theorem | Statement |
|---|---|
| `TypeCorrect` | `Spec => []TypeOK` |
| `MarksAreSound` | `Spec => [](Counted(program) => MarksInv)` |
| `MarksAreConsistent` | `Spec => [](Counted(program) => DepthsConsistent)` |
| `MarksAreAttained` | `Spec => [](Counted(program) => DepthsAttained)` |
| `RejectionsAreReal` | `Spec => [](Counted(program) /\ SmallPatterns(program) => RejectionIsReal)` |
| `LayoutIsKept` | `Spec => [](Compiled(program) => LayoutInv)` |
| `VariablesDoExist` | `Spec => [](Compiled(program) => VariablesExist)` |
| `CoverIsKept` | `Spec => [](Coverable(program) => CoverInv)` |
| `PatchedDepthsCover` | `Spec => [](Coverable(program) => MaxStackCovers)` |

`Counted` excludes `CALL_STRING` and `SmallPatterns` an `ARRAY` pattern of two or more
elements: the findings `verifier_string` and `verifier_pattern`. `Compiled` is the layout
of `lamac`: functions one after the other, each from its `BEGIN` to its `END`, entered
by calls at its `BEGIN` and left by no jump; without it `begin_offsets.back()` may be
another function's. `VariablesDoExist` is about globals, locals and arguments: of
captured variables `verify` tests nothing. `Coverable` adds that every depth fits the 16 bits it is patched
into (`Shallow`). Of the 18,489 codes of `verified_run`'s families without closures,
18,218 are `Compiled` and all are `SmallPatterns` and `Shallow`; `VerifierInv`, the
conjunction of the invariants, was checked over all of them before it was proved.

The argument. `WalkInv`: a recorded position that is not pending is `Solved`, that
is, its successors are recorded with the depth it leaves. `PathInv`: what is
recorded is reached by a path that is shorter than the recorded positions are
many, which needs an induction over the length of paths. For the pass of `verify`,
`OpenInv` is the reason one stack of `BEGIN`s serves functions in turn, dead ones
among them: what is on top is the `BEGIN` of the position passed last, if that is
visited and its `END` still to come. `CoverInv` adds the pending maximum.

### The verified run: `VerifiedRunInvariant`, `VerifiedRunProofs`

| Theorem | Statement |
|---|---|
| `RunsVerify` | `RunSpec => Spec`: all that is proved of the verifier holds in the run |
| `RunIsFramed` | `RunSpec => []RunInv` |
| `RunsAreAsVerified` | `RunSpec => [](Traceable(program) => RunsAsVerified)` |
| `BeginChecksSuffice` | `RunSpec => [](Traceable(program) => BeginCheckSuffices)` |
| `DirectRunsAreInOrder` | `RunSpec => []DirectInOrder` |

Assumptions (`VerifiedRunAssumption`): those of `FrameRoots` on the size of the stack; the
integers include the truth values. Conditions on the code: `Traceable` is `Coverable`, and
that control enters a function only by a call or a closure and names variables by
the four designations, as `lamac` writes and `verify` partly tests. 25,154 of the
29,590 codes of the run are `Traceable`. `orderly` is a condition on the run, by the four
conjuncts of `InOrder`; `DirectRunsAreInOrder` says that it is none for a code that is
`Direct` (16,416 codes): without `CALLC`, `STI` and `STA`, and with as many arguments at a
call as its target declares.

The argument. `RunsAsVerified` speaks of the running call, but after `END` the running call
is one that was left many steps ago, and what it goes on with is read back from the
words of the stack. `Chain` therefore follows all calls: `b[k]`, `at[k]` and `free[k]` are the
frame, the position and the free slot with which the k-th goes on, and `Stands` says that
the frame above it holds just these, above the operands that its call has left. Each
call has the operands that are recorded for the position where it goes on (`Accounted`),
and room for the greatest depth of its function (`Roomy`, from the check at its `BEGIN`
and `MaxStackCovers`). A handler writes below the running frame, to its variables or to
the globals (`Kept`), so that the chain stays; `PushFrame` and `PopFrame` change its first
link. There is one lemma for each group of handlers. `DepthsConsistent` gives the next
record, `OperandsSuffice` that no operand is taken from a caller, `VariablesExist` that a
store stays in its frame, and `LayoutInv` that a function entered is one that is recorded.
A body that is not entered by the verifier has an account of its own, which says only
that it takes nothing from its caller; with its return the recorded depth is back.

`RunInv` was checked by TLC over all codes of `verified_run`, with the chain read off the
frame pointers, before it was proved; the run gave two of the conjuncts of `InOrder` and
the exception for functions without a reached `END`.

### The records of a verified run: `VerifiedRunRefinement`

| Theorem | Statement |
|---|---|
| `RunsImplementRecords` | `RunSpec /\ []InKeeping => Interpret!ImplementsActivationRecords` |
| `DirectRunsImplementRecords` | the same for a `Direct` code, with no condition on the run |

`InKeeping` is what the theorems above take: `Traceable`, `orderly`, and `OperandsSuffice` once
the code is accepted; and `Scoped`, which says what `ActivationRecords` can express: captured
variables are named in bodies of closures, which no `CALL` enters, arguments in functions
that have been passed some (not in `main`), and there is no `STI`, for which the records have no
address. 19,965 of the 25,154 traceable codes of `verified_run` are `Scoped`, 1,781 of
them with calls of closures, and 14,891 are `Direct` as well.

The argument. `Interpreter` alone does not implement the records: an operand too few and a
handler takes words of its caller. `RunInv` says that this never happens in a run in order.
The chain of frames that exists by `ChainInv` is the one the mapping reads: the frame
pointers that `Fp` follows through the memory are `b`, by induction over the number of frames
(`FpIs`), so that the k-th record is `RecordAt(b[k], at[k], free[k] + 1, arg_sizes[k])`
(`FramesAre`). The words of a record lie between the free slot of its call and its
arguments, and `Above` puts all of them above those of the calls it has made; a handler that
writes at or below a frame therefore leaves the records under it (`RecordKept`, and
`RestStays`, which follows the two chains before and after a step from a common frame on).
What is left is the innermost record. For most handlers `Leaves` gives it at once, from the
words they push; a store changes one place, which is an argument, a local or a global
and never two of these (`PlaceInside`, `PlacedStoreMaps`); a call makes the operands on top
the arguments of a new record, in reverse and by `std::reverse` in the order declared
(`CalleeRecord`), with the rest left to its caller (`CallerRecord`); `END` gives the caller
back with one operand more (`ResultPushed`). That a body finds the closure it was called
through needs a clause of `Chain`, `Called`: the free slot saved in its frame is one above the
arguments. A handler that stops is `Fault` (`StopMaps`), and `END` without a return address is
met in `main`'s frame only (`MainReturns`). While the verifier runs the records stay as
they are.

### The stack as roots: `FrameRootsProofs`

| Theorem | Property |
|---|---|
| `RootsAreFresh` | `Spec => []OnlyFreshOrLostAreStale` |
| `VariablesStayApart` | `Spec => []VariablesAreApart` |
| `HeapStaysMapped` | `Spec => []HeapIsMapped` |

Assumptions (`FrameRootsAssumption`): a string takes its bytes and a zero byte, so
that a table has fewer strings than bytes; the stack holds the table, the globals
and three words of a frame.

The argument. `ChainInv` follows the chain of frame pointers from the running frame
to `main`'s: each frame's words lie between its caller's and the next one's, so that
a word is a variable, a saved pointer, an operand, or free, and never two of them.
For `RootsAreFresh` the free words must be no stale pointers, although calls leave
them behind: a collection fixes every word from the stack's top of that moment, and
the invariant says that words below the top hold no pointer that a later frame
could take for a root before assigning it. For `HeapStaysMapped`: the sizes of what
survives are at most those of what was there (a sum over sets, by induction over
their number of elements), so that a chunk never shrinks below what `munmap`, told
words for bytes, takes from the old one's pages.

### The analyzer and the printer: `AnalyzerProofs`, `ModesProofs`

| Theorem | Statement |
|---|---|
| `Invariance` | `Spec => []IInv` |
| `TypesHold` | `Spec => []TypeOK` |
| `LabelsAreLeaders` | `Spec => []TraversalOnMarks` |
| `ReachableCollected` | `Spec => []SinglesAreReachable` |
| `StraightCollected` | `Spec => []PairsAreStraight` |
| `OccurrencesCounted` | `Spec => []CountsAreOccurrences`, of `Readable` codes |
| `ModesRunAnalyzer` | `ModesSpec => Spec` |
| `OrdersAreStrict` | `ModesSpec => []ComparatorsAreOrders`, of `Readable` codes |
| `ReadersAlike` | `ModesSpec => []ReadersAgree` |
| `ListsProgram` | `ModesSpec => []ListingIsProgram`, of `Formed` instructions |
| `ModesAreRight` | all of these properties, of `Written` codes |

Assumptions (`AnalyzerAssumption`): a code ends with the one byte that ends it, and
jumps and symbols lead into it. `Formed`: the low bits of a variable's instruction
name a designation, those of a pattern its kind. `Readable`: the cells of a code are
bytes, and instructions of the same bytes are the same. This would be a hypothesis
on the encoding, were it not for `WrittenReadable`: it holds of every code that is
`Written`, whose numbers are bytes and whose instructions of one name do not differ
in the fields that their bytes do not say. All codes of `modes` are `Written` (TLC).
That a number is one byte and not four is the abstraction of `Encoding`.

The argument. The invariant gives the bits their meaning. Bit 4 with an empty
worklist: everything control can reach from here has it, and all targets have bit
2. Bit 1: collected, or on the worklist, or where `process_label` stands, and never
two of these; so that each is collected once. A known offset that is no leader was
entered from the one before: `PairsInv` follows, with the pair it is collected in.
At the end what is known is closed, and so is what can be reached
(`ReachableIsClosed`: as many rounds as the code has positions suffice, by counting).
`Sorted` and `Runs` are recursive functions: `InductionFacts!Recursion` gives their
values step by step, and inductions over the number of steps show that sorting
permutes and orders, and that each run is all the equal ones. The order itself is
`CompareBytes`, by the first byte that differs, for which a sequence that ends is
continued by something below all bytes.
For the printer, the opcode of an instruction gives back its name for each of the
rows and families, its length is what a reader passes over, and the bytes of a code
at an offset are those of the instruction that starts there (`FlattenAt`, `CodeAt`).

`Sorted` is an insertion sort; `std::sort` may order equivalent elements in another
way when there are more than 16. The theorems do not depend on it: equivalent
elements are equal instructions, and a run is named by any of them.

### What is only model-checked

* Liveness (`CallsReturn`, `VerifyTerminates`, `ModeEnds`): beyond the prover.
* The refinements `ImplementsObjectGraph` and `ImplementsValues`. Each mapping reads an
  abstract structure off the memory by a recursive function over a graph. First-order
  inductions over numbers are proved here (`InductionFacts`: the induction schema is
  stated for sets, since no installed prover instantiates an operator), so that the
  first is not out of reach, but it is not done.
* `ImplementsActivationRecords` for code that no verifier has seen: the run
  `interpreter_refinement` checks it on programs that `lamac` could have written, and the
  theorem takes the verifier's acceptance.
* The properties of `RuntimeLibrary`: `Values` and `RuntimeLibrary` walk trees by
  `RECURSIVE` operators, in whose presence the prover has no arithmetic.

## 5. Findings

Each is a run in which TLC finds the statement violated, on one small program.

| Run | What the code says | What it does |
|---|---|---|
| `verifier_string` | "Stack at ... differs" (`Verifier.hpp:154`, `186`) | `CALL_STRING` is counted as one more word (`:39`), but its handler replaces its argument: a loop around `string` is rejected although its paths agree. |
| `verifier_pattern` | "argument number ... is too large" (`Verifier.hpp:129`) | the test is made for `ARRAY`, the pattern, which takes one operand, in place of `CALL_ARRAY`: a pattern of three elements is rejected. |
| `verifier_operands` | "Stack is exhausted at" (`Verifier.hpp:144`) | only the depth after an instruction is tested: a binary operation on one operand is accepted. |
| `frame_strings` | "queue contains only objects that are valid heap pointers (each corresponding to content of unmarked object)" (`gc.c:534`) | the constructor stores a string at `__gc_stack_top` itself (`FrameStack.hpp:53`), one word below what a collection scans: the collection that the next string makes drops it, its slot keeps the old address, and a later collection, with a chunk at that address, marks there. Already after the first of these the string of the table is lost. |
| `verified_run_overflow` | "Stack overflow at" (`call_stack_interpreters.hpp:14`) | the three words that a call pushes before `BEGIN` are in no check: at the greatest depth they are written below the stack. |

Observations that contradict no text of the repository, or that no run shows:

* `STI`, and `STA` by reference, perform `*ptr_z = *ptr_i` (`stack_ops_interpreters.hpp:53`,
  `69`), which copies from the variable to where the value leads, while the runtime's
  own store by reference goes the other way (`runtime.c:961`). In `Interpreter` such a
  store of an integer ends in "undefined".
* The link to a captured variable is the captured value and not an address
  (`FrameStack.hpp:118`): `LDA` of a capture followed by `STI` writes through it.
* `main`'s frame is pushed with no arguments, although `lamac`'s `main` declares two
  (`main.cpp:39`): an access to one would read the words above the frame.
* A function that no path ends (an endless loop, or one that fails) keeps the depth 0 in
  its `BEGIN`, since `max_stack` is written at a visited `END` (`Verifier.hpp:258`): its
  operands may be written below the stack. `MCVerifiedRun!Endless` is one.
* `STA` with a reference takes two operands (`stack_ops_interpreters.hpp:40`), with an index
  three; `get_new_stack` counts three (`Verifier.hpp:69`). After the former the run has an
  operand more than is recorded, and the check at `BEGIN` one too few.
* A jump out of the code is looked for after `collect_marks` has indexed `visited` by
  its target (`Verifier.hpp:297`).
* `mmap`'s failure is looked for after the old heap has been copied to its result
  (`gc.c:286`): in `FrameRoots` the message is reached only from an empty heap.
* `Ls__Infix_58`, a "Functional synonym for built-in operator ":"" by its comment
  (`runtime.c:82`), gives `Bsexp` the tag last (`:88`), while `Bsexp` takes its first argument
  for it (`:863`): the list's head, halved, becomes the tag, and the tag a field. This does
  contradict the comment, but only `Std.i` names the function, and nothing calls it: it is left out
  of `RuntimeLibrary` and of what `Values` promises.
* A captured variable's index is not verified (`Verifier.hpp:223` goes on to the next
  instruction): `LD` of a capture that the running closure has not, or in a function that
  is no closure, passes `verify` and reads a word that is no capture.
* A function with two `END`s: the second finds no `BEGIN` of its own on `begin_offsets`
  (`Verifier.hpp:268`) and takes an outer one, or `back()` of an empty vector.
* `~UNBOXED(q)` in `LflatCompare` is never zero (`runtime.c:616`), so that a pointer is
  never told from an integer; `set_args` computes the left side of an assignment that
  an allocation on the right may outdate (`1312`), but no one calls it; `Lread` at the
  end of the input does not look at `scanf`'s result (`1262`).
* `STRING` pushes the table's own string and not a copy (`boxing_interpreters.hpp:35`): a
  store into it is seen by every later `STRING` of that constant.
* The analyzer prints two arguments of an instruction at most, so that closures which
  differ in their captures are counted apart and printed alike (`Analyzer.hpp:351`).
* The operators of `runtime.c` and of `BINOP` compute the same on integers. On pointers
  `BINOP` compares the words for `!=` (`binop_interpreter.hpp:72`) and halves them for `-`,
  while `Ls__Infix_3361` refuses pointers (`runtime.c:117`) and `Ls__Infix_45` subtracts
  the addresses (`171`).

## 6. Not modelled, and why

* Printing, formatting, `Lsprintf`, regular expressions, files, time and random
  numbers of `runtime.c`: calls of the C library on buffers, with no state of the
  program beyond the buffer.
* `LflatCompare`, which orders addresses that any collection changes.
* `__init`, `__shutdown`, the debug build's dumps and the test helpers of `gc.c`: the
  interpreter calls none of them.
* Opening and reading the file, and the wording of listings.
* Jumps into the middle of an instruction.
* `printf.S`, `Std.i`, the build, the regression script and its examples.

## 7. Plan

Done: the collector (modelled, refined, proved), the verifier (proved), the interpreter's
frames, their composition with the verifier and with closures, and their refinement of
activation records (proved), the analyzer and the printer over bytes (proved), the stack's
words as roots and the life of chunks (proved), the runtime library against values,
arithmetic at a width. Left is one proof of what TLC has checked: that the steps of `GC`
implement those of `ObjectGraph`, by `Inv` and `CompactInv`, with the mapping's recursion over
the depth of the graph unfolded by `Recursion`.
