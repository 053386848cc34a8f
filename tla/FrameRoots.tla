------------------------------- MODULE FrameRoots -------------------------------
(***************************************************************************)
(* state/FrameStack.hpp and runtime/gc.c together: which words of          *)
(* stack_data a collection takes for roots, what becomes of the words it   *)
(* does not look at, and where the chunks of the heap lie in memory.       *)
(*                                                                         *)
(* A collection is one step here (module GC has its loops), an object is   *)
(* its size and its identity, and the program is any sequence of handlers  *)
(* that keeps to the depth and the variables the verifier checked.  The    *)
(* indices of memory are Interpreter's: it grows towards 0, top is the     *)
(* free slot.  Sizes and addresses are in words.                           *)
(***************************************************************************)
EXTENDS Integers, Sequences, FiniteSetsExt

CONSTANTS
  Tables,                  \* string tables, as the lengths of their strings
  global_area_size,
  STACK,                   \* the words of stack_data
  Lengths,                 \* the lengths of the strings made at run time
  NArgs, NLocals, Depth,   \* what functions declare, and the depth they reach
  WORD,                    \* the bytes of a word
  HEADER,                  \* the words of an object's header
  MINIMUM_HEAP_CAPACITY,
  PAGE, Pages,             \* the words of a page, the pages mmap can give
  MaxAllocs,               \* bound: strings made at run time
  MaxFrames                \* bound: calls in progress

\* A string takes its bytes and a zero byte.
BytesOf(table) == FoldFunction(LAMBDA l, n : l + 1 + n, 0, table)

\* A table has the name main.
ASSUME FrameRootsAssumption ==
  /\ Tables \subseteq Seq(Nat)
  /\ \A t \in Tables : /\ Len(t) < BytesOf(t)
                       /\ STACK - BytesOf(t) - global_area_size >= 3
  /\ {global_area_size, STACK, Depth, MINIMUM_HEAP_CAPACITY, MaxAllocs, MaxFrames} \subseteq Nat
  /\ Lengths \cup NArgs \cup NLocals \cup Pages \subseteq Nat
  /\ {WORD, HEADER, PAGE} \subseteq Nat \ {0}

VARIABLES
  strings,       \* the table of the file
  heap,          \* begin, end, current, size
  objs,          \* size and identity of the object at a header address
  mapped,        \* the pages that are mapped
  memory, top, fp,
  frames,        \* arguments and locals of each call, the innermost first
  fresh,         \* the locals reserved and not assigned yet
  built,         \* the strings the constructor has stored
  lost,          \* the strings that were the newest when it made a collection
  allocs,
  \* "building", "entering", "running", "finished", "overflow", "mmap failed", or
  \* "wrong root": mark was given a word that is not an object's, or
  \* "fault": the heap was copied to MAP_FAILED
  status

chunk == <<heap, objs, mapped>>
stack == <<memory, top, fp, frames, fresh>>
table == <<strings, built, lost>>
vars == <<chunk, stack, table, allocs, status>>

string_counter == Len(strings)
string_size == BytesOf(strings)

------------------------------------------------------------------------------
(* A word is a pointer to the contents of an object, with the identity of the *)
(* object it was made for, or a number.                                       *)

Pointer(a, id) == <<"heap", a, id>>
Number(n) == <<"number", n, 0>>
IsPointer(w) == w[1] = "heap"

Words == 0..(STACK - 1)
Content(a) == a + HEADER
ObjectSize(length) == HEADER + ((length + WORD) \div WORD)

\* is_valid_heap_pointer, for a word that is not boxed.
InHeap(w) == IsPointer(w) /\ heap.begin <= w[2] /\ w[2] <= heap.current
IsContent(w) == w[2] - HEADER \in DOMAIN objs
Denotes(w) == IsContent(w) /\ objs[w[2] - HEADER].id = w[3]

\* Mutant: the scan begins one word too high.
ScannedBelowTop == {j \in Words : j > top + 1}

\* The words gc_root_scan_stack reads and scan_and_fix_region writes.
Scanned == {j \in Words : j > top}

\* The least identity of no object and no word.
NewId == Min(1..(Cardinality(DOMAIN objs) + STACK + 1)
             \ ({objs[a].id : a \in DOMAIN objs} \cup {memory[j][3] : j \in Words}))

\* ws[1] written at t, ws[2] below it, and so on.
Written(m, t, ws) ==
  [j \in Words |-> IF t - Len(ws) < j /\ j <= t THEN ws[t - j + 1] ELSE m[j]]
Reversed(m, lo, n) ==
  [j \in Words |-> IF lo <= j /\ j < lo + n THEN m[lo + n - 1 - (j - lo)] ELSE m[j]]

------------------------------------------------------------------------------
(* Chunks and collections *)

\* The pages of a mapping of so many bytes that begins at an address.
PagesAt(begin, bytes) ==
  LET first == begin \div PAGE
  IN  first..(first + ((bytes + PAGE * WORD - 1) \div (PAGE * WORD)) - 1)
HeapPages == PagesAt(heap.begin, heap.size * WORD)

Chunk(begin, current, size) ==
  [begin |-> begin, end |-> begin + size, current |-> current, size |-> size]
NoChunk == Chunk(0, 0, 0)

\* mmap gives the highest free run of pages, or MAP_FAILED.
FreeRuns(size) == {b \in {p * PAGE : p \in Pages} :
                     PagesAt(b, size * WORD) \subseteq Pages \ mapped}
Mappings(size) == {b \in FreeRuns(size) : \A c \in FreeRuns(size) : c <= b}

\* Mutant: the old chunk is kept.
UnmappedNone(old_heap, new) == {}

\* munmap of the old chunk is given its words for bytes.
Unmapped(old_heap, new) == PagesAt(old_heap.begin, old_heap.size)

Roots == {j \in Scanned : InHeap(memory[j])}
Live == {memory[j][2] - HEADER : j \in Roots}
SizeOf(S) == MapThenSumSet(LAMBDA a : objs[a].size, S)
Forward(a, begin) == begin + SizeOf({b \in Live : b < a})

NextSize(n) == Max({2 * SizeOf(Live) + n, MINIMUM_HEAP_CAPACITY, heap.size})

\* mark_phase and compact_phase, then gc_alloc_on_existing_heap for n words: the
\* live objects slide to the chunk mapped at begin and the scanned words follow.
Collected(begin, n) ==
  LET size == NextSize(n)
      at == begin + SizeOf(Live)
      new == Chunk(begin, at + n, size)
      moved == {Forward(a, begin) : a \in Live}
      from(b) == CHOOSE a \in Live : Forward(a, begin) = b
  IN  [heap |-> new, at |-> at,
       objs |-> [b \in moved |-> objs[from(b)]],
       memory |-> [j \in Words |->
                     IF j \in Roots
                       THEN Pointer(Content(Forward(memory[j][2] - HEADER, begin)), memory[j][3])
                       ELSE memory[j]],
       mapped |-> (mapped \cup PagesAt(begin, size * WORD))
                    \ (IF heap.size = 0 THEN {} ELSE Unmapped(heap, new))]

HasRoom(n) == heap.current + n <= heap.end
InPlace(n) == [heap |-> [heap EXCEPT !.current = @ + n], at |-> heap.current,
               objs |-> objs, memory |-> memory, mapped |-> mapped]

RootsAreContents == \A j \in Roots : IsContent(memory[j])

\* What an allocation of n words may leave.
Allocated(n) == IF HasRoom(n) THEN {InPlace(n)}
                ELSE IF RootsAreContents THEN {Collected(b, n) : b \in Mappings(NextSize(n))}
                ELSE {}

\* The object is written at r.at, and its pointer w is stored by m.
Take(r, n, m) == /\ heap' = r.heap
                 /\ mapped' = r.mapped
                 /\ objs' = [a \in DOMAIN r.objs \cup {r.at} |->
                               IF a = r.at THEN [size |-> n, id |-> NewId] ELSE r.objs[a]]
                 /\ memory' = m

Fails(n) ==
  /\ ~HasRoom(n)
  /\ \/ ~RootsAreContents /\ status' = "wrong root"
     \/ /\ RootsAreContents /\ Mappings(NextSize(n)) = {}
        \* Nothing is copied from the empty heap, and the check is reached.
        /\ status' = IF heap.size = 0 THEN "mmap failed" ELSE "fault"
  /\ UNCHANGED <<chunk, stack, table, allocs>>

------------------------------------------------------------------------------
(* The constructor, and the push of main's frame by interpret. *)

\* stack_data is fresh memory, which reads as zeros.
Init ==
  /\ strings \in Tables
  /\ heap = NoChunk /\ objs = <<>> /\ mapped = {}
  /\ memory = [j \in Words |-> Number(0)] /\ top = STACK /\ fp = 0
  /\ frames = <<>> /\ fresh = {}
  /\ built = 0 /\ lost = {} /\ allocs = 0 /\ status = "building"

\* Bstring, then top is moved and the pointer stored at top itself.
BuildString ==
  /\ status = "building" /\ built < string_counter
  /\ LET n == ObjectSize(strings[built + 1])
     IN  \/ /\ \E r \in Allocated(n) :
                 Take(r, n, [r.memory EXCEPT ![top - 1] = Pointer(Content(r.at), NewId)])
            /\ top' = top - 1 /\ built' = built + 1
            /\ lost' = IF HasRoom(n) \/ built = 0 THEN lost ELSE lost \cup {memory[top][3]}
            /\ UNCHANGED <<strings, fp, frames, fresh, allocs, status>>
         \/ Fails(n)

\* push_stack_frame, the arguments in place and reversed if there are several.
Frame(n, ra) ==
  /\ memory' = Written(IF n > 1 THEN Reversed(memory, top + 1, n) ELSE memory, top,
                       <<Number(ra), Number(fp), Number(top + n)>>)
  /\ top' = top - 3 /\ fp' = top - 3

\* Mutant: the table's strings are counted, not its bytes.
StartAfterStrings == STACK - string_counter - global_area_size

\* The table takes a word for every byte of it.
START == STACK - string_size - global_area_size

EnterMain ==
  /\ status = "building" /\ built = string_counter
  /\ memory' = Written(memory, START, <<Number(0), Number(0), Number(START)>>)
  /\ top' = START - 3 /\ fp' = START - 3
  /\ frames' = <<[args |-> 0, locals |-> 0]>>
  /\ status' = "entering"
  /\ UNCHANGED <<chunk, fresh, table, allocs>>

------------------------------------------------------------------------------
(* Handlers *)

\* BEGIN follows CALL: reserve_locals moves the top over what was there.
BeginFunction ==
  /\ status = "entering"
  /\ \E n \in NLocals :
       IF top + 1 < Depth + n
         THEN status' = "overflow" /\ UNCHANGED <<stack>>
         ELSE /\ top' = top - n
              /\ frames' = [frames EXCEPT ![1].locals = n]
              /\ fresh' = fresh \cup (top - n + 1)..top
              /\ status' = "running"
              /\ UNCHANGED <<memory, fp>>
  /\ UNCHANGED <<chunk, table, allocs>>

\* A handler of the running function that finds n operands; it leaves at most
\* Depth of them.
Operands == fp - frames[1].locals - top
Handler(n, given) == /\ status = "running" /\ Operands >= n /\ Operands - n + given <= Depth

\* The next instruction, with the top n operands replaced by ws.
Exec(n, ws) == /\ Handler(n, Len(ws))
               /\ memory' = Written(memory, top + n, ws) /\ top' = top + n - Len(ws)
               /\ UNCHANGED <<chunk, fp, frames, fresh, table, allocs, status>>

Const == Exec(0, <<Number(0)>>)
Drop == Exec(1, <<>>)

StringAt(k) == STACK - k - 1
GlobalAt(k) == STACK - k - 1 - string_counter

\* STRING pushes the table's own pointer.
PushString == \E k \in 0..(string_counter - 1) : Exec(0, <<memory[StringAt(k)]>>)

Places == {GlobalAt(k) : k \in 0..(global_area_size - 1)}
  \cup {fp + 4 + k : k \in 0..(frames[1].args - 1)} \cup {fp - k : k \in 0..(frames[1].locals - 1)}

Variables == Places \cup {StringAt(k) : k \in 0..(string_counter - 1)}

\* LD, of what the program has assigned.
Load == status = "running" /\ \E j \in Places \ fresh : Exec(0, <<memory[j]>>)

Store == /\ Handler(1, 1)
         /\ \E j \in Places : /\ memory' = [memory EXCEPT ![j] = memory[top + 1]]
                              /\ fresh' = fresh \ {j}
         /\ UNCHANGED <<chunk, top, fp, frames, table, allocs, status>>

\* CALL_STRING: the operand stays on the stack while its string is made.
ToString ==
  /\ Handler(1, 1) /\ allocs < MaxAllocs
  /\ \E l \in Lengths :
       LET n == ObjectSize(l)
       IN  \/ /\ \E r \in Allocated(n) :
                   Take(r, n, [r.memory EXCEPT ![top + 1] = Pointer(Content(r.at), NewId)])
              /\ allocs' = allocs + 1
              /\ UNCHANGED <<top, fp, frames, fresh, table, status>>
           \/ Fails(n)

Call == /\ Len(frames) < MaxFrames
        /\ \E n \in NArgs : /\ Handler(n, 0)
                            /\ Frame(n, 1)
                            /\ frames' = <<[args |-> n, locals |-> 0]>> \o frames
        /\ status' = "entering"
        /\ UNCHANGED <<chunk, fresh, table, allocs>>

\* pop_stack_frame; the result is pushed where the arguments began.
EndFunction ==
  /\ Handler(1, 0)
  /\ IF Len(frames) = 1
       THEN status' = "finished" /\ UNCHANGED <<stack>>
       ELSE LET back == memory[fp + 1][2]
            IN  /\ memory' = Written(memory, back, <<memory[top + 1]>>)
                /\ top' = back - 1 /\ fp' = memory[fp + 2][2]
                /\ frames' = Tail(frames)
                /\ fresh' = {j \in fresh : j > back}
                /\ UNCHANGED status
  /\ UNCHANGED <<chunk, table, allocs>>

------------------------------------------------------------------------------
Ended == status \notin {"building", "entering", "running"} /\ UNCHANGED vars

Next == \/ BuildString \/ EnterMain \/ BeginFunction \/ Const \/ Drop \/ PushString
        \/ Load \/ Store \/ ToString \/ Call \/ EndFunction \/ Ended

Spec == Init /\ [][Next]_vars
------------------------------------------------------------------------------
(* Properties *)

\* Every word a collection would look at denotes the object it was made for, with
\* two exceptions.  reserve_locals uncovers words of calls that have ended, which
\* no collection has followed since; and a collection the constructor makes loses
\* the newest string, whose slot is at the top itself.
OnlyFreshOrLostAreStale ==
  \A j \in Scanned : LET w == memory[j]
                     IN  IsPointer(w) => Denotes(w) \/ j \in fresh \/ w[3] \in lost

\* The variables of the running function, the globals and the string table are
\* all above the free slot and apart from the frame's three words, though the
\* globals are placed by the number of strings and the top by their bytes.
VariablesAreApart ==
  status = "running" =>
    /\ Variables \subseteq Scanned
    /\ Variables \cap (fp + 1)..(fp + 3) = {}

\* The pages of the heap are mapped, though munmap runs on chunks of other sizes;
\* and though it is given words for bytes, pages are left behind only once the heap
\* has outgrown a page.
HeapIsMapped ==
  /\ HeapPages \subseteq mapped
  /\ heap.size <= PAGE => mapped = HeapPages

\* mark's comment, gc.c:534: the queue contains only valid heap pointers, each to
\* the contents of an object.
QueueOfObjects == status # "wrong root"
================================================================================
