--------------------------------- MODULE GC ---------------------------------
(***************************************************************************)
(* The mark-compact collector of runtime/gc.c (LISP2 sliding compaction    *)
(* into a freshly mapped chunk) with the calls of runtime/runtime.c that   *)
(* allocate through it, at the grain of one iteration of each of its       *)
(* loops.  The client -- the stack machine -- is the most general one that *)
(* keeps the collector's contract: every word of its stack is unboxed, a   *)
(* pointer into C memory, or the content pointer of a live object.         *)
(*                                                                         *)
(* Addresses.  A machine word is two address units, which is enough for a  *)
(* pointer's bit 0 to be clear and an unboxed word's to be set.  An object *)
(* with header at address a occupies                                       *)
(*     a              data_header    objs[a].tag, Len(objs[a].body)        *)
(*     a + WORD       forward_address: its address part fwd[a], its mark   *)
(*                    bit a \in marked, its queue bit a \in enqueued       *)
(*     Content(a)..   contents       objs[a].body, one entry per word      *)
(* objs[a].id is the debug build's identity of the object; nothing in the  *)
(* collector reads it.                                                     *)
(***************************************************************************)
EXTENDS Integers, Sequences, FiniteSets

CONSTANTS
  Bases,          \* addresses at which mmap may place a chunk
  CWords,         \* pointers into C memory that a stack slot may hold (0 is NULL)
  CString,        \* the C string pointer handed to Bstring
  UnboxedWords,   \* unboxed words the client computes with
  Strings,        \* contents of strings, as sequences of machine words
  MINIMUM_HEAP_CAPACITY, MAX_EXTRA_ROOTS_NUMBER,
  MaxStack,       \* bound: words on the client's stack
  MaxAllocs       \* bound: objects ever allocated

WORD == 2
DATA_HEADER_SZ == 2 * WORD
EXTRA_ROOM_HEAP_COEFFICIENT == 2

\* A chunk lies above every word that points into C memory, so none of them
\* looks like a pointer into the heap.
ASSUME GCAssumption ==
  /\ MINIMUM_HEAP_CAPACITY \in Nat
  /\ MAX_EXTRA_ROOTS_NUMBER \in Nat
  /\ Bases \subseteq Nat
  /\ CWords \cup {CString} \subseteq Nat
  /\ UnboxedWords \subseteq Nat
  /\ Strings \subseteq Seq(Nat)
  /\ CString > 0
  /\ \A b \in Bases, w \in CWords \cup {CString} : w < b
  /\ \A w \in CWords \cup {CString} : w % 2 = 0
  /\ \A w \in UnboxedWords : w % 2 = 1
  /\ \A b \in Bases : b % 2 = 0

VARIABLES
  heap, old_heap,            \* memory_chunk: begin, end, current in addresses, size in words
  objs, fwd, marked, enqueued,
  cur_id,
  stack,                     \* stack[1] is the word at __gc_stack_top + 1
  cells,                     \* words outside the stack whose addresses become extra roots
  extra_roots,               \* a stack index, ARG or CONTENT for each root
  req,                       \* the runtime call in progress
  res,                       \* the header alloc returned to it
  pc,
  root,                      \* mark_phase: index of the root being marked
  q_head_iter, q_tail_iter,  \* mark: the queue kept in forward addresses
  cur_obj, field,            \* mark: the object being scanned and its next field
  scan, free_ptr             \* compact_phase: heap iterator and next free word

memory == <<objs, fwd, marked, enqueued>>
chunks == <<heap, old_heap>>
roots  == <<stack, cells, extra_roots>>
call   == <<req, res, cur_id>>
queue  == <<q_head_iter, q_tail_iter, cur_obj, field>>
slide  == <<scan, free_ptr>>
vars   == <<memory, chunks, roots, call, pc, root, queue, slide>>

ARG == -1        \* the cell call_string allocates for a boxed argument
CONTENT == -2    \* the local variable content of Lstring
NoChunk == [begin |-> 0, end |-> 0, current |-> 0, size |-> 0]
NoCall  == [tag |-> "string", n |-> 0, roots |-> <<>>, str |-> <<>>]

UNBOXED(w) == w % 2 = 1
UNBOX(w)   == w \div 2

Content(a) == a + DATA_HEADER_SZ      \* get_object_content_ptr
Header(p)  == p - DATA_HEADER_SZ      \* get_obj_header_ptr
\* Mutant: the size of an s-expression forgets its tag.
ObjSizeWithoutTag(a) ==
  DATA_HEADER_SZ + WORD * (IF objs[a].tag = "sexp" THEN Len(objs[a].body) - 1 ELSE Len(objs[a].body))

ObjSize(a) == DATA_HEADER_SZ + WORD * Len(objs[a].body)
NextObj(a) == a + ObjSize(a)          \* heap_next_obj_iterator

\* The fields of an object that may hold pointers: not the bytes of a string,
\* not the tag of an s-expression nor the code offset of a closure.
PtrFields(o) == CASE o.tag = "string" -> {}
                  [] o.tag \in {"closure", "sexp"} -> 2..Len(o.body)
                  [] OTHER -> DOMAIN o.body

IsValidHeapPointer(w) == ~UNBOXED(w) /\ heap.begin <= w /\ w <= heap.current
Maximum(x, y) == IF x > y THEN x ELSE y
\* Mutant: the arguments are left in the order they were pushed.
ReversedNot(s, n) == s

Reversed(s, n) == [i \in 1..Len(s) |-> IF i <= n THEN s[n + 1 - i] ELSE s[i]]

Deref(x) == IF x = ARG THEN cells.arg ELSE IF x = CONTENT THEN cells.content ELSE stack[x]
RootWords == stack \o [i \in 1..Len(extra_roots) |-> Deref(extra_roots[i])]

\* main calls neither __gc_init nor __init: heap and the pool are static, and zero.
Init ==
  /\ heap = NoChunk /\ old_heap = NoChunk
  /\ objs = <<>> /\ fwd = <<>> /\ marked = {} /\ enqueued = {}
  /\ cur_id = 0
  /\ stack = <<>> /\ cells = [arg |-> CString, content |-> CString] /\ extra_roots = <<>>
  /\ req = NoCall /\ res = 0 /\ pc = "client" /\ root = 0
  /\ q_head_iter = 0 /\ q_tail_iter = 0 /\ cur_obj = 0 /\ field = 0
  /\ scan = 0 /\ free_ptr = 0
------------------------------------------------------------------------------
(* The client between two calls. *)

ClientOnly == /\ pc = "client"
              /\ UNCHANGED <<fwd, marked, enqueued, chunks, cells, extra_roots, call, pc,
                             root, queue, slide>>

\* CONST, LDA, the words of a frame, a slot reserved and not yet assigned.  The
\* heap is a null chunk until the first allocation, which is made for the string
\* table, before the first slot that may hold NULL is reserved.
Push == /\ ClientOnly
        /\ Len(stack) < MaxStack
        /\ \E w \in UnboxedWords \cup CWords : /\ w = 0 => heap.size # 0
                                               /\ stack' = <<w>> \o stack
        /\ UNCHANGED objs

\* LD, DUP: a word of the stack is copied.
Dup == /\ ClientOnly
       /\ Len(stack) < MaxStack
       /\ \E i \in DOMAIN stack : stack' = <<stack[i]>> \o stack
       /\ UNCHANGED objs

\* The words of the stack that point to objects.
Objects == {i \in DOMAIN stack : IsValidHeapPointer(stack[i])}

\* ELEM: a field of an object is pushed.
Belem == /\ ClientOnly
         /\ Len(stack) < MaxStack
         /\ \E i \in Objects : \E k \in PtrFields(objs[Header(stack[i])]) :
              stack' = <<objs[Header(stack[i])].body[k]>> \o stack
         /\ UNCHANGED objs

\* DROP, END.
Pop == /\ ClientOnly
       /\ stack # <<>>
       /\ stack' = Tail(stack)
       /\ UNCHANGED objs

\* STA into an array, an s-expression or a closure.
Bsta == /\ ClientOnly
        /\ \E i \in Objects, j \in DOMAIN stack : \E k \in PtrFields(objs[Header(stack[i])]) :
             objs' = [objs EXCEPT ![Header(stack[i])].body[k] = stack[j]]
        /\ UNCHANGED stack

\* STA into a string: its length does not change.
BstaString == /\ ClientOnly
              /\ \E i \in Objects, str \in Strings :
                   /\ objs[Header(stack[i])].tag = "string"
                   /\ Len(objs[Header(stack[i])].body) = Len(str)
                   /\ objs' = [objs EXCEPT ![Header(stack[i])].body = str]
              /\ UNCHANGED stack

\* A call to the runtime: its arguments are the n words on top of the stack s.
Call(tag, n, s, rts, str) ==
  /\ pc = "client"
  /\ cur_id < MaxAllocs
  /\ stack' = s
  /\ req' = [tag |-> tag, n |-> n, roots |-> rts, str |-> str]
  /\ pc' = "push_roots"
  /\ UNCHANGED <<memory, chunks, extra_roots, res, cur_id, root, queue, slide>>

Indices(m, n) == [i \in 1..(n + 1 - m) |-> m + i - 1]

\* call_array: the arguments are reversed in place, all of them are registered.
Barray == \E n \in 0..Len(stack) :
            /\ Call("array", n, Reversed(stack, n), Indices(1, n), <<>>)
            /\ UNCHANGED cells

\* boxing_sexp pushes the tag's hash and closures_create the code offset; the
\* runtime registers the arguments but not that word.
BsexpOrBclosure ==
  \E tag \in {"sexp", "closure"}, n \in 0..Len(stack), w \in UnboxedWords :
    /\ Len(stack) < MaxStack
    /\ Call(tag, n + 1, <<w>> \o stack, Indices(2, n + 1), <<>>)
    /\ UNCHANGED cells

\* FrameStack's constructor: the C string's pointer is registered as a root.  The new
\* string gets a word of the scanned stack here; that the constructor's own is one
\* below it is FrameRoots' affair.
Bstring == \E str \in Strings :
             /\ Len(stack) < MaxStack
             /\ Call("string", 0, stack, <<CONTENT>>, str)
             /\ UNCHANGED cells

\* call_string: a boxed argument is copied to a cell of its own, whose address
\* is the root; an unboxed one is registered where it is on the stack.
Lstring == \E str \in Strings :
             /\ stack # <<>>
             /\ Call("string", 1, stack, <<IF UNBOXED(stack[1]) THEN 1 ELSE ARG, CONTENT>>, str)
             /\ cells' = IF UNBOXED(stack[1]) THEN cells ELSE [cells EXCEPT !.arg = stack[1]]
------------------------------------------------------------------------------
(* The runtime call: register the roots, allocate, fill, pop the roots. *)

PushExtraRoot ==
  /\ pc = "push_roots"
  /\ Len(extra_roots) < Len(req.roots)
  /\ IF Len(extra_roots) >= MAX_EXTRA_ROOTS_NUMBER
     THEN pc' = "exit" /\ UNCHANGED extra_roots
     ELSE /\ extra_roots' = Append(extra_roots, req.roots[Len(extra_roots) + 1])
          /\ UNCHANGED pc
  /\ UNCHANGED <<memory, chunks, stack, cells, call, root, queue, slide>>

ReqLen  == IF req.tag = "string" THEN Len(req.str) ELSE req.n      \* words of content
ReqSize == 2 + ReqLen                                              \* words to allocate

Fits == heap.current + WORD * ReqSize <= heap.end

\* gc_alloc_on_existing_heap, and the header that alloc_array, alloc_sexp,
\* alloc_closure or alloc_string writes.
Alloc ==
  /\ \/ pc = "push_roots" /\ Len(extra_roots) = Len(req.roots)
     \/ pc = "retry"
  /\ Fits
  /\ cur_id' = cur_id + 1
  /\ res' = heap.current
  /\ heap' = [heap EXCEPT !.current = @ + WORD * ReqSize]
  /\ objs' = [a \in DOMAIN objs \cup {heap.current} |->
                IF a = heap.current
                THEN [tag |-> req.tag, id |-> cur_id + 1, body |-> [i \in 1..ReqLen |-> 0]]
                ELSE objs[a]]
  /\ fwd' = [a \in DOMAIN fwd \cup {heap.current} |-> IF a = heap.current THEN 0 ELSE fwd[a]]
  /\ pc' = "fill"
  /\ UNCHANGED <<old_heap, marked, enqueued, roots, req, root, queue, slide>>

\* Mutant: the members of an s-expression are stored in the stack's order.
FilledAsOnStack == LET args == SubSeq(stack, 1, req.n)
                   IN  CASE req.tag = "string" -> req.str
                         [] req.tag = "sexp" -> <<UNBOX(args[1])>> \o SubSeq(args, 1, req.n - 1)
                         [] OTHER -> args

\* The arguments are read from the stack after the allocation: a collection
\* has updated them there.
Filled == LET args == SubSeq(stack, 1, req.n)
          IN  CASE req.tag = "string" -> req.str
                [] req.tag = "sexp" -> <<UNBOX(args[1])>> \o
                                       SubSeq(Reversed(args, req.n), 1, req.n - 1)
                [] OTHER -> args

Fill ==
  /\ pc = "fill"
  /\ objs' = [objs EXCEPT ![res].body = Filled]
  /\ pc' = "pop_roots"
  /\ UNCHANGED <<fwd, marked, enqueued, chunks, roots, call, root, queue, slide>>

PopExtraRoot ==
  /\ pc = "pop_roots"
  /\ extra_roots # <<>>
  /\ extra_roots[Len(extra_roots)] = req.roots[Len(extra_roots)]
  /\ extra_roots' = SubSeq(extra_roots, 1, Len(extra_roots) - 1)
  /\ UNCHANGED <<memory, chunks, stack, cells, call, pc, root, queue, slide>>

\* The interpreter pops the arguments and pushes the object.
Return ==
  /\ pc = "pop_roots"
  /\ extra_roots = <<>>
  /\ stack' = <<Content(res)>> \o SubSeq(stack, req.n + 1, Len(stack))
  /\ cells' = [arg |-> CString, content |-> CString]
  /\ req' = NoCall /\ res' = 0
  /\ pc' = "client"
  /\ UNCHANGED <<memory, chunks, extra_roots, cur_id, root, queue, slide>>

\* "extra_roots_pool overflow": the process has exited.
Exited == pc = "exit" /\ UNCHANGED vars
------------------------------------------------------------------------------
(* mark_phase: every word of the stack, then every extra root, is marked from. *)

\* Mutant: the scan of the stack starts one word too far.
GcAllocSkipsTop ==
  /\ pc = "push_roots"
  /\ Len(extra_roots) = Len(req.roots)
  /\ ~Fits
  /\ pc' = "scan_roots"
  /\ root' = 2
  /\ UNCHANGED <<memory, chunks, roots, call, queue, slide>>

GcAlloc ==
  /\ pc = "push_roots"
  /\ Len(extra_roots) = Len(req.roots)
  /\ ~Fits
  /\ pc' = "scan_roots"
  /\ root' = 1
  /\ UNCHANGED <<memory, chunks, roots, call, queue, slide>>

\* Mutant: the queue bit is set in the word of the content pointer.
EnqueueAtContent(tail, p) ==
  /\ fwd' = [fwd EXCEPT ![tail] = p]
  /\ enqueued' = enqueued \cup {p}
  /\ q_tail_iter' = NextObj(tail)

\* queue_enqueue: p is written into the forward address of the object at the tail.
Enqueue(tail, p) ==
  /\ fwd' = [fwd EXCEPT ![tail] = p]
  /\ enqueued' = enqueued \cup {Header(p)}
  /\ q_tail_iter' = NextObj(tail)

MarkRoot ==
  /\ pc = "scan_roots"
  /\ root <= Len(RootWords)
  /\ LET p == RootWords[root]
     IN  IF ~IsValidHeapPointer(p) \/ Header(p) \in marked
         THEN /\ root' = root + 1
              /\ UNCHANGED <<fwd, enqueued, q_head_iter, q_tail_iter, pc>>
         ELSE /\ q_head_iter' = heap.begin
              /\ Enqueue(heap.begin, p)
              /\ pc' = "mark"
              /\ UNCHANGED root
  /\ UNCHANGED <<objs, marked, chunks, roots, call, cur_obj, field, slide>>

\* Mutants: the queue bit is not cleared; the head of the queue does not advance.
DequeueKeepsBit ==
  /\ pc = "mark" /\ cur_obj = 0
  /\ q_head_iter # q_tail_iter
  /\ cur_obj' = fwd[q_head_iter]
  /\ marked' = marked \cup {Header(cur_obj')}
  /\ q_head_iter' = NextObj(q_head_iter)
  /\ field' = 1
  /\ UNCHANGED <<objs, fwd, enqueued, chunks, roots, call, pc, root, q_tail_iter, slide>>
DequeueKeepsHead ==
  /\ pc = "mark" /\ cur_obj = 0
  /\ q_head_iter # q_tail_iter
  /\ cur_obj' = fwd[q_head_iter]
  /\ enqueued' = enqueued \ {Header(cur_obj')}
  /\ marked' = marked \cup {Header(cur_obj')}
  /\ field' = 1
  /\ UNCHANGED <<objs, fwd, chunks, roots, call, pc, root, q_head_iter, q_tail_iter, slide>>

\* queue_dequeue and mark_object; cur_obj is 0 between two objects.
Dequeue ==
  /\ pc = "mark" /\ cur_obj = 0
  /\ q_head_iter # q_tail_iter
  /\ cur_obj' = fwd[q_head_iter]
  /\ enqueued' = enqueued \ {Header(cur_obj')}
  /\ marked' = marked \cup {Header(cur_obj')}
  /\ q_head_iter' = NextObj(q_head_iter)
  /\ field' = 1
  /\ UNCHANGED <<objs, fwd, chunks, roots, call, pc, root, q_tail_iter, slide>>

ScanField ==
  /\ pc = "mark" /\ cur_obj # 0
  /\ field <= Len(objs[Header(cur_obj)].body)
  /\ LET o == objs[Header(cur_obj)]
         p == o.body[field]
     IN  IF /\ field \in PtrFields(o)
            /\ IsValidHeapPointer(p)
            /\ Header(p) \notin marked \cup enqueued
         THEN Enqueue(q_tail_iter, p)
         ELSE UNCHANGED <<fwd, enqueued, q_tail_iter>>
  /\ field' = field + 1
  /\ UNCHANGED <<objs, marked, chunks, roots, call, pc, root, q_head_iter, cur_obj, slide>>

FieldsDone ==
  /\ pc = "mark" /\ cur_obj # 0
  /\ field > Len(objs[Header(cur_obj)].body)
  /\ cur_obj' = 0 /\ field' = 0
  /\ UNCHANGED <<memory, chunks, roots, call, pc, root, q_head_iter, q_tail_iter, slide>>

QueueEmpty ==
  /\ pc = "mark" /\ cur_obj = 0
  /\ q_head_iter = q_tail_iter
  /\ pc' = "scan_roots"
  /\ root' = root + 1
  /\ q_head_iter' = 0 /\ q_tail_iter' = 0
  /\ UNCHANGED <<memory, chunks, roots, call, cur_obj, field, slide>>

MarkPhaseDone ==
  /\ pc = "scan_roots"
  /\ root > Len(RootWords)
  /\ pc' = "compute"
  /\ root' = 0
  /\ scan' = heap.begin /\ free_ptr' = heap.begin
  /\ UNCHANGED <<memory, chunks, roots, call, queue>>
------------------------------------------------------------------------------
(* compact_phase *)

\* Mutant: garbage is given a place too.
ComputeLocationOfAll ==
  /\ pc = "compute"
  /\ scan < heap.current
  /\ fwd' = [fwd EXCEPT ![scan] = free_ptr]
  /\ free_ptr' = free_ptr + ObjSize(scan)
  /\ scan' = NextObj(scan)
  /\ UNCHANGED <<objs, marked, enqueued, chunks, roots, call, pc, root, queue>>

ComputeLocation ==
  /\ pc = "compute"
  /\ scan < heap.current
  /\ IF scan \in marked
     THEN /\ fwd' = [fwd EXCEPT ![scan] = free_ptr]
          /\ free_ptr' = free_ptr + ObjSize(scan)
     ELSE UNCHANGED <<fwd, free_ptr>>
  /\ scan' = NextObj(scan)
  /\ UNCHANGED <<objs, marked, enqueued, chunks, roots, call, pc, root, queue>>

LiveSize == (free_ptr - heap.begin) \div WORD      \* what compute_locations returns
\* Mutant: the new chunk is sized for what is live, not for the request.
NextHeapSizeOfLive == Maximum(LiveSize * EXTRA_ROOM_HEAP_COEFFICIENT, MINIMUM_HEAP_CAPACITY)

NextHeapSize == Maximum(LiveSize * EXTRA_ROOM_HEAP_COEFFICIENT + ReqSize, MINIMUM_HEAP_CAPACITY)
NextHeapPseudoSize == Maximum(NextHeapSize, heap.size)

\* The new chunk is mapped while the old one still is, and gets a copy of it.
\* free_ptr now counts from the new chunk: begin + live_size.
MapNewHeap ==
  /\ pc = "compute"
  /\ scan >= heap.current
  /\ \E b \in Bases :
       LET at(a)   == a - b + heap.begin
           copy(S) == {a + b - heap.begin : a \in S}
       IN  /\ b + WORD * NextHeapPseudoSize <= heap.begin \/ heap.end <= b
           /\ heap' = [begin |-> b, end |-> b + WORD * NextHeapPseudoSize,
                       current |-> b + (heap.current - heap.begin), size |-> NextHeapPseudoSize]
           /\ objs' = [a \in copy(DOMAIN objs) |-> objs[at(a)]]
           /\ fwd' = [a \in copy(DOMAIN objs) |-> fwd[at(a)]]
           /\ marked' = copy(marked)
           /\ enqueued' = copy(enqueued)
           /\ scan' = b
           /\ free_ptr' = b + (free_ptr - heap.begin)
  /\ old_heap' = heap
  /\ pc' = "update"
  /\ UNCHANGED <<roots, call, root, queue>>

\* Where the object at a moves to, and where a pointer into the old chunk leads.
NewAddress(a) == heap.begin + (fwd[a] - old_heap.begin)
InOldHeap(w) == ~UNBOXED(w) /\ old_heap.begin <= w /\ w <= old_heap.current
\* Mutant: a fixed pointer leads to the header.
FixedToHeader(w) == IF InOldHeap(w)
                    THEN NewAddress(Header(heap.begin + (w - old_heap.begin)))
                    ELSE w

Fixed(w) == IF InOldHeap(w)
            THEN Content(NewAddress(Header(heap.begin + (w - old_heap.begin))))
            ELSE w

UpdateObject ==
  /\ pc = "update"
  /\ scan < heap.current
  /\ IF scan \in marked
     THEN objs' = [objs EXCEPT ![scan].body =
                     [k \in DOMAIN @ |-> IF k \in PtrFields(objs[scan])
                                         THEN Fixed(@[k]) ELSE @[k]]]
     ELSE UNCHANGED objs
  /\ scan' = NextObj(scan)
  /\ UNCHANGED <<fwd, marked, enqueued, chunks, roots, call, pc, root, queue, free_ptr>>

\* Mutant: the extra roots outside the stack are not fixed.
IsExtraRootNever(x) == FALSE

\* scan_and_fix_region over the stack, then scan_and_fix_region_roots, which
\* leaves alone the extra roots that are words of the stack.
IsExtraRoot(x) == \E i \in DOMAIN extra_roots : extra_roots[i] = x
UpdateRoots ==
  /\ pc = "update"
  /\ scan >= heap.current
  /\ stack' = [i \in DOMAIN stack |-> Fixed(stack[i])]
  /\ cells' = [arg     |-> IF IsExtraRoot(ARG) THEN Fixed(cells.arg) ELSE cells.arg,
               content |-> IF IsExtraRoot(CONTENT) THEN Fixed(cells.content) ELSE cells.content]
  /\ scan' = heap.begin
  /\ pc' = "relocate"
  /\ UNCHANGED <<memory, chunks, extra_roots, call, root, queue, free_ptr>>

\* memmove overwrites whatever has a word in [to, to + size).
Overwritten(to, size) == {a \in DOMAIN objs : a < to + size /\ to < NextObj(a)}

Relocate ==
  /\ pc = "relocate"
  /\ scan < heap.current
  /\ IF scan \in marked
     THEN LET to   == NewAddress(scan)
              kept == (DOMAIN objs \ Overwritten(to, ObjSize(scan))) \cup {to}
              move(f) == [a \in kept |-> IF a = to THEN f[scan] ELSE f[a]]
          IN  /\ objs' = move(objs)
              /\ fwd' = move(fwd)
              /\ marked' = (marked \cap kept) \ {to}
              /\ enqueued' = IF scan \in enqueued THEN (enqueued \cap kept) \cup {to}
                                                  ELSE (enqueued \cap kept) \ {to}
     ELSE UNCHANGED memory
  /\ scan' = NextObj(scan)
  /\ UNCHANGED <<chunks, roots, call, pc, root, queue, free_ptr>>

\* The heap ends where the live objects do; the old chunk is unmapped.
CompactPhaseDone ==
  /\ pc = "relocate"
  /\ scan >= heap.current
  /\ heap' = [heap EXCEPT !.current = free_ptr]
  /\ LET live == {a \in DOMAIN objs : a < free_ptr}
     IN  /\ objs' = [a \in live |-> objs[a]]
         /\ fwd' = [a \in live |-> fwd[a]]
         /\ marked' = marked \cap live
         /\ enqueued' = enqueued \cap live
  /\ old_heap' = NoChunk
  /\ scan' = 0 /\ free_ptr' = 0
  /\ pc' = "retry"
  /\ UNCHANGED <<roots, call, root, queue>>
------------------------------------------------------------------------------
Client == Push \/ Dup \/ Belem \/ Pop \/ Bsta \/ BstaString
            \/ Barray \/ BsexpOrBclosure \/ Bstring \/ Lstring
Mark   == MarkRoot \/ Dequeue \/ ScanField \/ FieldsDone \/ QueueEmpty \/ MarkPhaseDone
Compact == ComputeLocation \/ MapNewHeap \/ UpdateObject \/ UpdateRoots \/ Relocate
             \/ CompactPhaseDone
Runtime == PushExtraRoot \/ Alloc \/ GcAlloc \/ Mark \/ Compact \/ Fill \/ PopExtraRoot \/ Return

Next == Client \/ Runtime \/ Exited

Spec == Init /\ [][Next]_vars

\* A call to the runtime is ordinary sequential code: it keeps running.
FairSpec == Spec /\ WF_vars(Runtime)
-----------------------------------------------------------------------------
(* Properties *)

Tags == {"array", "sexp", "closure", "string"}
Chunk == [begin : Nat, end : Nat, current : Nat, size : Nat]
HeapObject == [tag : Tags, id : Nat, body : Seq(Nat)]

\* Every variable has its type; forward addresses and bits belong to objects.
TypeOK ==
  /\ heap \in Chunk /\ old_heap \in Chunk
  /\ IsFiniteSet(DOMAIN objs) /\ DOMAIN objs \subseteq Nat
  /\ \A a \in DOMAIN objs : objs[a] \in HeapObject
  /\ fwd \in [DOMAIN objs -> Nat]
  /\ marked \subseteq DOMAIN objs /\ enqueued \subseteq DOMAIN objs
  /\ cur_id \in Nat
  /\ stack \in Seq(Nat) /\ cells \in [arg : Nat, content : Nat]
  /\ extra_roots \in Seq(Int)
  /\ req \in [tag : Tags, n : Nat, roots : Seq(Int), str : Seq(Nat)]
  /\ res \in Nat /\ root \in Nat
  /\ pc \in {"client", "push_roots", "exit", "scan_roots", "mark", "compute", "update",
             "relocate", "retry", "fill", "pop_roots"}
  /\ q_head_iter \in Nat /\ q_tail_iter \in Nat /\ cur_obj \in Nat /\ field \in Nat
  /\ scan \in Nat /\ free_ptr \in Nat

\* mark keeps its queue in the forward addresses of the objects themselves
\* (gc.c 528-530) and never tests for the end of the heap: when it is about to
\* enqueue an object, the tail of the queue must still stand on one.
AboutToEnqueue ==
  /\ pc = "mark" /\ cur_obj # 0
  /\ LET o == objs[Header(cur_obj)]
     IN  /\ field \in PtrFields(o)
         /\ IsValidHeapPointer(o.body[field])
         /\ Header(o.body[field]) \notin marked \cup enqueued
QueueHasRoom == AboutToEnqueue => q_tail_iter \in DOMAIN objs

\* The queue's invariant that gc.c states (534-535, 547-548): the queue holds
\* only valid, unmarked objects, and each of them once.
InQueue == {a \in DOMAIN objs : q_head_iter <= a /\ a < q_tail_iter}
QueueInvariant ==
  pc = "mark" => /\ \A a \in InQueue : Header(fwd[a]) \in enqueued \ marked
                 /\ \A a, b \in InQueue : fwd[a] = fwd[b] => a = b
                 /\ enqueued = {Header(fwd[a]) : a \in InQueue}

\* The objects that the words of S point to, in the chunk in use.
Targets(S) == {Header(w) : w \in {x \in S : IsValidHeapPointer(x)}}
FieldWords(a) == {objs[a].body[k] : k \in PtrFields(objs[a])}
RootSet == {RootWords[i] : i \in DOMAIN RootWords}
ClosedUnderFields(S) == \A a \in S : Targets(FieldWords(a)) \subseteq S
\* The least set with the roots' objects that is closed under fields.
ReachableObjs == {a \in DOMAIN objs : \A S \in SUBSET DOMAIN objs :
                    Targets(RootSet) \subseteq S /\ ClosedUnderFields(S) => a \in S}

\* When marking ends, exactly the reachable objects carry the mark bit: a missed
\* one would be overwritten by the compaction, an extra one would be garbage
\* whose fields are followed later.
MarkedIsReachable == pc = "compute" /\ scan = heap.begin => marked = ReachableObjs

\* The walk over the heap stands on the header of an object until it reaches the
\* end, in each of the compaction's passes, including the one that overwrites
\* objects while it walks.
WalkOnHeaders ==
  pc \in {"compute", "update", "relocate"} => scan \in DOMAIN objs \/ scan = heap.current

\* An allocation repeated after a collection finds room: gc_alloc returns the
\* result of gc_alloc_on_existing_heap unchecked, and alloc_array and the like
\* write a header through it.
CollectionMakesRoom == pc = "retry" => Fits

\* A finished collection leaves no garbage, no bit set, and what is left in the
\* order it was allocated in (sliding, not copying).
CompactedHeap ==
  pc = "retry" => /\ DOMAIN objs = ReachableObjs
                  /\ marked = {} /\ enqueued = {}
                  /\ \A a, b \in DOMAIN objs : a < b => objs[a].id < objs[b].id

\* Between two calls no root is registered, every boxed word in the heap's range
\* that the client can read is an object of the heap, and the objects tile
\* the part of the heap in use.
HeapSound ==
  pc = "client" =>
    /\ extra_roots = <<>>
    /\ Targets(RootSet) \subseteq DOMAIN objs
    /\ \A a \in DOMAIN objs : /\ Targets(FieldWords(a)) \subseteq DOMAIN objs
                              /\ NextObj(a) \in DOMAIN objs \cup {heap.current}
    /\ heap.begin \in DOMAIN objs \cup {heap.current}

\* A runtime call returns: the mark loop and each walk end.  Only a call whose own
\* arguments are more than the pool of roots holds ends the process: the calls before
\* it, and the pool's limit, leave room for all others.
CallsReturn ==
  /\ (pc = "push_roots" /\ Len(req.roots) <= MAX_EXTRA_ROOTS_NUMBER) ~> pc = "client"
  /\ (pc = "push_roots" /\ Len(req.roots) > MAX_EXTRA_ROOTS_NUMBER) ~> pc = "exit"
==============================================================================
