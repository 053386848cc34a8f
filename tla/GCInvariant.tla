----------------------------- MODULE GCInvariant -----------------------------
(***************************************************************************)
(* The inductive invariant of GC: what holds of the heap, the roots, the   *)
(* queue and the walks at every step, in the middle of a collection too.   *)
(* GCProofs proves it inductive and derives GC's safety properties from    *)
(* it; a run checks it.                                                    *)
(***************************************************************************)
EXTENDS GC

Dom == DOMAIN objs
StackWords == {stack[i] : i \in DOMAIN stack}

\* A word below every chunk: NULL, a pointer into C memory.
Small(w) == \A b \in Bases : w < b

\* pc outside the two passes in which some words lead elsewhere.
Settled == pc \notin {"update", "relocate"}
Collecting == pc \in {"scan_roots", "mark", "compute", "update", "relocate", "retry"}

\* The chunk: none before the first collection.
ChunkInv ==
  /\ heap.end = heap.begin + WORD * heap.size
  /\ heap.begin <= heap.current /\ heap.current <= heap.end
  /\ heap.begin \in Bases \/ heap = NoChunk
  /\ heap.size = 0 => heap = NoChunk
  /\ heap = NoChunk => DOMAIN objs = {}

\* The objects from lo on tile the heap up to hi.
Tiles(S, lo, hi) ==
  /\ lo \in S \cup {hi}
  /\ \A a \in S : lo <= a /\ NextObj(a) <= hi /\ NextObj(a) \in S \cup {hi}
  /\ \A a, b \in S : a < b => NextObj(a) <= b

\* A word that may be followed: if it leads into the heap, then to an object of S.
Leads(w, S) == UNBOXED(w) \/ Small(w) \/ Header(w) \in S
\* NULL would pass for a pointer into the null chunk.
RootWord(w, S) == Leads(w, S) /\ (heap = NoChunk => w # 0)

SettledInv ==
  Settled => /\ Tiles(Dom, heap.begin, heap.current)
             /\ \A a \in Dom : \A w \in FieldWords(a) : Leads(w, Dom)
             /\ \A w \in StackWords \cup {cells.arg, cells.content} : RootWord(w, Dom)

\* The runtime call in progress.
CallInv ==
  /\ Small(cells.content)
  /\ Small(cells.arg) \/ \E i \in DOMAIN req.roots : req.roots[i] = ARG
  /\ \A i \in DOMAIN req.roots : req.roots[i] \in {ARG, CONTENT} \cup DOMAIN stack
  /\ \/ req.tag = "string"
     \/ req.tag = "array"
     \/ req.tag \in {"sexp", "closure"} /\ 1 <= req.n
  /\ req.n <= Len(stack)
  /\ Len(extra_roots) <= Len(req.roots)
  /\ \A i \in DOMAIN extra_roots : extra_roots[i] = req.roots[i]
  /\ pc = "client" => req = NoCall
  /\ Collecting \/ pc = "fill" => Len(extra_roots) = Len(req.roots)
  /\ pc = "fill" => res \in Dom /\ objs[res].tag = req.tag /\ Len(objs[res].body) = ReqLen
  /\ pc = "pop_roots" => res \in Dom

\* Bits are set only during a collection, queue bits only while marking.
BitsInv ==
  /\ pc # "mark" => enqueued = {} /\ cur_obj = 0 /\ field = 0
  /\ pc \notin {"scan_roots", "mark", "compute", "update", "relocate"} => marked = {}
  /\ marked \cap enqueued = {}

\* The queue: its slots are objects between head and tail, its elements the
\* objects with the queue bit, and it is no longer than the objects met so far.
Before(x) == {a \in Dom : a < x}
QueueInv ==
  pc = "mark" =>
    /\ q_head_iter \in Dom \cup {heap.current} /\ q_tail_iter \in Dom \cup {heap.current}
    /\ q_head_iter <= q_tail_iter
    /\ \A a \in InQueue : Header(fwd[a]) \in enqueued
    /\ \A a, b \in InQueue : fwd[a] = fwd[b] => a = b
    /\ \A x \in enqueued : \E a \in InQueue : x = Header(fwd[a])
    /\ Cardinality(Before(q_tail_iter)) <= Cardinality(marked \cup enqueued)
    /\ cur_obj # 0 => Header(cur_obj) \in marked /\ field \in 1..(Len(objs[Header(cur_obj)].body) + 1)
    /\ cur_obj = 0 => field = 0

\* Marking: what has been scanned leads to marked or queued objects only, and
\* nothing is marked or queued that some closed set with the roots leaves out.
Met(w) == IsValidHeapPointer(w) => Header(w) \in marked \cup enqueued
FieldsMet ==
  \A a \in marked : \A k \in PtrFields(objs[a]) :
    (pc = "mark" /\ cur_obj # 0 /\ a = Header(cur_obj) => k < field) => Met(objs[a].body[k])
RootsMet ==
  \A i \in DOMAIN RootWords :
    (pc = "compute" \/ i < root \/ (pc = "mark" /\ i = root)) => Met(RootWords[i])
OnlyReachable ==
  \A S \in SUBSET Dom :
    Targets(RootSet) \subseteq S /\ ClosedUnderFields(S) => marked \cup enqueued \subseteq S
MarkInv ==
  pc \in {"scan_roots", "mark", "compute"} =>
    /\ FieldsMet /\ RootsMet /\ OnlyReachable
    /\ pc \in {"scan_roots", "mark"} => 1 <= root
    /\ pc = "mark" => root <= Len(RootWords)

\* Sliding: the new addresses of S, in order and without gaps, fill the
\* addresses from lo to free_ptr, and none is above the old one.
Target(a) == IF pc = "compute" THEN fwd[a] ELSE NewAddress(a)
Slides(S, lo) ==
  /\ free_ptr = lo \/ \E a \in S : Target(a) = lo
  /\ \A a \in S : /\ Target(a) \in Nat
                  /\ lo <= Target(a) /\ Target(a) <= a
                  /\ Target(a) + ObjSize(a) <= free_ptr
                  /\ \/ Target(a) + ObjSize(a) = free_ptr
                     \/ \E b \in S : Target(b) = Target(a) + ObjSize(a)
  /\ \A a, b \in S : a < b => Target(a) + ObjSize(a) <= Target(b)

Placed == {a \in marked : a < scan}
ComputeInv ==
  pc = "compute" => /\ scan \in Dom \cup {heap.current}
                    /\ free_ptr <= scan
                    /\ Slides(Placed, heap.begin)

\* After the new chunk is mapped it has room for what is live and the request.
Room == free_ptr + WORD * ReqSize <= heap.end
NewChunkInv ==
  pc \in {"update", "relocate"} => /\ heap.begin \in Bases
                                   /\ heap.begin <= free_ptr /\ free_ptr <= heap.current
                                   /\ Room

\* Updating: a word not fixed yet leads to a marked object's old place, a fixed
\* one to where a marked object will be.
OldWord(w) == \/ UNBOXED(w)
              \/ Small(w) /\ (old_heap = NoChunk => w # 0)
              \/ Header(w) - old_heap.begin + heap.begin \in marked
NewWord(w, S) == UNBOXED(w) \/ Small(w) \/ \E a \in S : w = Content(NewAddress(a))

UpdateInv ==
  pc = "update" =>
    /\ old_heap.begin \in Bases \/ old_heap = NoChunk
    /\ old_heap = NoChunk => Dom = {}
    /\ old_heap.begin <= old_heap.current
    /\ old_heap.current - old_heap.begin = heap.current - heap.begin
    /\ scan \in Dom \cup {heap.current}
    /\ Tiles(Dom, heap.begin, heap.current)
    /\ Slides(marked, heap.begin)
    /\ \A a \in marked : \A w \in FieldWords(a) :
         IF a < scan THEN NewWord(w, marked) ELSE OldWord(w)
    /\ \A w \in StackWords \cup {cells.arg, cells.content} : OldWord(w)

\* Relocating, with everything below f in place: the rest is where it was.
Ahead == {a \in Dom : scan <= a}
Waiting == {a \in marked : scan <= a}
LeadsInPlace(w, f) == NewWord(w, Waiting) \/ Header(w) \in Before(f)
RelocatedTo(f) ==
  /\ f <= scan
  /\ scan \in Dom \cup {heap.current}
  /\ Tiles(Before(f), heap.begin, f)
  /\ Tiles(Ahead, scan, heap.current)
  /\ Slides(Waiting, f)
  /\ marked \cap Before(f) = {}
  /\ \A a \in Before(f) \cup Waiting : \A w \in FieldWords(a) : LeadsInPlace(w, f)
  /\ \A w \in StackWords \cup {cells.arg, cells.content} : LeadsInPlace(w, f)

RelocateInv == pc = "relocate" => \E f \in heap.begin..free_ptr : RelocatedTo(f)

Inv == /\ TypeOK /\ ChunkInv /\ SettledInv /\ CallInv /\ BitsInv /\ QueueInv /\ MarkInv
       /\ ComputeInv /\ NewChunkInv /\ UpdateInv /\ RelocateInv
       /\ pc = "retry" => Fits
==============================================================================
