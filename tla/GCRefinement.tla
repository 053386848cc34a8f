---------------------------- MODULE GCRefinement ----------------------------
(***************************************************************************)
(* GC implements ObjectGraph.  The abstract state is read off the concrete *)
(* one at every step, also in the middle of a collection, when some words  *)
(* already lead into the new chunk, some still into the old one, and some  *)
(* objects have been moved and others not: the graph the client sees must  *)
(* be the same before and after every single step of the collector.        *)
(***************************************************************************)
EXTENDS GC

\* While references are being updated, a word that leads into the old chunk has
\* not been fixed yet: it denotes the object's copy in the new one.
Unfixed(w) == /\ pc = "update" /\ ~UNBOXED(w)
              /\ Content(old_heap.begin) <= w /\ w <= old_heap.current

\* The marked objects that have not been moved yet.
Unmoved == {a \in marked : pc = "relocate" => scan <= a}

IsRef(w) == Unfixed(w) \/ IsValidHeapPointer(w)

\* The header, as it stands in memory now, of the object that w denotes.
Denoted(w) ==
  IF Unfixed(w) THEN Header(w - old_heap.begin + heap.begin)
  ELSE LET waiting == {a \in Unmoved : NewAddress(a) = Header(w)}
       IN  IF pc \in {"update", "relocate"} /\ waiting # {}
           THEN CHOOSE a \in waiting : TRUE
           ELSE Header(w)

AbsWord(w)  == [ref |-> FALSE, v |-> w]
AbsValue(w) == IF IsRef(w) THEN [ref |-> TRUE, v |-> objs[Denoted(w)].id] ELSE AbsWord(w)

AbsObject(a) == [tag |-> objs[a].tag,
                 body |-> [k \in DOMAIN objs[a].body |->
                             IF k \in PtrFields(objs[a]) THEN AbsValue(objs[a].body[k])
                                                         ELSE AbsWord(objs[a].body[k])]]

DenotedBy(S) == {Denoted(w) : w \in {x \in S : IsRef(x)}}

\* The objects n references away from the stack, or nearer.
Within[n \in Nat] ==
  IF n = 0 THEN DenotedBy({stack[i] : i \in DOMAIN stack})
  ELSE UNION {{a} \cup DenotedBy(FieldWords(a)) : a \in Within[n - 1]}

\* The place where an object stands now: what was moved away has left a copy.
Standing(id) == CHOOSE a \in DOMAIN objs :
                  objs[a].id = id /\ ~(pc = "relocate" /\ a < scan /\ a \in marked)

AbsRoots == [i \in DOMAIN stack |-> AbsValue(stack[i])]
AbsGraph == [id \in {objs[a].id : a \in Within[cur_id]} |-> AbsObject(Standing(id))]

Abstract == INSTANCE ObjectGraph WITH
  roots   <- AbsRoots,
  graph   <- AbsGraph,
  Words   <- UnboxedWords \cup CWords \cup {UNBOX(w) : w \in UnboxedWords},
  Strings <- {[i \in DOMAIN str |-> AbsWord(str[i])] : str \in Strings},
  Ids     <- 1..MaxAllocs

\* Every behaviour of the collector and the runtime calls is, for the client, a
\* behaviour of the object graph: no object it reaches is lost, changed, merged
\* with another or moved under a pointer that is not updated, at any step of a
\* collection (gc.c 222-235 compares dumps for the same purpose).
ImplementsObjectGraph == Abstract!Spec
==============================================================================
