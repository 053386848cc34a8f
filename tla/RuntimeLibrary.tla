----------------------------- MODULE RuntimeLibrary -----------------------------
(***************************************************************************)
(* The calls of runtime/runtime.c over the objects of the heap.  An        *)
(* allocation may move every object, once, between what a call reads of    *)
(* its arguments before it and what it reads after (module GC has the      *)
(* collector); what the caller's stack does not lead to is gone then.  An  *)
(* address is the number of an object in its chunk.                        *)
(***************************************************************************)
EXTENDS Tags, Arithmetic

CONSTANTS
  Ints, Texts, Names,    \* the integers, C strings and tags a program has
  HASH_DEPTH,
  MaxLength, MaxVals,    \* bounds: elements of an object, words of the caller's stack
  CHUNK, MaxCalls        \* bounds: objects in a chunk, calls

ASSUME RuntimeLibraryAssumption ==
  /\ \A n \in Ints : -(2^(BITS - 1)) <= n /\ n < 2^(BITS - 1)
  /\ Texts \subseteq Seq(Nat \ {0}) /\ Names \subseteq Seq(0..(RADIX - 1))
  /\ {HASH_DEPTH, MaxLength, MaxVals, CHUNK, MaxCalls} \subseteq Nat

VARIABLES
  objs,            \* kind, number and contents of the object at an address
  base,            \* heap.begin
  regs,            \* the words of the caller's stack, the newest last
  calls,
  failed           \* a call of failure() has ended the process

vars == <<objs, base, regs, calls, failed>>

Unboxed(n) == <<"int", n>>
Pointer(a) == <<"ptr", a>>
UNBOXED(w) == w[1] = "int"
UNBOX(w) == w[2]
Data(w) == objs[w[2]]                              \* TO_DATA
Object(kind, num, body) == [kind |-> kind, num |-> num, body |-> body]
Fields(o) == IF o.kind = "string" THEN <<>> ELSE o.body
Targets(ws) == {w[2] : w \in {v \in Range(ws) : ~UNBOXED(v)}}

RECURSIVE Reached(_)
Reached(S) == LET more == S \cup UNION {Targets(Fields(objs[a])) : a \in S}
              IN  IF more = S THEN S ELSE Reached(more)
Live == Reached(Targets(regs))

\* A collection slides what is live to the other chunk, in order.
OtherBase == IF base = 0 THEN CHUNK ELSE 0
Forward(a) == OtherBase + Cardinality({b \in Live : b <= a})
Moved(w) == IF UNBOXED(w) THEN w ELSE Pointer(Forward(w[2]))
MovedAll(ws) == [k \in DOMAIN ws |-> Moved(ws[k])]

InPlace == [objs |-> objs, regs |-> regs, base |-> base, at |-> base + Cardinality(DOMAIN objs) + 1]
Collected ==
  [objs |-> [b \in {Forward(a) : a \in Live} |->
               LET o == objs[CHOOSE a \in Live : Forward(a) = b]
               IN  IF o.kind = "string" THEN o ELSE [o EXCEPT !.body = MovedAll(@)]],
   regs |-> MovedAll(regs), base |-> OtherBase, at |-> OtherBase + Cardinality(Live) + 1]

\* What an allocation may leave: a full chunk is collected.
Allocated == {h \in {InPlace, Collected} : h.at <= h.base + CHUNK}

Init == objs = <<>> /\ base = 0 /\ regs = <<>> /\ calls = 0 /\ failed = FALSE

\* The object o is made at h.at, and its pointer replaces the newest n words.
Made(h, o, n) ==
  /\ Len(o.body) <= MaxLength
  /\ objs' = [a \in DOMAIN h.objs \cup {h.at} |-> IF a = h.at THEN o ELSE h.objs[a]]
  /\ base' = h.base
  /\ regs' = Append(SubSeq(h.regs, 1, Len(regs) - n), Pointer(h.at))

Room == Len(regs) < MaxVals
Push(w) == Room /\ regs' = Append(regs, w) /\ UNCHANGED <<objs, base>>

------------------------------------------------------------------------------
(* The calls *)

Const == \E n \in Ints : Push(Unboxed(n))
Drop == /\ regs # <<>> /\ regs' = SubSeq(regs, 1, Len(regs) - 1)
        /\ UNCHANGED <<objs, base>>

\* Bstring of a C string; Lstring, LgetEnv, LreadLine and Lsprintf end in it.
Bstring == Room /\ \E t \in Texts, h \in Allocated : Made(h, Object("string", 0, t), 0)

LmakeString == Room /\ \E n \in 0..MaxLength, h \in Allocated :
                 Made(h, Object("string", 0, Zeros(n, 0)), 0)
LmakeArray == Room /\ \E n \in 0..MaxLength, h \in Allocated :
                Made(h, Object("array", 0, Zeros(n, Unboxed(0))), 0)

\* Mutant: the stack's words are not reversed before Barray.
NewestFirst(h, n) == Reverse(SubSeq(h.regs, Len(regs) - n + 1, Len(regs)))
\* The newest n words, read once the object is allocated.
Newest(h, n) == SubSeq(h.regs, Len(regs) - n + 1, Len(regs))
Construct ==
  \E n \in 0..MaxLength, h \in Allocated :
    /\ n <= Len(regs) /\ (n = 0 => Room)
    /\ \/ Made(h, Object("array", 0, Newest(h, n)), n)
       \/ \E s \in Names : Hashable(s) /\ Made(h, Object("sexp", TagHash(s), Newest(h, n)), n)
       \/ Made(h, Object("closure", 1, Newest(h, n)), n)

\* Mutant: the argument is read before the allocation.
CloneStale(h, i) == Data(regs[i])
\* Lclone: a string is copied by Bstring, up to its first zero; what else, by memcpy.
CloneOf(h, i) == h.objs[h.regs[i][2]]
Lclone == \E i \in DOMAIN regs :
            \/ UNBOXED(regs[i]) /\ Push(regs[i])
            \/ /\ ~UNBOXED(regs[i]) /\ Room
               /\ \E h \in Allocated :
                    LET o == CloneOf(h, i)
                    IN  Made(h, IF o.kind = "string" THEN [o EXCEPT !.body = Text(@)] ELSE o, 0)

IsString(w) == ~UNBOXED(w) /\ Data(w).kind = "string"

\* Lsubstring: strncpy from position p for l bytes.  A position may be negative: the
\* byte before the contents is the highest of the forward address, which is zero.
FromBefore(bytes, p, l) == SubSeq(<<0>> \o bytes, p + 2, p + 1 + l)
Lsubstring == Room /\ \E i \in DOMAIN regs, h \in Allocated :
  /\ IsString(regs[i])
  /\ \E p \in -1..Len(Data(regs[i]).body), l \in 0..(Len(Data(regs[i]).body) + 1) :
       /\ p + l <= Len(Data(regs[i]).body)
       /\ Made(h, Object("string", 0, Padded(FromBefore(h.objs[h.regs[i][2]].body, p, l))), 0)

\* "substring: index out of bounds", for a position and a length beyond the end.
LsubstringFails == /\ \E i \in DOMAIN regs : IsString(regs[i])
                   /\ failed' = TRUE /\ UNCHANGED <<objs, base, regs>>

\* Li__Infix_4343: each operand is given the place of all its bytes.
JoinedBytes(a, b) == Padded(a) \o Padded(b)
Concat == Room /\ \E i, j \in DOMAIN regs, h \in Allocated :
  /\ IsString(regs[i]) /\ IsString(regs[j])
  /\ Made(h, Object("string", 0, JoinedBytes(h.objs[h.regs[i][2]].body, h.objs[h.regs[j][2]].body)), 0)

\* BINOP takes the newest two words, and the runtime's operators are given them.
Operate ==
  LET n == Len(regs)
  IN  /\ n >= 2 /\ UNBOXED(regs[n]) /\ UNBOXED(regs[n - 1])
      /\ \E op \in BinOps :
           LET p == box_int(UNBOX(regs[n - 1]))
               q == box_int(UNBOX(regs[n]))
           IN  /\ op \in Dividing => UNBOX(regs[n]) # 0
               /\ \E w \in {binop(op, q, p), Ls__Infix(op, p, q)} :
                    regs' = Append(SubSeq(regs, 1, n - 2), Unboxed(unbox(w)))
      /\ UNCHANGED <<objs, base>>

HasTag(w, tag) == ~UNBOXED(w) /\ Data(w).kind = "sexp" /\ Data(w).num = tag

\* stringcat follows the second fields from a cons on without a look at the tags; a
\* tail that is no s-expression, or one of a single field, is read beyond its end.
RECURSIVE IsSpine(_)
IsSpine(w) == \/ UNBOXED(w)
              \/ /\ Data(w).kind = "sexp" /\ Len(Data(w).body) # 1
                 /\ Data(w).body # <<>> =>
                      /\ HasTag(Data(w).body[1], cons) => IsSpine(Data(w).body[1])
                      /\ IsSpine(Data(w).body[2])

RECURSIVE Stringcat(_), SpineText(_)
Stringcat(w) ==
  IF UNBOXED(w) THEN <<>>
  ELSE CASE Data(w).kind = "string" -> Text(Data(w).body)
         [] HasTag(w, cons) -> SpineText(w)
         [] Data(w).kind = "sexp" /\ ~HasTag(w, cons) -> NonList
         [] Data(w).kind \in {"array", "closure"} -> InvalidHeader
\* The loop over the cells; it ends at an empty one, or at a tail that is unboxed.
SpineText(w) == IF UNBOXED(w) \/ Data(w).body = <<>> THEN <<>>
                ELSE Stringcat(Data(w).body[1]) \o SpineText(Data(w).body[2])

Catenable == {i \in DOMAIN regs : HasTag(regs[i], cons) => IsSpine(regs[i])}
Lstringcat == Room /\ \E i \in Catenable, h \in Allocated :
  Made(h, Object("string", 0, Stringcat(regs[i])), 0)

\* Belem, of a field or of a string's byte; Lfst, Lsnd, Lhd and Ltl are the first two.
Belem(o, k) == IF o.kind = "string" THEN Unboxed(o.body[k]) ELSE o.body[k]
Elem == \E i \in DOMAIN regs :
  ~UNBOXED(regs[i]) /\ \E k \in DOMAIN Data(regs[i]).body : Push(Belem(Data(regs[i]), k))

Call == \/ Const \/ Drop \/ Bstring \/ LmakeString \/ LmakeArray \/ Construct \/ Lclone
        \/ Lsubstring \/ Concat \/ Lstringcat \/ Elem \/ Operate

Next == /\ ~failed /\ calls < MaxCalls /\ calls' = calls + 1
        /\ \/ Call /\ UNCHANGED failed
           \/ LsubstringFails

Spec == Init /\ [][Next]_vars

------------------------------------------------------------------------------
(* The functions that make nothing *)

\* What is left of a number once it is boxed.
Boxed(n) == unbox(box_int(n))
Sign(n) == IF n < 0 THEN -1 ELSE IF n > 0 THEN 1 ELSE 0

\* Mutant: strncmp up to the shorter length.
StrcmpShorter(a, b) ==
  LET D == {k \in DOMAIN Text(a) \cap DOMAIN Text(b) : a[k] # b[k]}
  IN  IF D = {} THEN 0 ELSE LET k == CHOOSE d \in D : \A e \in D : d <= e IN Sign(a[k] - b[k])

\* strcmp, by the first byte that differs; the end of a string is a zero byte.
Strcmp(a, b) ==
  LET x == Append(Text(a), 0) y == Append(Text(b), 0)
      D == {k \in DOMAIN x \cap DOMAIN y : x[k] # y[k]}
  IN  IF D = {} THEN 0 ELSE LET k == CHOOSE d \in D : \A e \in D : d <= e IN Sign(x[k] - y[k])

KindCode(k) == CASE k = "string" -> 1 [] k = "array" -> 3 [] k = "sexp" -> 5 [] k = "closure" -> 7
FirstDifference(s) == LET D == {k \in DOMAIN s : s[k] # 0}
                      IN  IF D = {} THEN 0 ELSE s[CHOOSE d \in D : \A e \in D : d <= e]

\* Mutant: the tags of s-expressions are not compared.
KindDifference(a, b) == KindCode(a.kind) - KindCode(b.kind)
HeaderDifference(a, b) == FirstDifference(<<KindCode(a.kind) - KindCode(b.kind), a.num - b.num>>)

\* Lcompare: kind, then number, then length, then field by field.
RECURSIVE Lcompare(_, _)
Lcompare(p, q) ==
  IF p = q THEN 0
  ELSE IF UNBOXED(p) /\ UNBOXED(q) THEN Boxed(UNBOX(p) - UNBOX(q))
  ELSE IF UNBOXED(p) THEN -1
  ELSE IF UNBOXED(q) THEN 1
  ELSE LET a == Data(p) b == Data(q)
       IN  IF HeaderDifference(a, b) # 0 THEN Boxed(HeaderDifference(a, b))
           ELSE IF a.kind = "string" THEN Strcmp(a.body, b.body)
           ELSE IF Len(a.body) # Len(b.body) THEN Boxed(Len(a.body) - Len(b.body))
           ELSE FirstDifference([k \in DOMAIN a.body |-> Lcompare(a.body[k], b.body[k])])

\* inner_hash, as the words it appends: equal sequences have equal hashes.
RECURSIVE InnerHash(_, _)
InnerHash(depth, p) ==
  IF depth > HASH_DEPTH THEN <<>>
  ELSE IF UNBOXED(p) THEN <<UNBOX(p)>>
  ELSE LET o == Data(p)
       IN  <<KindCode(o.kind), Len(o.body)>> \o
           CASE o.kind = "string" -> Text(o.body)
             [] o.kind = "array" -> FlattenSeq([k \in DOMAIN o.body |-> InnerHash(depth + 1, o.body[k])])
             [] OTHER -> <<o.num>> \o FlattenSeq([k \in DOMAIN o.body |-> InnerHash(depth + 1, o.body[k])])

\* The pattern tests.
Btag(w, tag, n) == ~UNBOXED(w) /\ Data(w).kind = "sexp" /\ Data(w).num = tag /\ Len(Data(w).body) = n
------------------------------------------------------------------------------
(* Properties *)

TypeOK ==
  /\ base \in {0, CHUNK}
  /\ DOMAIN objs = (base + 1)..(base + Cardinality(DOMAIN objs))
  /\ \A a \in DOMAIN objs :
       /\ objs[a].kind \in {"string", "array", "sexp", "closure"}
       /\ Targets(Fields(objs[a])) \subseteq DOMAIN objs
  /\ Targets(regs) \subseteq DOMAIN objs /\ Len(regs) <= MaxVals /\ calls <= MaxCalls /\ failed \in BOOLEAN

\* The value a word denotes.
RECURSIVE Value(_)
Value(w) == IF UNBOXED(w) THEN <<"int", UNBOX(w), <<>>>>
            ELSE LET o == Data(w)
                 IN  <<o.kind, o.num, IF o.kind = "string" THEN o.body
                                      ELSE [k \in DOMAIN o.body |-> Value(o.body[k])]>>

\* The calls do to what the caller's words denote what Values says, wherever a
\* collection comes: no result is made of an argument read too early, and none
\* changes what another word denotes.
Promised == INSTANCE Values WITH vals <- [k \in DOMAIN regs |-> Value(regs[k])]
ImplementsValues == Promised!Spec

Words == Range(regs)

RECURSIVE IntsOf(_), HasZero(_)
IntsOf(w) == IF UNBOXED(w) THEN {UNBOX(w)}
             ELSE {Data(w).num} \cup UNION {IntsOf(v) : v \in Range(Fields(Data(w)))}
\* A string with a zero byte before its end.
HasZero(w) == \/ IsString(w) /\ Text(Data(w).body) # Data(w).body
              \/ ~UNBOXED(w) /\ \E v \in Range(Fields(Data(w))) : HasZero(v)

\* The handlers of BINOP and the runtime's operators compute what the abstract
\* operators do, of whatever integers there are on the stack and in their order,
\* though words keep a bit less than the machine's arithmetic works with.
OperatorsCompute ==
  \A p, q \in {w \in Words : UNBOXED(w)}, op \in BinOps :
    (op \in Dividing => UNBOX(q) # 0) =>
    LET x == box_int(UNBOX(p))
        y == box_int(UNBOX(q))
    IN  \A w \in {binop(op, y, x), Ls__Infix(op, x, y)} :
          Promised!Computes(op, UNBOX(p), UNBOX(q), unbox(w))

\* Values that compare equal have the same hash, though one looks at a string's
\* text and the other at its length too, and the hash only so deep.
EqualHashAlike ==
  \A p, q \in {w \in Words : ~HasZero(w)} :
    Lcompare(p, q) = 0 => InnerHash(0, p) = InnerHash(0, q)

\* Lcompare is a total order of the values, up to what follows a zero byte, where
\* BOX loses nothing of the differences it returns.
CompareIsOrder ==
  LET N == [w \in Words |-> IntsOf(w)]
      Comparable(p, q) == \A m \in N[p], n \in N[q] : Boxed(m - n) = m - n /\ Boxed(n - m) = n - m
      AtMost == {pq \in Words \X Words : Comparable(pq[1], pq[2]) /\ Lcompare(pq[1], pq[2]) <= 0}
  IN  /\ \A p, q \in Words :
           Comparable(p, q) =>
             /\ Sign(Lcompare(p, q)) = -Sign(Lcompare(q, p))
             /\ Lcompare(p, q) = 0 /\ ~HasZero(p) /\ ~HasZero(q) => Value(p) = Value(q)
      /\ \A pq \in AtMost : \A r \in Words :
           <<pq[2], r>> \in AtMost /\ Comparable(pq[1], r) => <<pq[1], r>> \in AtMost

\* A tag's test tells the names LtagHash accepts apart by their first TAGLEN
\* characters, though a hash is a number that does not keep their number.
TagsAreNames ==
  \A w \in Words, s, t \in {n \in Names : Hashable(n)} :
    ~UNBOXED(w) /\ Btag(w, TagHash(s), Len(Fields(Data(w)))) =>
      (Btag(w, TagHash(t), Len(Fields(Data(w)))) <=> FirstOf(s, TAGLEN) = FirstOf(t, TAGLEN))
==============================================================================
