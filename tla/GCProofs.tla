------------------------------ MODULE GCProofs ------------------------------
(***************************************************************************)
(* The invariant of GCInvariant is inductive, and GC's safety properties   *)
(* follow from it, for every heap size, number of objects and placement of *)
(* the chunks.                                                             *)
(***************************************************************************)
EXTENDS GCInvariant, FiniteSetTheorems, SequenceTheorems, TLAPS

\* Parts of the invariant that speak of a collection in progress.
CollectionInv == QueueInv /\ MarkInv /\ ComputeInv /\ NewChunkInv /\ UpdateInv /\ RelocateInv

-----------------------------------------------------------------------------
(* Facts about the heap's layout. *)

\* The types of the heap's memory.
LEMMA TypeFacts ==
  ASSUME TypeOK
  PROVE  /\ IsFiniteSet(Dom) /\ Dom \subseteq Nat
         /\ \A a \in Dom : objs[a] \in HeapObject
         /\ fwd \in [Dom -> Nat]
         /\ marked \subseteq Dom /\ enqueued \subseteq Dom
         /\ heap.begin \in Nat /\ heap.end \in Nat /\ heap.current \in Nat /\ heap.size \in Nat
         /\ old_heap.begin \in Nat /\ old_heap.current \in Nat /\ old_heap.end \in Nat
BY DEF TypeOK, Dom, Chunk

\* An object has a header of two words and lies before the next one.
LEMMA ObjSizeFacts ==
  ASSUME TypeOK, NEW a \in Dom
  PROVE  /\ a \in Nat
         /\ ObjSize(a) \in Nat /\ ObjSize(a) >= 4
         /\ ObjSize(a) = 4 + 2 * Len(objs[a].body)
         /\ NextObj(a) = a + ObjSize(a)
         /\ NextObj(a) \in Nat
         /\ Content(a) \in Nat /\ Content(a) <= NextObj(a)
         /\ Header(Content(a)) = a
<1>1. objs[a].body \in Seq(Nat) /\ a \in Nat BY DEF TypeOK, Dom, HeapObject
<1>2. Len(objs[a].body) \in Nat BY <1>1
<1> QED BY <1>1, <1>2 DEF ObjSize, NextObj, Content, Header, DATA_HEADER_SZ, WORD

\* The pointer fields of an object are words of its body.
LEMMA FieldFacts ==
  ASSUME TypeOK, NEW a \in Dom
  PROVE  /\ objs[a].tag \in Tags
         /\ objs[a].body \in Seq(Nat)
         /\ DOMAIN objs[a].body = 1..Len(objs[a].body)
         /\ PtrFields(objs[a]) \subseteq DOMAIN objs[a].body
         /\ FieldWords(a) \subseteq Nat
         /\ \A k \in PtrFields(objs[a]) : objs[a].body[k] \in FieldWords(a)
<1>1. objs[a].body \in Seq(Nat) /\ objs[a].tag \in Tags BY DEF TypeOK, Dom, HeapObject
<1>2. DOMAIN objs[a].body = 1..Len(objs[a].body) BY <1>1
<1>3. PtrFields(objs[a]) \subseteq DOMAIN objs[a].body
  BY <1>1, <1>2 DEF PtrFields, Tags
<1>4. \A k \in PtrFields(objs[a]) : objs[a].body[k] \in FieldWords(a) BY DEF FieldWords
<1>5. FieldWords(a) \subseteq Nat BY <1>1, <1>2, <1>3 DEF FieldWords
<1> QED BY <1>1, <1>2, <1>3, <1>4, <1>5

\* A word that may be followed and passes is_valid_heap_pointer leads to an object.
LEMMA ValidIsObject ==
  ASSUME TypeOK, ChunkInv, NEW w \in Nat, RootWord(w, Dom), IsValidHeapPointer(w)
  PROVE  Header(w) \in Dom
<1>1. CASE heap = NoChunk
  <2>1. w = 0 BY <1>1 DEF IsValidHeapPointer, NoChunk
  <2> QED BY <1>1, <2>1 DEF RootWord
<1>2. CASE heap # NoChunk
  <2>1. heap.begin \in Bases /\ heap.begin <= w BY <1>2 DEF ChunkInv, IsValidHeapPointer
  <2>2. heap.begin \in Nat BY DEF TypeOK, Chunk
  <2>3. ~ Small(w) BY <2>1, <2>2 DEF Small
  <2> QED BY <2>3 DEF RootWord, Leads, IsValidHeapPointer
<1> QED BY <1>1, <1>2

\* A function on an initial segment of the numbers is a sequence.
LEMMA FunctionIsSeq ==
  ASSUME NEW n \in Nat, NEW S, NEW f \in [1..n -> S]
  PROVE  f \in Seq(S) /\ Len(f) = n /\ DOMAIN f = 1..n
<1>1. f \in Seq(S) OBVIOUS
<1> QED BY <1>1

\* A sequence of words with one of them replaced.
LEMMA WordReplaced ==
  ASSUME NEW s \in Seq(Nat), NEW k \in DOMAIN s, NEW w \in Nat
  PROVE  /\ [s EXCEPT ![k] = w] \in Seq(Nat)
         /\ Len([s EXCEPT ![k] = w]) = Len(s)
         /\ DOMAIN [s EXCEPT ![k] = w] = DOMAIN s
<1>1. PICK n \in Nat : n = Len(s) /\ DOMAIN s = 1..n /\ s \in [1..n -> Nat] OBVIOUS
<1>2. PICK t : t = [s EXCEPT ![k] = w] OBVIOUS
<1>3. t \in [1..n -> Nat] BY <1>1, <1>2
<1>4. t \in Seq(Nat) /\ Len(t) = n /\ DOMAIN t = 1..n BY <1>3, FunctionIsSeq
<1> QED BY <1>1, <1>2, <1>4

\* Replacing the body of an object.
LEMMA BodyReplaced ==
  ASSUME NEW h \in Dom, NEW b \in Seq(Nat), objs[h] \in HeapObject,
         objs' = [objs EXCEPT ![h].body = b]
  PROVE  /\ Dom' = Dom
         /\ objs'[h] = [tag |-> objs[h].tag, id |-> objs[h].id, body |-> b]
         /\ objs'[h] \in HeapObject
         /\ \A a \in Dom \ {h} : objs'[a] = objs[a]
<1>1. objs[h] = [tag |-> objs[h].tag, id |-> objs[h].id, body |-> objs[h].body] BY DEF HeapObject
<1>2. [objs[h] EXCEPT !.body = b] = [tag |-> objs[h].tag, id |-> objs[h].id, body |-> b] BY <1>1
<1>3. objs'[h] = [objs[h] EXCEPT !.body = b] BY Zenon DEF Dom
<1>4. objs'[h] \in HeapObject BY <1>2, <1>3 DEF HeapObject
<1>5. Dom' = Dom /\ \A a \in Dom \ {h} : objs'[a] = objs[a] BY DEF Dom
<1> QED BY <1>2, <1>3, <1>4, <1>5

\* The initial state: no chunk, no object, an empty stack.
LEMMA InitInv == Init => Inv
<1> SUFFICES ASSUME Init PROVE Inv OBVIOUS
<1> USE GCAssumption
<1>1. TypeOK
  <2>1. IsFiniteSet(DOMAIN objs) BY FS_EmptySet DEF Init
  <2> QED BY <2>1 DEF Init, TypeOK, Chunk, NoChunk, NoCall, Tags
<1>2. ChunkInv BY DEF Init, ChunkInv, NoChunk, WORD
<1>3. SettledInv
  BY DEF Init, SettledInv, NoChunk, Tiles, Dom, StackWords, RootWord, Leads, Small
<1>4. CallInv BY DEF Init, CallInv, NoCall, Collecting, Small
<1>5. BitsInv BY DEF Init, BitsInv
<1>6. CollectionInv
  BY DEF Init, CollectionInv, QueueInv, MarkInv, ComputeInv, NewChunkInv, UpdateInv, RelocateInv
<1> QED BY <1>1, <1>2, <1>3, <1>4, <1>5, <1>6 DEF Inv, CollectionInv, Init
-----------------------------------------------------------------------------
(* Steps of the client. *)

\* Outside a collection nothing is said of one.
LEMMA Quiet ==
  ASSUME pc' \in {"client", "push_roots", "exit", "fill", "pop_roots"}
  PROVE  CollectionInv'
BY DEF CollectionInv, QueueInv, MarkInv, ComputeInv, NewChunkInv, UpdateInv, RelocateInv

\* The client changes its stack, to words it may follow.
LEMMA StackStep ==
  ASSUME Inv, ClientOnly, UNCHANGED objs, stack' \in Seq(Nat),
         \A w \in StackWords' : RootWord(w, Dom)
  PROVE  Inv'
<1> USE DEF ClientOnly, chunks, call, queue, slide
<1>1. TypeOK' BY DEF Inv, TypeOK
<1>2. ChunkInv' BY DEF Inv, ChunkInv
<1>3. SettledInv'
  <2>1. Settled /\ Settled' BY DEF Settled
  <2>2. \A w, S : RootWord(w, S)' <=> RootWord(w, S) BY DEF RootWord, Leads
  <2>3. UNCHANGED <<Dom, cells>> BY DEF Dom
  <2>4. Tiles(Dom, heap.begin, heap.current)'
    BY <2>1 DEF Inv, SettledInv, Tiles, Dom, NextObj, ObjSize
  <2>5. (\A a \in Dom : \A w \in FieldWords(a) : Leads(w, Dom))'
    BY <2>1 DEF Inv, SettledInv, Dom, FieldWords, Leads
  <2>6. (\A w \in StackWords \cup {cells.arg, cells.content} : RootWord(w, Dom))'
    BY <2>1, <2>3 DEF Inv, SettledInv, RootWord
  <2> QED BY <2>4, <2>5, <2>6 DEF SettledInv
<1>4. CallInv'
  <2>1. req = NoCall BY DEF Inv, CallInv
  <2>2. req'.n = 0 /\ req'.roots = <<>> /\ req'.tag = "string" BY <2>1 DEF NoCall
  <2>3. Len(stack') \in Nat OBVIOUS
  <2> QED BY <2>1, <2>2, <2>3 DEF Inv, CallInv, Collecting, Small
<1>5. BitsInv' BY DEF Inv, BitsInv
<1>6. CollectionInv' BY Quiet
<1> QED BY <1>1, <1>2, <1>3, <1>4, <1>5, <1>6 DEF Inv, CollectionInv

\* CONST, LDA, the words of a frame: an unboxed word or a pointer into C memory.
LEMMA PushStep == ASSUME Inv, Push PROVE Inv'
<1>1. PICK w \in UnboxedWords \cup CWords : (w = 0 => heap.size # 0) /\ stack' = <<w>> \o stack
  BY DEF Push
<1>2. w \in Nat /\ (UNBOXED(w) \/ Small(w)) BY GCAssumption DEF GCAssumption, UNBOXED, Small
<1>3. stack \in Seq(Nat) BY DEF Inv, TypeOK
<1>4. stack' \in Seq(Nat) BY <1>1, <1>2, <1>3
<1>5. RootWord(w, Dom) BY <1>1, <1>2 DEF RootWord, Leads, NoChunk
<1>6. \A v \in StackWords' : v = w \/ v \in StackWords BY <1>1, <1>3 DEF StackWords
<1>7. Settled BY DEF Push, ClientOnly, Settled
<1>8. \A v \in StackWords' : RootWord(v, Dom) BY <1>5, <1>6, <1>7 DEF Inv, SettledInv
<1> QED BY <1>4, <1>8, StackStep DEF Push

\* LD, DUP: the word copied is on the stack already.
LEMMA DupStep == ASSUME Inv, Dup PROVE Inv'
<1>1. PICK i \in DOMAIN stack : stack' = <<stack[i]>> \o stack BY DEF Dup
<1>2. stack \in Seq(Nat) BY DEF Inv, TypeOK
<1>3. stack' \in Seq(Nat) BY <1>1, <1>2
<1>4. \A v \in StackWords' : v \in StackWords BY <1>1, <1>2 DEF StackWords
<1>5. Settled BY DEF Dup, ClientOnly, Settled
<1>6. \A v \in StackWords' : RootWord(v, Dom) BY <1>4, <1>5 DEF Inv, SettledInv
<1> QED BY <1>3, <1>6, StackStep DEF Dup

\* DROP, END.
LEMMA PopStep == ASSUME Inv, Pop PROVE Inv'
<1>1. stack \in Seq(Nat) /\ stack # <<>> /\ stack' = Tail(stack) BY DEF Inv, TypeOK, Pop
<1>2. stack' \in Seq(Nat) BY <1>1
<1>3. \A v \in StackWords' : v \in StackWords BY <1>1 DEF StackWords
<1>4. Settled BY DEF Pop, ClientOnly, Settled
<1>5. \A v \in StackWords' : RootWord(v, Dom) BY <1>3, <1>4 DEF Inv, SettledInv
<1> QED BY <1>2, <1>5, StackStep DEF Pop

\* A field of an object the client has may be followed too.
LEMMA BelemStep == ASSUME Inv, Belem PROVE Inv'
<1>1a. PICK i \in Objects : \E k \in PtrFields(objs[Header(stack[i])]) :
         stack' = <<objs[Header(stack[i])].body[k]>> \o stack
  BY DEF Belem
<1>1. PICK k \in PtrFields(objs[Header(stack[i])]) :
        stack' = <<objs[Header(stack[i])].body[k]>> \o stack
  BY <1>1a
<1> DEFINE h == Header(stack[i])
           w == objs[h].body[k]
<1>2. stack \in Seq(Nat) /\ TypeOK /\ ChunkInv BY DEF Inv, TypeOK
<1>3. Settled BY DEF Belem, ClientOnly, Settled
<1>4. h \in Dom
  <2>1. stack[i] \in Nat /\ stack[i] \in StackWords /\ IsValidHeapPointer(stack[i])
    BY <1>1, <1>2 DEF Objects, StackWords
  <2>2. RootWord(stack[i], Dom) BY <1>3, <2>1 DEF Inv, SettledInv
  <2> QED BY <1>2, <2>1, <2>2, ValidIsObject
<1>5. w \in FieldWords(h) /\ w \in Nat BY <1>1, <1>2, <1>4, FieldFacts
<1> HIDE DEF h, w
<1>6. RootWord(w, Dom)
  <2>1. Leads(w, Dom) BY <1>3, <1>4, <1>5 DEF Inv, SettledInv
  <2>2. heap # NoChunk BY <1>2, <1>4 DEF ChunkInv, Dom
  <2> QED BY <2>1, <2>2 DEF RootWord
<1>6a. stack' = <<w>> \o stack BY <1>1 DEF h, w
<1>7. stack' \in Seq(Nat) BY <1>2, <1>5, <1>6a
<1>8. \A v \in StackWords' : v = w \/ v \in StackWords BY <1>2, <1>5, <1>6a DEF StackWords
<1>9. \A v \in StackWords' : RootWord(v, Dom) BY <1>3, <1>6, <1>8 DEF Inv, SettledInv
<1> QED BY <1>7, <1>9, StackStep DEF Belem

\* A body is replaced by one of the same length with words that may be followed.
LEMMA BodyStep ==
  ASSUME Inv, Settled, Settled', NEW h \in Dom, NEW b \in Seq(Nat),
         Len(b) = Len(objs[h].body),
         objs' = [objs EXCEPT ![h].body = b],
         \A k \in PtrFields(objs'[h]) : Leads(b[k], Dom),
         UNCHANGED <<fwd, marked, enqueued, chunks, stack, cells>>
  PROVE  /\ Dom' = Dom
         /\ \A a \in Dom : objs'[a] \in HeapObject
         /\ ChunkInv'
         /\ SettledInv'
<1> USE DEF chunks
<1>1. Dom' = Dom BY DEF Dom
<1>2. \A a \in Dom : objs[a] \in HeapObject BY DEF Inv, TypeOK, Dom
<1>3. /\ objs'[h] = [tag |-> objs[h].tag, id |-> objs[h].id, body |-> b]
      /\ objs'[h] \in HeapObject
      /\ \A a \in Dom \ {h} : objs'[a] = objs[a]
  BY <1>2, BodyReplaced
<1>4. \A a \in Dom : objs'[a] \in HeapObject BY <1>2, <1>3
<1>5. \A a \in Dom : Len(objs'[a].body) = Len(objs[a].body) BY <1>2, <1>3
<1>6. \A a \in Dom : NextObj(a)' = NextObj(a) BY <1>5 DEF NextObj, ObjSize
<1>7. ChunkInv' BY <1>1 DEF Inv, ChunkInv, Dom
<1>8. Tiles(Dom, heap.begin, heap.current)' BY <1>1, <1>6 DEF Inv, SettledInv, Tiles
<1>9. \A w : Leads(w, Dom)' <=> Leads(w, Dom) BY <1>1 DEF Leads
<1>10. \A a \in Dom : \A w \in FieldWords(a)' : Leads(w, Dom)
  <2> SUFFICES ASSUME NEW a \in Dom, NEW k \in PtrFields(objs'[a])
               PROVE  Leads(objs'[a].body[k], Dom)
    BY DEF FieldWords
  <2>1. CASE a = h BY <2>1, <1>2, <1>3
  <2>2. CASE a # h BY <2>2, <1>3 DEF Inv, SettledInv, FieldWords
  <2> QED BY <2>1, <2>2
<1>11. \A w \in (StackWords \cup {cells.arg, cells.content})' : RootWord(w, Dom)'
  BY <1>9 DEF Inv, SettledInv, RootWord, StackWords
<1>12. SettledInv' BY <1>1, <1>8, <1>9, <1>10, <1>11 DEF SettledInv
<1> QED BY <1>1, <1>4, <1>7, <1>12

\* The client changes the body of an object.
LEMMA StoreStep ==
  ASSUME Inv, ClientOnly, UNCHANGED stack, NEW h \in Dom, NEW b \in Seq(Nat),
         Len(b) = Len(objs[h].body),
         objs' = [objs EXCEPT ![h].body = b],
         \A k \in PtrFields(objs'[h]) : Leads(b[k], Dom)
  PROVE  Inv'
<1> USE DEF ClientOnly, chunks, call, queue, slide
<1>1. Settled /\ Settled' BY DEF Settled
<1>2. /\ Dom' = Dom
      /\ \A a \in Dom : objs'[a] \in HeapObject
      /\ ChunkInv'
      /\ SettledInv'
  BY <1>1, BodyStep
<1>3. TypeOK' BY <1>2 DEF Inv, TypeOK, Dom
<1>4. CallInv' BY <1>2 DEF Inv, CallInv, Collecting, Small
<1>5. BitsInv' BY DEF Inv, BitsInv
<1>6. CollectionInv' BY Quiet
<1> QED BY <1>2, <1>3, <1>4, <1>5, <1>6 DEF Inv, CollectionInv

\* A word of the stack that is a valid pointer leads to an object.
LEMMA StackObject ==
  ASSUME Inv, Settled, NEW i \in Objects
  PROVE  Header(stack[i]) \in Dom
<1>1. stack \in Seq(Nat) /\ TypeOK /\ ChunkInv BY DEF Inv, TypeOK
<1>2. stack[i] \in Nat /\ stack[i] \in StackWords /\ IsValidHeapPointer(stack[i])
  BY <1>1 DEF Objects, StackWords
<1>3. RootWord(stack[i], Dom) BY <1>2 DEF Inv, SettledInv
<1> QED BY <1>1, <1>2, <1>3, ValidIsObject

\* STA: the word stored comes from the stack.
LEMMA BstaStep == ASSUME Inv, Bsta PROVE Inv'
<1>1a. PICK i \in Objects, j \in DOMAIN stack : \E k \in PtrFields(objs[Header(stack[i])]) :
         objs' = [objs EXCEPT ![Header(stack[i])].body[k] = stack[j]]
  BY DEF Bsta
<1>1. PICK k \in PtrFields(objs[Header(stack[i])]) :
        objs' = [objs EXCEPT ![Header(stack[i])].body[k] = stack[j]]
  BY <1>1a
<1> DEFINE h == Header(stack[i])
           b == [objs[h].body EXCEPT ![k] = stack[j]]
<1>2. Settled BY DEF Bsta, ClientOnly, Settled
<1>3. h \in Dom BY <1>2, StackObject
<1>4. stack[j] \in Nat /\ stack[j] \in StackWords BY SMTT(40) DEF Inv, TypeOK, StackWords
<1>5. /\ objs[h].body \in Seq(Nat)
      /\ DOMAIN objs[h].body = 1..Len(objs[h].body)
      /\ k \in DOMAIN objs[h].body
      /\ PtrFields(objs[h]) \subseteq DOMAIN objs[h].body
  BY <1>1, <1>3, FieldFacts DEF Inv
<1>6. b \in Seq(Nat) /\ Len(b) = Len(objs[h].body) /\ DOMAIN b = DOMAIN objs[h].body
  BY <1>4, <1>5, WordReplaced
<1>7. objs[h] \in HeapObject BY <1>3 DEF Inv, TypeOK, Dom
<1>8. objs' = [objs EXCEPT ![h].body = b] BY <1>1
<1> HIDE DEF h, b
<1>9. objs'[h] = [tag |-> objs[h].tag, id |-> objs[h].id, body |-> b]
  BY <1>3, <1>6, <1>7, <1>8, BodyReplaced
<1>10. PtrFields(objs'[h]) = PtrFields(objs[h]) BY <1>6, <1>9 DEF PtrFields
<1>11. \A m \in PtrFields(objs[h]) : Leads(b[m], Dom)
  <2> USE DEF b
  <2> TAKE m \in PtrFields(objs[h])
  <2>1. Leads(stack[j], Dom) BY <1>2, <1>4 DEF Inv, SettledInv, RootWord
  <2>2. Leads(objs[h].body[m], Dom) BY <1>2, <1>3 DEF Inv, SettledInv, FieldWords
  <2>3. b[m] = stack[j] \/ b[m] = objs[h].body[m] BY <1>5
  <2> QED BY <2>1, <2>2, <2>3
<1> QED BY <1>3, <1>6, <1>8, <1>10, <1>11, StoreStep DEF Bsta

\* STA into a string: no field of a string is followed.
LEMMA BstaStringStep == ASSUME Inv, BstaString PROVE Inv'
<1>1. PICK i \in Objects, str \in Strings :
        /\ objs[Header(stack[i])].tag = "string"
        /\ Len(objs[Header(stack[i])].body) = Len(str)
        /\ objs' = [objs EXCEPT ![Header(stack[i])].body = str]
  BY DEF BstaString
<1> DEFINE h == Header(stack[i])
<1>2. Settled BY DEF BstaString, ClientOnly, Settled
<1>3. h \in Dom BY <1>2, StackObject
<1>4. str \in Seq(Nat) BY GCAssumption DEF GCAssumption
<1>5. objs[h] \in HeapObject BY <1>3 DEF Inv, TypeOK, Dom
<1>5a. objs[h].tag = "string" /\ objs' = [objs EXCEPT ![h].body = str] BY <1>1
<1> HIDE DEF h
<1>6. objs'[h] = [tag |-> objs[h].tag, id |-> objs[h].id, body |-> str]
  BY <1>3, <1>4, <1>5, <1>5a, BodyReplaced
<1>7. PtrFields(objs'[h]) = {} BY <1>5a, <1>6 DEF PtrFields
<1> QED BY <1>1, <1>3, <1>4, <1>7, StoreStep DEF BstaString, h

\* A runtime call starts with arguments that may be followed and roots that
\* are words of the stack or the call's own cells.
LEMMA CallStep ==
  ASSUME Inv, NEW tag \in Tags, NEW n \in Nat, NEW s \in Seq(Nat), NEW rts \in Seq(Int),
         NEW str \in Seq(Nat), Call(tag, n, s, rts, str),
         \A i \in DOMAIN s : RootWord(s[i], Dom),
         n <= Len(s), tag \in {"sexp", "closure"} => 1 <= n,
         \A i \in DOMAIN rts : rts[i] \in {ARG, CONTENT} \cup DOMAIN s,
         cells' \in [arg : Nat, content : Nat], cells'.content = cells.content,
         RootWord(cells'.arg, Dom),
         Small(cells'.arg) \/ \E i \in DOMAIN rts : rts[i] = ARG
  PROVE  Inv'
<1> USE DEF memory, chunks, queue, slide
<1>1. /\ stack' = s /\ req' = [tag |-> tag, n |-> n, roots |-> rts, str |-> str]
      /\ pc = "client" /\ pc' = "push_roots"
      /\ UNCHANGED <<memory, chunks, extra_roots, res, cur_id, root, queue, slide>>
  BY DEF Call
<1>2. Settled /\ Settled' BY <1>1 DEF Settled
<1>3. TypeOK' BY <1>1 DEF Inv, TypeOK
<1>4. ChunkInv' BY <1>1 DEF Inv, ChunkInv
<1>5. SettledInv'
  <2>1. \A w, S : RootWord(w, S)' <=> RootWord(w, S) BY <1>1 DEF RootWord, Leads
  <2>2. UNCHANGED Dom BY <1>1 DEF Dom
  <2>3. Tiles(Dom, heap.begin, heap.current)'
    BY <1>1, <1>2 DEF Inv, SettledInv, Tiles, Dom, NextObj, ObjSize
  <2>4. (\A a \in Dom : \A w \in FieldWords(a) : Leads(w, Dom))'
    BY <1>1, <1>2 DEF Inv, SettledInv, Dom, FieldWords, Leads
  <2>5. RootWord(cells.content, Dom) BY <1>2 DEF Inv, SettledInv
  <2>6. \A w \in (StackWords \cup {cells.arg, cells.content})' : RootWord(w, Dom)
    BY <1>1, <2>5 DEF StackWords
  <2>7. (\A w \in StackWords \cup {cells.arg, cells.content} : RootWord(w, Dom))'
    BY <2>1, <2>2, <2>6
  <2> QED BY <2>3, <2>4, <2>7 DEF SettledInv
<1>6. CallInv'
  <2>1. req = NoCall BY <1>1 DEF Inv, CallInv
  <2>2. Len(extra_roots) = 0
    <3>1. extra_roots \in Seq(Int) BY DEF Inv, TypeOK
    <3>2. Len(extra_roots) <= Len(<<>>) BY <2>1 DEF Inv, CallInv, NoCall
    <3> QED BY <3>1, <3>2
  <2>3. Small(cells'.content) BY DEF Inv, CallInv
  <2>4. DOMAIN extra_roots = {} /\ 0 <= Len(rts)
    <3>1. extra_roots \in Seq(Int) BY DEF Inv, TypeOK
    <3> QED BY <2>2, <3>1
  <2> HIDE DEF memory, chunks, queue, slide
  <2>5. \/ tag = "string"
        \/ tag = "array"
        \/ tag \in {"sexp", "closure"} /\ 1 <= n
    BY DEF Tags
  <2>6. UNCHANGED extra_roots BY <1>1
  <2>7. ~ Collecting' /\ pc' # "fill" /\ pc' # "pop_roots" /\ pc' # "client"
    BY <1>1 DEF Collecting
  <2>8. \A w : Small(w)' <=> Small(w) BY DEF Small
  <2>9. /\ req'.roots = rts /\ req'.tag = tag /\ req'.n = n /\ stack' = s BY <1>1
  <2> QED BY <2>2, <2>3, <2>4, <2>5, <2>6, <2>7, <2>8, <2>9 DEF CallInv
<1>7. BitsInv' BY <1>1 DEF Inv, BitsInv
<1>8. CollectionInv' BY <1>1, Quiet
<1> QED BY <1>1, <1>3, <1>4, <1>5, <1>6, <1>7, <1>8 DEF Inv, CollectionInv

\* What the client's stack and cells hold between two calls.
LEMMA ClientWords ==
  ASSUME Inv, pc = "client"
  PROVE  /\ stack \in Seq(Nat)
         /\ \A i \in DOMAIN stack : RootWord(stack[i], Dom)
         /\ cells \in [arg : Nat, content : Nat]
         /\ RootWord(cells.arg, Dom)
         /\ Small(cells.arg)
<1>1. Settled BY DEF Settled
<1>2. stack \in Seq(Nat) /\ cells \in [arg : Nat, content : Nat] BY DEF Inv, TypeOK
<1>3. /\ \A i \in DOMAIN stack : RootWord(stack[i], Dom)
      /\ RootWord(cells.arg, Dom)
  BY <1>1 DEF Inv, SettledInv, StackWords
<1>4. req.roots = <<>> BY DEF Inv, CallInv, NoCall
<1>5. Small(cells.arg) BY <1>4 DEF Inv, CallInv
<1> QED BY <1>2, <1>3, <1>5

\* The stack indices registered for an aggregate's arguments.
LEMMA IndicesFacts ==
  ASSUME NEW m \in Nat, NEW n \in Nat, m >= 1, n + 1 >= m
  PROVE  /\ Indices(m, n) \in Seq(Int)
         /\ \A i \in DOMAIN Indices(m, n) : Indices(m, n)[i] \in m..n
BY DEF Indices

\* call_array.
LEMMA BarrayStep == ASSUME Inv, Barray PROVE Inv'
<1>1. PICK n \in 0..Len(stack) :
        Call("array", n, Reversed(stack, n), Indices(1, n), <<>>) /\ UNCHANGED cells
  BY DEF Barray
<1> DEFINE s == Reversed(stack, n)
<1>2. pc = "client" BY <1>1 DEF Call
<1>3. stack \in Seq(Nat) /\ n \in Nat /\ n <= Len(stack) BY <1>1, <1>2, ClientWords
<1>4. s \in Seq(Nat) /\ Len(s) = Len(stack) /\ \A i \in DOMAIN s : \E j \in DOMAIN stack : s[i] = stack[j]
  BY <1>3 DEF Reversed
<1>5. \A i \in DOMAIN s : RootWord(s[i], Dom) BY <1>2, <1>4, ClientWords
<1>6. /\ Indices(1, n) \in Seq(Int)
      /\ \A i \in DOMAIN Indices(1, n) : Indices(1, n)[i] \in {ARG, CONTENT} \cup DOMAIN s
  <2>1. n >= 0 /\ DOMAIN s = 1..Len(s) BY <1>3, <1>4
  <2> HIDE DEF s
  <2> QED BY <2>1, <1>3, <1>4, IndicesFacts
<1> HIDE DEF s
<1>7. Call("array", n, s, Indices(1, n), <<>>) BY <1>1 DEF s
<1>8. /\ cells' \in [arg : Nat, content : Nat] /\ cells'.content = cells.content
      /\ RootWord(cells'.arg, Dom) /\ Small(cells'.arg)
  BY <1>1, <1>2, ClientWords
<1>9. "array" \in Tags /\ "array" \notin {"sexp", "closure"} /\ <<>> \in Seq(Nat) BY DEF Tags
<1>10. s \in Seq(Nat) /\ n <= Len(s) BY <1>3, <1>4
<1> QED BY <1>3, <1>5, <1>6, <1>7, <1>8, <1>9, <1>10, CallStep

\* boxing_sexp and closures_create, which push one word more.
LEMMA BsexpOrBclosureStep == ASSUME Inv, BsexpOrBclosure PROVE Inv'
<1>1. PICK tag \in {"sexp", "closure"}, n \in 0..Len(stack), w \in UnboxedWords :
        Call(tag, n + 1, <<w>> \o stack, Indices(2, n + 1), <<>>) /\ UNCHANGED cells
  BY DEF BsexpOrBclosure
<1> DEFINE s == <<w>> \o stack
<1>2. pc = "client" BY <1>1 DEF Call
<1>3. stack \in Seq(Nat) /\ n + 1 \in Nat /\ n <= Len(stack) BY <1>1, <1>2, ClientWords
<1>4. w \in Nat /\ UNBOXED(w) BY GCAssumption DEF GCAssumption, UNBOXED
<1>5. RootWord(w, Dom) BY <1>4 DEF RootWord, Leads, UNBOXED
<1>6. s \in Seq(Nat) /\ Len(s) = Len(stack) + 1
      /\ \A i \in DOMAIN s : s[i] = w \/ \E j \in DOMAIN stack : s[i] = stack[j]
  BY <1>3, <1>4
<1>7. \A i \in DOMAIN s : RootWord(s[i], Dom) BY <1>2, <1>5, <1>6, ClientWords
<1>8. /\ Indices(2, n + 1) \in Seq(Int)
      /\ \A i \in DOMAIN Indices(2, n + 1) : Indices(2, n + 1)[i] \in {ARG, CONTENT} \cup DOMAIN s
  <2>1. DOMAIN s = 1..Len(s) BY <1>6
  <2> HIDE DEF s
  <2>2. n + 1 + 1 >= 2 BY <1>3
  <2>3. 2..n + 1 \subseteq DOMAIN s BY <2>1, <1>3, <1>6
  <2>4. /\ Indices(2, n + 1) \in Seq(Int)
        /\ \A i \in DOMAIN Indices(2, n + 1) : Indices(2, n + 1)[i] \in 2..n + 1
    BY <1>3, <2>2, IndicesFacts
  <2> QED BY <2>3, <2>4
<1> HIDE DEF s
<1>9. Call(tag, n + 1, s, Indices(2, n + 1), <<>>) BY <1>1 DEF s
<1>10. n + 1 <= Len(s) /\ 1 <= n + 1 /\ tag \in Tags /\ <<>> \in Seq(Nat) BY <1>3, <1>6 DEF Tags
<1>11. /\ cells' \in [arg : Nat, content : Nat] /\ cells'.content = cells.content
       /\ RootWord(cells'.arg, Dom) /\ Small(cells'.arg)
  BY <1>1, <1>2, ClientWords
<1> DEFINE m == n + 1
           rts == Indices(2, m)
<1>12. /\ m \in Nat /\ m <= Len(s) /\ 1 <= m /\ s \in Seq(Nat)
       /\ rts \in Seq(Int)
       /\ \A i \in DOMAIN rts : rts[i] \in {ARG, CONTENT} \cup DOMAIN s
       /\ Call(tag, m, s, rts, <<>>)
  BY <1>3, <1>6, <1>8, <1>9, <1>10
<1> HIDE DEF m, rts
<1> QED BY <1>7, <1>10, <1>11, <1>12, CallStep

\* The string table: the root is the C string's pointer.
LEMMA BstringStep == ASSUME Inv, Bstring PROVE Inv'
<1>1. PICK str \in Strings : Call("string", 0, stack, <<CONTENT>>, str) /\ UNCHANGED cells
  BY DEF Bstring
<1>2. pc = "client" BY <1>1 DEF Call
<1>3. str \in Seq(Nat) BY GCAssumption DEF GCAssumption
<1>4. /\ <<CONTENT>> \in Seq(Int)
      /\ \A i \in DOMAIN <<CONTENT>> : <<CONTENT>>[i] \in {ARG, CONTENT} \cup DOMAIN stack
  BY DEF CONTENT
<1>5. 0 <= Len(stack) BY <1>2, ClientWords
<1> QED BY <1>1, <1>2, <1>3, <1>4, <1>5, ClientWords, CallStep DEF Tags

\* call_string: the root is the argument on the stack, or the cell it is copied to.
LEMMA LstringStep == ASSUME Inv, Lstring PROVE Inv'
<1>1. PICK str \in Strings :
        /\ stack # <<>>
        /\ Call("string", 1, stack, <<IF UNBOXED(stack[1]) THEN 1 ELSE ARG, CONTENT>>, str)
        /\ cells' = IF UNBOXED(stack[1]) THEN cells ELSE [cells EXCEPT !.arg = stack[1]]
  BY DEF Lstring
<1> DEFINE rts == <<IF UNBOXED(stack[1]) THEN 1 ELSE ARG, CONTENT>>
<1>2. pc = "client" BY <1>1 DEF Call
<1>3. str \in Seq(Nat) BY GCAssumption DEF GCAssumption
<1>4. stack \in Seq(Nat) /\ 1 <= Len(stack) /\ 1 \in DOMAIN stack /\ stack[1] \in Nat
  BY <1>1, <1>2, ClientWords
<1>5. /\ rts \in Seq(Int)
      /\ \A i \in DOMAIN rts : rts[i] \in {ARG, CONTENT} \cup DOMAIN stack
      /\ UNBOXED(stack[1]) \/ \E i \in DOMAIN rts : rts[i] = ARG
  <2>1. CASE UNBOXED(stack[1]) BY <2>1, <1>4 DEF CONTENT
  <2>2. CASE ~ UNBOXED(stack[1])
    <3>1. rts = <<ARG, CONTENT>> BY <2>2
    <3> QED BY <3>1, <1>4 DEF ARG, CONTENT
  <2> QED BY <2>1, <2>2
<1>6. /\ cells' \in [arg : Nat, content : Nat] /\ cells'.content = cells.content
      /\ cells'.arg = IF UNBOXED(stack[1]) THEN cells.arg ELSE stack[1]
  BY <1>1, <1>2, <1>4, ClientWords
<1>7. RootWord(cells'.arg, Dom) /\ (Small(cells'.arg) \/ ~ UNBOXED(stack[1]))
  BY <1>2, <1>4, <1>6, ClientWords
<1> HIDE DEF rts
<1>8. Call("string", 1, stack, rts, str) BY <1>1 DEF rts
<1> QED BY <1>2, <1>3, <1>4, <1>5, <1>6, <1>7, <1>8, ClientWords, CallStep DEF Tags

\* A part of a sequence.
LEMMA SubSeqFacts ==
  ASSUME NEW S, NEW s \in Seq(S), NEW m \in Nat, NEW n \in Nat, m >= 1, n <= Len(s)
  PROVE  /\ SubSeq(s, m, n) \in Seq(S)
         /\ Len(SubSeq(s, m, n)) = IF m <= n THEN n - m + 1 ELSE 0
         /\ DOMAIN SubSeq(s, m, n) = 1..Len(SubSeq(s, m, n))
         /\ \A i \in DOMAIN SubSeq(s, m, n) :
              m + i - 1 \in DOMAIN s /\ SubSeq(s, m, n)[i] = s[m + i - 1]
<1>1. \A i \in m..n : i \in DOMAIN s /\ s[i] \in S OBVIOUS
<1>2. /\ SubSeq(s, m, n) \in Seq(S)
      /\ Len(SubSeq(s, m, n)) = IF m <= n THEN n - m + 1 ELSE 0
      /\ \A i \in 1 .. n - m + 1 : SubSeq(s, m, n)[i] = s[m + i - 1]
  BY <1>1, SubSeqProperties
<1> DEFINE t == SubSeq(s, m, n)
<1> HIDE DEF t
<1>3. t \in Seq(S) /\ DOMAIN t = 1..Len(t) BY <1>2 DEF t
<1>4. Len(t) = (IF m <= n THEN n - m + 1 ELSE 0) /\ \A i \in 1 .. n - m + 1 : t[i] = s[m + i - 1]
  BY <1>2 DEF t
<1>5. \A i \in DOMAIN t : m + i - 1 \in DOMAIN s /\ t[i] = s[m + i - 1] BY <1>3, <1>4
<1> QED BY <1>3, <1>4, <1>5 DEF t

\* What is left of a stack when k words are popped.
LEMMA RestOfStack ==
  ASSUME NEW s \in Seq(Nat), NEW k \in Nat, k <= Len(s)
  PROVE  /\ SubSeq(s, k + 1, Len(s)) \in Seq(Nat)
         /\ \A i \in DOMAIN SubSeq(s, k + 1, Len(s)) :
              \E j \in DOMAIN s : SubSeq(s, k + 1, Len(s))[i] = s[j]
<1>1. PICK m \in Nat, n \in Nat : m = k + 1 /\ m >= 1 /\ n = Len(s) OBVIOUS
<1>2. \A i \in m..n : i \in DOMAIN s /\ s[i] \in Nat BY <1>1
<1>3. PICK t : t = SubSeq(s, m, n) OBVIOUS
<1>4. /\ t \in Seq(Nat)
      /\ Len(t) = IF m <= n THEN n - m + 1 ELSE 0
      /\ \A i \in 1 .. n - m + 1 : t[i] = s[m + i - 1]
  BY <1>2, <1>3, SubSeqProperties
<1>5. DOMAIN t = 1..Len(t) BY <1>4
<1>6. \A i \in DOMAIN t : m + i - 1 \in DOMAIN s /\ t[i] = s[m + i - 1]
  <2> TAKE i \in DOMAIN t
  <2>1. i \in 1 .. n - m + 1 BY <1>1, <1>4, <1>5
  <2>2. m + i - 1 \in m..n BY <1>1, <2>1
  <2> QED BY <1>2, <1>4, <2>1, <2>2
<1> QED BY <1>1, <1>3, <1>4, <1>6

-----------------------------------------------------------------------------
(* Steps of a runtime call outside the collection. *)

\* A step that leaves the heap and the roots' words alone.
LEMMA SameHeap ==
  ASSUME Inv, UNCHANGED <<heap, objs, stack, cells>>
  PROVE  ChunkInv' /\ (Settled /\ Settled' => SettledInv')
<1>1. ChunkInv' BY DEF Inv, ChunkInv
<1>2. UNCHANGED <<Dom, StackWords>> BY DEF Dom, StackWords
<1>3. \A w, S : (RootWord(w, S)' <=> RootWord(w, S)) /\ (Leads(w, S)' <=> Leads(w, S))
  BY DEF RootWord, Leads
<1>4. ASSUME Settled, Settled' PROVE SettledInv'
  <2>1. Tiles(Dom, heap.begin, heap.current)'
    BY <1>4 DEF Inv, SettledInv, Tiles, Dom, NextObj, ObjSize
  <2>2. (\A a \in Dom : \A w \in FieldWords(a) : Leads(w, Dom))'
    BY <1>4 DEF Inv, SettledInv, Dom, FieldWords, Leads
  <2>3. (\A w \in StackWords \cup {cells.arg, cells.content} : RootWord(w, Dom))'
    BY <1>2, <1>3, <1>4 DEF Inv, SettledInv
  <2> QED BY <2>1, <2>2, <2>3 DEF SettledInv
<1> QED BY <1>1, <1>4

\* push_extra_root, and its exit on overflow.
LEMMA PushExtraRootStep == ASSUME Inv, PushExtraRoot PROVE Inv'
<1> USE DEF memory, chunks, call, queue, slide
<1>1. /\ pc = "push_roots" /\ pc' \in {"push_roots", "exit"}
      /\ Len(extra_roots) < Len(req.roots)
      /\ \/ UNCHANGED extra_roots
         \/ extra_roots' = Append(extra_roots, req.roots[Len(extra_roots) + 1])
      /\ UNCHANGED <<memory, chunks, stack, cells, call, root, queue, slide>>
  BY DEF PushExtraRoot
<1>2. Settled /\ Settled' BY <1>1 DEF Settled
<1>3. extra_roots \in Seq(Int) /\ req.roots \in Seq(Int) BY DEF Inv, TypeOK
<1>4. /\ extra_roots' \in Seq(Int) /\ Len(extra_roots') <= Len(req.roots)
      /\ \A i \in DOMAIN extra_roots' : extra_roots'[i] = req.roots[i]
  <2>1. CASE UNCHANGED extra_roots BY <2>1, <1>1, <1>3 DEF Inv, CallInv
  <2>2. CASE extra_roots' = Append(extra_roots, req.roots[Len(extra_roots) + 1])
    <3>1. Len(extra_roots) + 1 \in DOMAIN req.roots BY <1>1, <1>3
    <3>2. req.roots[Len(extra_roots) + 1] \in Int BY <1>3, <3>1
    <3>3. \A i \in DOMAIN extra_roots : extra_roots[i] = req.roots[i] BY DEF Inv, CallInv
    <3> QED BY <1>1, <1>3, <2>2, <3>2, <3>3, SMTT(40)
  <2> QED BY <1>1, <2>1, <2>2
<1>5. TypeOK' BY <1>1, <1>4 DEF Inv, TypeOK
<1>6. ChunkInv' /\ SettledInv' BY <1>1, <1>2, SameHeap
<1>7. CallInv' BY <1>1, <1>4 DEF Inv, CallInv, Collecting, Small
<1>8. BitsInv' BY <1>1 DEF Inv, BitsInv
<1>9. CollectionInv' BY <1>1, Quiet
<1> QED BY <1>1, <1>5, <1>6, <1>7, <1>8, <1>9 DEF Inv, CollectionInv

\* pop_extra_root.
LEMMA PopExtraRootStep == ASSUME Inv, PopExtraRoot PROVE Inv'
<1> USE DEF memory, chunks, call, queue, slide
<1>1. /\ pc = "pop_roots" /\ pc' = "pop_roots" /\ extra_roots # <<>>
      /\ extra_roots' = SubSeq(extra_roots, 1, Len(extra_roots) - 1)
      /\ UNCHANGED <<memory, chunks, stack, cells, call, root, queue, slide>>
  BY DEF PopExtraRoot
<1>2. Settled /\ Settled' BY <1>1 DEF Settled
<1>3. extra_roots \in Seq(Int) /\ req.roots \in Seq(Int) BY DEF Inv, TypeOK
<1>4. /\ extra_roots' \in Seq(Int) /\ Len(extra_roots') <= Len(req.roots)
      /\ \A i \in DOMAIN extra_roots' : extra_roots'[i] = req.roots[i]
  <2> DEFINE n == Len(extra_roots) - 1
  <2>1. n \in Nat /\ n <= Len(extra_roots) BY <1>1, <1>3
  <2>2. /\ Len(extra_roots) <= Len(req.roots)
        /\ \A i \in DOMAIN extra_roots : extra_roots[i] = req.roots[i]
    BY DEF Inv, CallInv
  <2>3. extra_roots' = SubSeq(extra_roots, 1, n) BY <1>1
  <2> HIDE DEF n
  <2>4. /\ extra_roots' \in Seq(Int) /\ Len(extra_roots') = IF 1 <= n THEN n - 1 + 1 ELSE 0
        /\ \A i \in DOMAIN extra_roots' :
             1 + i - 1 \in DOMAIN extra_roots /\ extra_roots'[i] = extra_roots[1 + i - 1]
    BY <1>3, <2>1, <2>3, SubSeqFacts
  <2>5. Len(extra_roots') <= Len(req.roots) BY <1>3, <2>1, <2>2, <2>4
  <2>6. \A i \in DOMAIN extra_roots' : 1 + i - 1 = i BY <2>4
  <2> QED BY <2>2, <2>4, <2>5, <2>6
<1>5. TypeOK' BY <1>1, <1>4 DEF Inv, TypeOK
<1>6. ChunkInv' /\ SettledInv' BY <1>1, <1>2, SameHeap
<1>7. CallInv' BY <1>1, <1>4 DEF Inv, CallInv, Collecting, Small, Dom
<1>8. BitsInv' BY <1>1 DEF Inv, BitsInv
<1>9. CollectionInv' BY <1>1, Quiet
<1> QED BY <1>1, <1>5, <1>6, <1>7, <1>8, <1>9 DEF Inv, CollectionInv

\* The arguments are popped and the new object is pushed.
LEMMA ReturnStep == ASSUME Inv, Return PROVE Inv'
<1> USE DEF memory, chunks, queue, slide
<1>1. /\ pc = "pop_roots" /\ pc' = "client" /\ extra_roots = <<>>
      /\ stack' = <<Content(res)>> \o SubSeq(stack, req.n + 1, Len(stack))
      /\ cells' = [arg |-> CString, content |-> CString]
      /\ req' = NoCall /\ res' = 0
      /\ UNCHANGED <<memory, chunks, extra_roots, cur_id, root, queue, slide>>
  BY DEF Return
<1>2. Settled /\ Settled' BY <1>1 DEF Settled
<1>3. stack \in Seq(Nat) /\ req.n \in Nat /\ TypeOK BY DEF Inv, TypeOK
<1>4. req.n <= Len(stack) /\ res \in Dom BY <1>1 DEF Inv, CallInv
<1>5. Content(res) \in Nat /\ Header(Content(res)) = res BY <1>3, <1>4, ObjSizeFacts
<1>6. PICK rest \in Seq(Nat) :
        /\ rest = SubSeq(stack, req.n + 1, Len(stack))
        /\ \A i \in DOMAIN rest : \E j \in DOMAIN stack : rest[i] = stack[j]
  BY <1>3, <1>4, RestOfStack
<1>7. stack' = <<Content(res)>> \o rest BY <1>1, <1>6
<1>8. stack' \in Seq(Nat) BY <1>5, <1>6, <1>7
<1>9. \A w \in StackWords' : w = Content(res) \/ w \in StackWords
  <2>1. PICK c \in Nat : c = Content(res) BY <1>5
  <2>2. PICK s : s = <<c>> \o rest OBVIOUS
  <2>3. DOMAIN s = 1..(1 + Len(rest)) /\ Len(rest) \in Nat /\ DOMAIN rest = 1..Len(rest)
    BY <1>6, <2>2
  <2>4. ASSUME NEW i \in DOMAIN s PROVE s[i] = c \/ \E j \in DOMAIN rest : s[i] = rest[j]
    <3>1. CASE i = 1 BY <3>1, <1>6, <2>2
    <3>2. CASE i # 1
      <4>1. i - 1 \in DOMAIN rest BY <2>3, <2>4, <3>2
      <4>2. Len(<<c>>) = 1 /\ i > 1 /\ i <= Len(<<c>>) + Len(rest) BY <2>3, <2>4, <3>2
      <4>3. \A k \in 1..Len(rest) : s[k + 1] = rest[k] BY <1>6, <2>2
      <4>4. i - 1 \in 1..Len(rest) /\ (i - 1) + 1 = i BY <2>3, <4>1, <4>2
      <4>5. s[i] = rest[i - 1] BY <4>3, <4>4
      <4> QED BY <4>1, <4>5
    <3> QED BY <3>1, <3>2
  <2>5. stack' = s BY <1>7, <2>1, <2>2
  <2> QED BY <1>6, <2>1, <2>4, <2>5, SMTT(40) DEF StackWords
<1>10. CString \in Nat /\ CString > 0 /\ Small(CString) BY GCAssumption DEF GCAssumption, Small
<1>11. TypeOK'
  <2>1. NoCall \in [tag : Tags, n : Nat, roots : Seq(Int), str : Seq(Nat)] BY DEF NoCall, Tags
  <2>2. cells' \in [arg : Nat, content : Nat] BY <1>1, <1>10
  <2> QED BY <1>1, <1>8, <2>1, <2>2 DEF Inv, TypeOK
<1>12. ChunkInv' BY <1>1 DEF Inv, ChunkInv
<1>13. SettledInv'
  <2>1. \A w, S : RootWord(w, S)' <=> RootWord(w, S) BY <1>1 DEF RootWord, Leads
  <2>2. UNCHANGED Dom BY <1>1 DEF Dom
  <2>3. Tiles(Dom, heap.begin, heap.current)'
    BY <1>1, <1>2 DEF Inv, SettledInv, Tiles, Dom, NextObj, ObjSize
  <2>4. (\A a \in Dom : \A w \in FieldWords(a) : Leads(w, Dom))'
    BY <1>1, <1>2 DEF Inv, SettledInv, Dom, FieldWords, Leads
  <2>5. RootWord(Content(res), Dom)
    <3>1. heap # NoChunk BY <1>4 DEF Inv, ChunkInv, Dom
    <3> QED BY <1>4, <1>5, <3>1 DEF RootWord, Leads
  <2>6. RootWord(CString, Dom) BY <1>10 DEF RootWord, Leads
  <2>7. \A w \in StackWords : RootWord(w, Dom) BY <1>2 DEF Inv, SettledInv
  <2>8. \A w \in (StackWords \cup {cells.arg, cells.content})' : RootWord(w, Dom)
    BY <1>1, <1>9, <2>5, <2>6, <2>7
  <2> QED BY <2>1, <2>2, <2>3, <2>4, <2>8 DEF SettledInv
<1>14. CallInv'
  <2>1. Len(stack') \in Nat /\ Len(<<>>) = 0 /\ DOMAIN <<>> = {} BY <1>8
  <2>2. Small(CString)' BY <1>10 DEF Small
  <2>3. /\ req'.roots = <<>> /\ req'.n = 0 /\ req'.tag = "string" /\ extra_roots' = <<>>
        /\ cells'.arg = CString /\ cells'.content = CString
    BY <1>1 DEF NoCall
  <2>4. ~ Collecting' BY <1>1 DEF Collecting
  <2>5. Small(cells.content)' /\ Small(cells.arg)' BY <2>2, <2>3 DEF Small
  <2>6. pc' = "client" BY <1>1
  <2>7. req'.n <= Len(stack') /\ Len(extra_roots') <= Len(req'.roots)
    BY <2>1, <2>3
  <2>8. \A i \in DOMAIN req'.roots : FALSE BY <2>1, <2>3
  <2>9. \A i \in DOMAIN extra_roots' : FALSE BY <2>1, <2>3
  <2> QED BY <1>1, <2>3, <2>4, <2>5, <2>6, <2>7, <2>8, <2>9 DEF CallInv
<1>15. BitsInv' BY <1>1 DEF Inv, BitsInv
<1>16. CollectionInv' BY <1>1, Quiet
<1> QED BY <1>1, <1>11, <1>12, <1>13, <1>14, <1>15, <1>16 DEF Inv, CollectionInv

\* A request has at least the two words of a header.
LEMMA ReqSizeFacts ==
  ASSUME TypeOK
  PROVE  ReqLen \in Nat /\ ReqSize = ReqLen + 2 /\ ReqSize \in Nat
<1>1. req.n \in Nat /\ req.str \in Seq(Nat) BY DEF TypeOK
<1>2. ReqLen \in Nat BY <1>1 DEF ReqLen
<1> QED BY <1>2 DEF ReqSize

\* The tiles of the heap end where the heap does.
LEMMA TilesFacts ==
  ASSUME TypeOK, NEW lo, NEW hi \in Nat, Tiles(Dom, lo, hi)
  PROVE  \A a \in Dom : a + 4 <= hi
<1> SUFFICES ASSUME NEW a \in Dom PROVE a + 4 <= hi OBVIOUS
<1>1. NextObj(a) <= hi BY DEF Tiles
<1> QED BY <1>1, ObjSizeFacts

\* gc_alloc_on_existing_heap and the header: one more tile at the end of the heap.
LEMMA AllocStep == ASSUME Inv, Alloc PROVE Inv'
<1> USE DEF chunks, roots, queue, slide
<1>0. PICK c \in Nat : c = heap.current BY DEF Inv, TypeOK, Chunk
<1> DEFINE new == [tag |-> req.tag, id |-> cur_id + 1, body |-> [i \in 1..ReqLen |-> 0]]
<1>1. /\ pc \in {"push_roots", "retry"} /\ pc' = "fill"
      /\ pc = "push_roots" => Len(extra_roots) = Len(req.roots)
      /\ Fits
      /\ cur_id' = cur_id + 1 /\ res' = c
      /\ heap' = [heap EXCEPT !.current = @ + WORD * ReqSize]
      /\ objs' = [a \in DOMAIN objs \cup {c} |-> IF a = c THEN new ELSE objs[a]]
      /\ fwd' = [a \in DOMAIN fwd \cup {c} |-> IF a = c THEN 0 ELSE fwd[a]]
      /\ UNCHANGED <<old_heap, marked, enqueued, roots, req, root, queue, slide>>
  BY <1>0 DEF Alloc
<1>2. Settled /\ Settled' BY <1>1 DEF Settled
<1>3. TypeOK /\ ChunkInv /\ CallInv /\ BitsInv BY DEF Inv
<1>4. ReqLen \in Nat /\ ReqSize = ReqLen + 2 /\ ReqSize \in Nat BY <1>3, ReqSizeFacts
<1>5. heap \in Chunk /\ heap.current = c /\ cur_id \in Nat BY <1>0, <1>3 DEF TypeOK, Chunk
<1>6. /\ heap'.begin = heap.begin /\ heap'.end = heap.end /\ heap'.size = heap.size
      /\ heap'.current = c + 2 * ReqSize /\ heap' \in Chunk
  BY <1>1, <1>4, <1>5, SMTT(40) DEF Chunk, WORD
<1>7. c + 2 * ReqSize <= heap.end /\ heap # NoChunk /\ heap.size # 0
  <2>1. c + 2 * ReqSize <= heap.end BY <1>1, <1>5 DEF Fits, WORD
  <2>2. heap # NoChunk BY <1>4, <2>1 DEF NoChunk
  <2> QED BY <1>3, <2>1, <2>2 DEF ChunkInv
<1>8. new \in HeapObject /\ Len(new.body) = ReqLen
  <2>1. PICK zeros : zeros = [i \in 1..ReqLen |-> 0] OBVIOUS
  <2>2. zeros \in [1..ReqLen -> Nat] BY <2>1
  <2>3. zeros \in Seq(Nat) /\ Len(zeros) = ReqLen BY <1>4, <2>2, FunctionIsSeq
  <2>4. new = [tag |-> req.tag, id |-> cur_id + 1, body |-> zeros] BY <2>1
  <2>5. req.tag \in Tags BY <1>3 DEF TypeOK
  <2> QED BY <1>5, <2>3, <2>4, <2>5 DEF HeapObject
<1> HIDE DEF new
<1>9. Dom' = Dom \cup {c} /\ c \in Dom' BY <1>1 DEF Dom
<1>10. Tiles(Dom, heap.begin, c) BY <1>2, <1>5 DEF Inv, SettledInv
<1>11. \A a \in Dom : a + 4 <= c /\ a # c BY <1>3, <1>5, <1>10, TilesFacts, ObjSizeFacts
<1>12. objs'[c] = new /\ \A a \in Dom : objs'[a] = objs[a] BY <1>1, <1>11 DEF Dom
<1>13. TypeOK'
  <2> HIDE DEF chunks, queue, slide
  <2>1. IsFiniteSet(Dom') /\ Dom' \subseteq Nat
    <3>1. IsFiniteSet(Dom) /\ Dom \subseteq Nat BY <1>3, TypeFacts
    <3>2. IsFiniteSet(Dom \cup {c}) BY <3>1, FS_AddElement
    <3> QED BY <3>1, <3>2, <1>9
  <2>2. \A a \in Dom' : objs'[a] \in HeapObject BY <1>3, <1>8, <1>9, <1>12 DEF TypeOK, Dom
  <2>3. fwd' \in [Dom' -> Nat] BY <1>1, <1>3, <1>9 DEF TypeOK, Dom
  <2>4. marked' \subseteq Dom' /\ enqueued' \subseteq Dom' BY <1>1, <1>3, <1>9 DEF TypeOK, Dom
  <2>5. /\ cur_id' \in Nat /\ res' \in Nat /\ pc' = "fill"
        /\ UNCHANGED <<old_heap, marked, enqueued, stack, cells, extra_roots, req, root>>
        /\ UNCHANGED <<q_head_iter, q_tail_iter, cur_obj, field, scan, free_ptr>>
    BY <1>1, <1>5 DEF queue, slide
  <2> QED BY <1>3, <1>6, <2>1, <2>2, <2>3, <2>4, <2>5 DEF TypeOK, Dom
<1>14. ChunkInv'
  <2>1. heap'.begin \in Bases BY <1>3, <1>6, <1>7 DEF ChunkInv
  <2>2. heap'.end = heap'.begin + 2 * heap'.size BY <1>3, <1>6 DEF ChunkInv, WORD
  <2>3. heap'.begin <= heap'.current /\ heap'.current <= heap'.end
    BY <1>3, <1>4, <1>5, <1>6, <1>7 DEF ChunkInv, Chunk
  <2>4. heap' # NoChunk BY <1>6, <1>7 DEF NoChunk
  <2> QED BY <1>6, <1>7, <2>1, <2>2, <2>3, <2>4 DEF ChunkInv, WORD
<1>15. NextObj(c)' = heap'.current
  BY <1>4, <1>5, <1>6, <1>8, <1>12 DEF NextObj, ObjSize, DATA_HEADER_SZ, WORD
<1>16. \A a \in Dom : NextObj(a)' = NextObj(a) BY <1>12 DEF NextObj, ObjSize
<1>17. Tiles(Dom, heap.begin, heap.current)'
  <2>1. heap.begin \in Dom \cup {c} BY <1>10 DEF Tiles
  <2>2. \A a \in Dom' : /\ heap'.begin <= a
                        /\ NextObj(a)' <= heap'.current
                        /\ NextObj(a)' \in Dom' \cup {heap'.current}
    <3> SUFFICES ASSUME NEW a \in Dom'
                 PROVE  /\ heap'.begin <= a /\ NextObj(a)' <= heap'.current
                        /\ NextObj(a)' \in Dom' \cup {heap'.current}
      OBVIOUS
    <3>1. CASE a = c
      <4>1. heap.begin <= c BY <1>3, <1>5 DEF ChunkInv
      <4>2. c + 2 * ReqSize \in Nat BY <1>4, <1>5
      <4> QED BY <3>1, <4>1, <4>2, <1>6, <1>15
    <3>2. CASE a \in Dom
      <4>1. heap.begin <= a /\ NextObj(a) <= c /\ NextObj(a) \in Dom \cup {c}
        BY <3>2, <1>10 DEF Tiles
      <4>2. NextObj(a) \in Nat BY <1>3, <3>2, ObjSizeFacts
      <4> QED BY <4>1, <4>2, <1>4, <1>5, <1>6, <1>9, <1>16, <3>2
    <3> QED BY <3>1, <3>2, <1>9
  <2>3. \A a, b \in Dom' : a < b => NextObj(a)' <= b
    <3> SUFFICES ASSUME NEW a \in Dom', NEW b \in Dom', a < b PROVE NextObj(a)' <= b
      OBVIOUS
    <3>1. a # c
      <4>1. b \in Dom => b + 4 <= c BY <1>11
      <4>2. a \in Nat /\ b \in Nat BY <1>13 DEF TypeOK, Dom
      <4> QED BY <4>1, <4>2, <1>5, <1>9
    <3>2. NextObj(a) <= c BY <3>1, <1>9, <1>10 DEF Tiles
    <3>3. b \in Dom => NextObj(a) <= b BY <3>1, <1>9, <1>10 DEF Tiles
    <3> QED BY <3>1, <3>2, <3>3, <1>9, <1>16
  <2> QED BY <1>6, <1>9, <2>1, <2>2, <2>3 DEF Tiles
<1>18. SettledInv'
  <2>1. \A w : /\ Leads(w, Dom) => Leads(w, Dom)'
               /\ RootWord(w, Dom) => RootWord(w, Dom)'
    <3>1. heap' # NoChunk BY <1>6, <1>7 DEF NoChunk
    <3> QED BY <3>1, <1>9 DEF Leads, RootWord
  <2>2. \A a \in Dom' : \A w \in FieldWords(a)' : Leads(w, Dom)'
    <3> SUFFICES ASSUME NEW a \in Dom', NEW w \in FieldWords(a)' PROVE Leads(w, Dom)'
      OBVIOUS
    <3>1. CASE a = c
      <4>1. PICK k \in PtrFields(new) : w = new.body[k] BY <3>1, <1>12 DEF FieldWords
      <4>2. k \in 1..ReqLen /\ w = 0
        <5>1. new.body = [i \in 1..ReqLen |-> 0] BY DEF new
        <5>2. DOMAIN new.body = 1..ReqLen /\ Len(new.body) = ReqLen BY <5>1, <1>4
        <5>3. PtrFields(new) \subseteq 1..ReqLen BY <5>2, <1>4 DEF PtrFields
        <5> QED BY <4>1, <5>1, <5>3
      <4>3. Small(0)
        <5>1. CString \in Nat /\ CString > 0 /\ Small(CString) BY GCAssumption DEF GCAssumption, Small
        <5>2. \A b \in Bases : b \in Nat BY GCAssumption DEF GCAssumption
        <5> QED BY <5>1, <5>2 DEF Small
      <4> QED BY <4>2, <4>3 DEF Leads, Small
    <3>2. CASE a \in Dom
      <4>1. w \in FieldWords(a) BY <3>2, <1>12 DEF FieldWords
      <4> QED BY <4>1, <3>2, <1>2, <2>1 DEF Inv, SettledInv
    <3> QED BY <3>1, <3>2, <1>9
  <2>3. \A w \in (StackWords \cup {cells.arg, cells.content})' : RootWord(w, Dom)'
    BY <1>1, <1>2, <2>1 DEF Inv, SettledInv, StackWords
  <2> QED BY <1>17, <2>2, <2>3 DEF SettledInv
<1>19. CallInv'
  <2>1. UNCHANGED <<stack, cells, extra_roots, req>> BY <1>1
  <2>2. Len(extra_roots) = Len(req.roots) BY <1>1, <1>3 DEF CallInv, Collecting
  <2>3. ReqLen' = ReqLen BY <2>1 DEF ReqLen
  <2>4. res' \in Dom' /\ objs'[res'].tag = req'.tag /\ Len(objs'[res'].body) = ReqLen'
    BY <1>1, <1>8, <1>9, <1>12, <2>1, <2>3 DEF new
  <2>5. \A w : Small(w)' <=> Small(w) BY DEF Small
  <2> QED BY <1>1, <1>3, <2>1, <2>2, <2>4, <2>5 DEF CallInv, Collecting
<1>20. BitsInv' BY <1>1, <1>3 DEF BitsInv
<1>21. CollectionInv' BY <1>1, Quiet
<1> QED BY <1>1, <1>13, <1>14, <1>18, <1>19, <1>20, <1>21 DEF Inv, CollectionInv

\* What a call writes into its object: as many words as were allocated, and in
\* its pointer fields only words of the stack.
LEMMA FilledFacts ==
  ASSUME TypeOK, CallInv
  PROVE  /\ Filled \in Seq(Nat) /\ Len(Filled) = ReqLen
         /\ req.tag = "array" => \A k \in DOMAIN Filled : Filled[k] \in StackWords
         /\ req.tag \in {"sexp", "closure"} =>
              \A k \in 2..Len(Filled) : Filled[k] \in StackWords
<1> DEFINE n == req.n
           args == SubSeq(stack, 1, n)
<1>1. stack \in Seq(Nat) /\ n \in Nat /\ req.str \in Seq(Nat) /\ req.tag \in Tags BY DEF TypeOK
<1>2. n <= Len(stack) BY DEF CallInv
<1> HIDE DEF n
<1>3. /\ args \in Seq(Nat) /\ Len(args) = n
      /\ \A i \in DOMAIN args : args[i] \in StackWords
  <2>1. /\ args \in Seq(Nat)
        /\ Len(args) = IF 1 <= n THEN n - 1 + 1 ELSE 0
        /\ \A i \in DOMAIN args : 1 + i - 1 \in DOMAIN stack /\ args[i] = stack[1 + i - 1]
    BY <1>1, <1>2, SubSeqFacts
  <2>2. Len(args) = n BY <1>1, <2>1
  <2> QED BY <2>1, <2>2 DEF StackWords
<1> HIDE DEF args
<1>4. CASE req.tag = "string"
  BY <1>1, <1>4 DEF Filled, ReqLen
<1>5. CASE req.tag = "sexp"
  <2> DEFINE rest == SubSeq(Reversed(args, n), 1, n - 1)
  <2>1. 1 <= n BY <1>5 DEF CallInv, n
  <2>2. /\ Reversed(args, n) \in Seq(Nat) /\ Len(Reversed(args, n)) = n
        /\ \A i \in 1..n : Reversed(args, n)[i] \in StackWords
    <3>1. \A i \in 1..n : n + 1 - i \in DOMAIN args /\ args[n + 1 - i] \in Nat
      BY <1>1, <1>3
    <3>2. Reversed(args, n) = [i \in 1..n |-> args[n + 1 - i]] BY <1>1, <1>3 DEF Reversed
    <3>3. Reversed(args, n) \in [1..n -> Nat] BY <3>1, <3>2
    <3>4. Reversed(args, n) \in Seq(Nat) /\ Len(Reversed(args, n)) = n
      BY <1>1, <3>3, FunctionIsSeq
    <3>5. \A i \in 1..n : Reversed(args, n)[i] \in StackWords BY <1>3, <3>1, <3>2
    <3> QED BY <3>4, <3>5
  <2>3. /\ rest \in Seq(Nat) /\ Len(rest) = n - 1
        /\ \A i \in DOMAIN rest : rest[i] \in StackWords
    <3> DEFINE r == Reversed(args, n)
               m == n - 1
    <3>1. m \in Nat /\ m <= Len(r) /\ r \in Seq(Nat) BY <1>1, <2>1, <2>2
    <3>2. rest = SubSeq(r, 1, m) OBVIOUS
    <3> HIDE DEF r, m, rest
    <3>3. /\ rest \in Seq(Nat)
          /\ Len(rest) = IF 1 <= m THEN m - 1 + 1 ELSE 0
          /\ \A i \in DOMAIN rest : 1 + i - 1 \in DOMAIN r /\ rest[i] = r[1 + i - 1]
      BY <3>1, <3>2, SubSeqFacts
    <3>4. Len(rest) = m BY <3>1, <3>3
    <3>5. DOMAIN r = 1..n /\ \A i \in DOMAIN r : r[i] \in StackWords BY <2>2, <3>1 DEF r
    <3> QED BY <3>3, <3>4, <3>5 DEF m
  <2>4. UNBOX(args[1]) \in Nat
    <3>1. args[1] \in Nat BY <1>3, <2>1
    <3> QED BY <3>1 DEF UNBOX
  <2>5. Filled = <<UNBOX(args[1])>> \o rest BY <1>5 DEF Filled, args, n
  <2> HIDE DEF rest
  <2>6. Filled \in Seq(Nat) /\ Len(Filled) = n BY <1>1, <2>3, <2>4, <2>5
  <2>7. \A k \in 2..Len(Filled) : k - 1 \in DOMAIN rest /\ Filled[k] = rest[k - 1]
    BY <1>1, <2>3, <2>4, <2>5, <2>6
  <2> QED BY <1>5, <2>3, <2>6, <2>7 DEF ReqLen, n
<1>6. CASE req.tag \in {"array", "closure"}
  <2>1. Filled = args BY <1>6 DEF Filled, args, n
  <2>2. ReqLen = n BY <1>6 DEF ReqLen, n
  <2> QED BY <1>3, <1>6, <2>1, <2>2
<1> QED BY <1>1, <1>4, <1>5, <1>6 DEF Tags

\* The contents of the new object are words of the stack.
LEMMA FillStep == ASSUME Inv, Fill PROVE Inv'
<1> USE DEF chunks, roots, call, queue, slide
<1>1. /\ pc = "fill" /\ pc' = "pop_roots"
      /\ objs' = [objs EXCEPT ![res].body = Filled]
      /\ UNCHANGED <<fwd, marked, enqueued, chunks, roots, call, root, queue, slide>>
  BY DEF Fill
<1>2. Settled /\ Settled' BY <1>1 DEF Settled
<1>3. TypeOK /\ CallInv /\ BitsInv BY DEF Inv
<1>4. PICK h \in Dom : h = res /\ objs[h].tag = req.tag /\ Len(objs[h].body) = ReqLen
  BY <1>1, <1>3 DEF CallInv
<1>5. PICK b \in Seq(Nat) : b = Filled BY <1>3, FilledFacts
<1>6. objs[h] \in HeapObject BY <1>3, TypeFacts
<1>7. objs' = [objs EXCEPT ![h].body = b] BY <1>1, <1>4, <1>5
<1>8. objs'[h] = [tag |-> objs[h].tag, id |-> objs[h].id, body |-> b]
  BY <1>6, <1>7, BodyReplaced
<1>9. Len(b) = Len(objs[h].body) BY <1>3, <1>4, <1>5, FilledFacts
<1>10. \A k \in PtrFields(objs'[h]) : Leads(b[k], Dom)
  <2>1. \A k \in PtrFields(objs'[h]) : b[k] \in StackWords
    <3>1. objs'[h].tag = req.tag /\ objs'[h].body = b BY <1>4, <1>8
    <3>2. req.tag \in Tags BY <1>3 DEF TypeOK
    <3>3. /\ req.tag = "array" => \A k \in DOMAIN b : b[k] \in StackWords
          /\ req.tag \in {"sexp", "closure"} => \A k \in 2..Len(b) : b[k] \in StackWords
      BY <1>3, <1>5, FilledFacts
    <3> QED BY <3>1, <3>2, <3>3 DEF PtrFields, Tags
  <2> QED BY <1>2, <2>1 DEF Inv, SettledInv, RootWord
<1>11. UNCHANGED <<fwd, marked, enqueued, chunks, stack, cells>> BY <1>1
<1>12. /\ Dom' = Dom
       /\ \A a \in Dom : objs'[a] \in HeapObject
       /\ ChunkInv'
       /\ SettledInv'
  BY <1>2, <1>7, <1>9, <1>10, <1>11, BodyStep
<1>13. TypeOK' BY <1>1, <1>3, <1>12 DEF TypeOK, Dom
<1>14. CallInv' BY <1>1, <1>3, <1>4, <1>12 DEF CallInv, Collecting, Small
<1>15. BitsInv' BY <1>1, <1>3 DEF BitsInv
<1>16. CollectionInv' BY <1>1, Quiet
<1> QED BY <1>1, <1>12, <1>13, <1>14, <1>15, <1>16 DEF Inv, CollectionInv
-----------------------------------------------------------------------------
(* Steps of the collection: marking. *)

\* gc_alloc: nothing has been marked when the scan of the roots begins.
LEMMA GcAllocStep == ASSUME Inv, GcAlloc PROVE Inv'
<1> USE DEF memory, chunks, roots, call, queue, slide
<1>1. /\ pc = "push_roots" /\ pc' = "scan_roots" /\ root' = 1
      /\ Len(extra_roots) = Len(req.roots)
      /\ UNCHANGED <<memory, chunks, roots, call, queue, slide>>
  BY DEF GcAlloc
<1>2. Settled /\ Settled' BY <1>1 DEF Settled
<1>3. marked = {} /\ enqueued = {} BY <1>1 DEF Inv, BitsInv
<1>4. TypeOK' BY <1>1 DEF Inv, TypeOK
<1>5. ChunkInv' /\ SettledInv' BY <1>1, <1>2, SameHeap
<1>6. CallInv' BY <1>1 DEF Inv, CallInv, Small
<1>7. BitsInv' BY <1>1, <1>3 DEF Inv, BitsInv
<1>8. MarkInv'
  <2>1. marked' = {} /\ enqueued' = {} BY <1>1, <1>3
  <2>2. \A i \in DOMAIN RootWords' : ~ i < root'
    <3>1. DOMAIN RootWords' \subseteq Nat \ {0}
      <4>1. stack' \in Seq(Nat) /\ extra_roots' \in Seq(Int) BY <1>4 DEF TypeOK
      <4> QED BY <4>1 DEF RootWords
    <3> QED BY <1>1, <3>1
  <2>3. FieldsMet' /\ OnlyReachable' BY <2>1 DEF FieldsMet, OnlyReachable
  <2>4. RootsMet' BY <1>1, <2>2 DEF RootsMet
  <2> QED BY <1>1, <2>3, <2>4 DEF MarkInv
<1>9. /\ QueueInv' /\ ComputeInv' /\ NewChunkInv' /\ UpdateInv' /\ RelocateInv'
  BY <1>1 DEF QueueInv, ComputeInv, NewChunkInv, UpdateInv, RelocateInv
<1> QED BY <1>1, <1>4, <1>5, <1>6, <1>7, <1>8, <1>9 DEF Inv

\* A step of the collection that leaves objects and roots alone.
LEMMA CollectingFrame ==
  ASSUME Inv, UNCHANGED <<objs, chunks, roots, call>>, Collecting, Collecting'
  PROVE  /\ ChunkInv' /\ CallInv'
         /\ Settled /\ Settled' => SettledInv'
         /\ Dom' = Dom /\ RootWords' = RootWords
<1> USE DEF chunks, roots, call
<1>1. ChunkInv' /\ (Settled /\ Settled' => SettledInv') BY SameHeap
<1>2. pc' # "client" /\ pc' # "fill" /\ pc' # "pop_roots" BY DEF Collecting
<1>3. CallInv' BY <1>2 DEF Inv, CallInv, Small
<1>4. Dom' = Dom BY DEF Dom
<1>5. RootWords' = RootWords BY DEF RootWords, Deref
<1> QED BY <1>1, <1>3, <1>4, <1>5

\* The roots are words of the stack and the call's cells.
LEMMA RootWordsFacts ==
  ASSUME TypeOK, CallInv
  PROVE  /\ RootWords \in Seq(Nat)
         /\ \A i \in DOMAIN RootWords :
              /\ i \in Nat /\ 1 <= i /\ i <= Len(RootWords)
              /\ RootWords[i] \in StackWords \cup {cells.arg, cells.content}
         /\ DOMAIN RootWords = 1..Len(RootWords)
<1> DEFINE ext == [i \in 1..Len(extra_roots) |-> Deref(extra_roots[i])]
<1>1. /\ stack \in Seq(Nat) /\ extra_roots \in Seq(Int)
      /\ cells.arg \in Nat /\ cells.content \in Nat /\ req.roots \in Seq(Int)
  BY DEF TypeOK
<1>2. \A i \in 1..Len(extra_roots) :
        Deref(extra_roots[i]) \in (StackWords \cup {cells.arg, cells.content}) \cap Nat
  <2> TAKE i \in 1..Len(extra_roots)
  <2>1. i \in DOMAIN extra_roots /\ i \in DOMAIN req.roots BY <1>1, SMTT(40) DEF CallInv
  <2>2. extra_roots[i] \in {ARG, CONTENT} \cup DOMAIN stack BY <2>1 DEF CallInv
  <2> QED BY <1>1, <2>2 DEF Deref, StackWords
<1>3. ext \in Seq(Nat) /\ Len(ext) = Len(extra_roots)
      /\ \A i \in DOMAIN ext : ext[i] \in StackWords \cup {cells.arg, cells.content}
  <2>1. Len(extra_roots) \in Nat /\ ext \in [1..Len(extra_roots) -> Nat] BY <1>1, <1>2
  <2>2. ext \in Seq(Nat) /\ Len(ext) = Len(extra_roots) BY <2>1, FunctionIsSeq
  <2> QED BY <1>2, <2>2
<1>4. RootWords = stack \o ext BY DEF RootWords
<1> HIDE DEF ext
<1>5. RootWords \in Seq(Nat) /\ Len(RootWords) = Len(stack) + Len(ext)
  BY <1>1, <1>3, <1>4, ConcatProperties
<1>6. \A i \in 1..Len(RootWords) : RootWords[i] \in StackWords \cup {cells.arg, cells.content}
  <2> TAKE i \in 1..Len(RootWords)
  <2>1. CASE i <= Len(stack) BY <2>1, <1>1, <1>3, <1>4, <1>5 DEF StackWords
  <2>2. CASE i > Len(stack)
    <3>1. i - Len(stack) \in DOMAIN ext BY <2>2, <1>1, <1>3, <1>5
    <3>2. RootWords[i] = ext[i - Len(stack)] BY <2>2, <1>1, <1>3, <1>4, <1>5
    <3> QED BY <1>3, <3>1, <3>2
  <2> QED BY <2>1, <2>2, <1>1, <1>5
<1> QED BY <1>5, <1>6

\* A root that is a valid pointer leads to an object.
LEMMA RootObject ==
  ASSUME Inv, Settled, NEW i \in DOMAIN RootWords, IsValidHeapPointer(RootWords[i])
  PROVE  /\ Header(RootWords[i]) \in Dom
         /\ Header(RootWords[i]) \in Targets(RootSet)
<1>1. TypeOK /\ CallInv /\ ChunkInv BY DEF Inv
<1>2. /\ RootWords[i] \in Nat
      /\ RootWords[i] \in StackWords \cup {cells.arg, cells.content}
  BY <1>1, RootWordsFacts
<1>3. RootWord(RootWords[i], Dom) BY <1>2 DEF Inv, SettledInv
<1>4. Header(RootWords[i]) \in Dom BY <1>1, <1>2, <1>3, ValidIsObject
<1> QED BY <1>4 DEF Targets, RootSet

\* The heap begins with an object, unless there is none.
LEMMA FirstObject ==
  ASSUME Inv, Settled, Dom # {}
  PROVE  heap.begin \in Dom
<1>1. Tiles(Dom, heap.begin, heap.current) /\ TypeOK BY DEF Inv, SettledInv
<1>2. heap.begin \in Nat /\ heap.current \in Nat /\ Dom \subseteq Nat BY <1>1, TypeFacts
<1>3. PICK a \in Dom : TRUE OBVIOUS
<1>4. heap.begin <= a /\ a + 4 <= heap.current BY <1>1, <1>2, TilesFacts DEF Tiles
<1> QED BY <1>1, <1>2, <1>4 DEF Tiles

\* gc_test_and_mark_root: the queue starts with the root's object.
LEMMA MarkRootStep == ASSUME Inv, MarkRoot PROVE Inv'
<1> USE DEF chunks, roots, call, queue, slide
<1> DEFINE p == RootWords[root]
<1>1. /\ pc = "scan_roots" /\ root <= Len(RootWords)
      /\ UNCHANGED <<objs, marked, chunks, roots, call, cur_obj, field, slide>>
  BY DEF MarkRoot
<1>2. TypeOK /\ CallInv /\ MarkInv /\ BitsInv BY DEF Inv
<1>3. Settled /\ Collecting BY <1>1 DEF Settled, Collecting
<1>4. root \in Nat /\ 1 <= root /\ root \in DOMAIN RootWords
  BY <1>1, <1>2, RootWordsFacts DEF TypeOK, MarkInv
<1>5. enqueued = {} /\ cur_obj = 0 /\ field = 0 BY <1>1, <1>2 DEF BitsInv
<1>6. CASE ~ IsValidHeapPointer(p) \/ Header(p) \in marked
  <2>1. pc' = pc /\ root' = root + 1 /\ UNCHANGED <<fwd, enqueued, q_head_iter, q_tail_iter>>
    BY <1>1, <1>6 DEF MarkRoot
  <2>2. TypeOK' BY <1>1, <1>2, <1>4, <2>1 DEF TypeOK
  <2>3. Settled' /\ Collecting' BY <1>1, <2>1 DEF Settled, Collecting
  <2>4. ChunkInv' /\ CallInv' /\ SettledInv' /\ Dom' = Dom /\ RootWords' = RootWords
    BY <1>1, <1>3, <2>3, CollectingFrame
  <2>5. BitsInv' BY <1>1, <1>2, <2>1 DEF BitsInv
  <2>6. Met(p) BY <1>6 DEF Met
  <2>7. MarkInv'
    <3>1. \A w : Met(w)' <=> Met(w) BY <1>1, <2>1 DEF Met, IsValidHeapPointer
    <3>2. \A i \in DOMAIN RootWords : i < root + 1 => Met(RootWords[i])
      <4> SUFFICES ASSUME NEW i \in DOMAIN RootWords, i < root + 1 PROVE Met(RootWords[i])
        OBVIOUS
      <4>1. i \in Nat BY <1>2, RootWordsFacts
      <4>2. i = root \/ i < root BY <1>4, <4>1
      <4> QED BY <1>1, <1>2, <2>6, <4>2 DEF MarkInv, RootsMet
    <3>3. \A S : /\ Targets(S)' = Targets(S)
                 /\ ClosedUnderFields(S)' <=> ClosedUnderFields(S)
      BY <1>1 DEF Targets, ClosedUnderFields, FieldWords, IsValidHeapPointer
    <3>4. Targets(RootSet)' = Targets(RootSet)
      BY <1>1, <2>4 DEF Targets, RootSet, IsValidHeapPointer
    <3>5. OnlyReachable'
      BY <1>1, <1>2, <2>1, <2>4, <3>3, <3>4 DEF MarkInv, OnlyReachable
    <3>6. FieldsMet' BY <1>1, <1>2, <2>1, <3>1 DEF MarkInv, FieldsMet
    <3>7. RootsMet' BY <1>1, <2>1, <2>4, <3>1, <3>2 DEF RootsMet
    <3> QED BY <1>1, <1>4, <2>1, <3>5, <3>6, <3>7 DEF MarkInv
  <2>8. QueueInv' /\ ComputeInv' /\ NewChunkInv' /\ UpdateInv' /\ RelocateInv' /\ pc' # "retry"
    BY <1>1, <2>1 DEF QueueInv, ComputeInv, NewChunkInv, UpdateInv, RelocateInv
  <2> QED BY <2>2, <2>4, <2>5, <2>7, <2>8 DEF Inv
<1>7. CASE IsValidHeapPointer(p) /\ Header(p) \notin marked
  <2>1. PICK b \in Dom : b = heap.begin
    BY <1>3, <1>4, <1>7, RootObject, FirstObject
  <2>2. PICK y \in Dom : y = Header(p) /\ y \in Targets(RootSet) BY <1>3, <1>4, <1>7, RootObject
  <2>3. PICK q \in Nat : q = p BY <1>2, <1>4, RootWordsFacts
  <2>4. PICK t \in Nat : t = NextObj(b) BY <1>2, ObjSizeFacts
  <2>5. /\ pc' = "mark" /\ root' = root /\ q_head_iter' = b
        /\ fwd' = [fwd EXCEPT ![b] = q] /\ enqueued' = {y} /\ q_tail_iter' = t
    BY <1>1, <1>5, <1>7, <2>1, <2>2, <2>3, <2>4 DEF MarkRoot, Enqueue
  <2>6. Dom \subseteq Nat /\ IsFiniteSet(Dom) /\ fwd \in [Dom -> Nat] /\ marked \subseteq Dom
    BY <1>2, TypeFacts
  <2>7. TypeOK'
    <3>1. fwd' \in [Dom -> Nat] BY <2>5, <2>6
    <3>2. enqueued' \subseteq Dom BY <2>5
    <3>3. b \in Nat BY <2>6
    <3> QED BY <1>1, <1>2, <2>5, <3>1, <3>2, <3>3 DEF TypeOK, Dom
  <2>8. Settled' /\ Collecting' BY <2>5 DEF Settled, Collecting
  <2>9. ChunkInv' /\ CallInv' /\ SettledInv' /\ Dom' = Dom /\ RootWords' = RootWords
    BY <1>1, <1>3, <2>8, CollectingFrame
  <2>10. BitsInv' BY <1>1, <1>7, <2>2, <2>5 DEF BitsInv
  <2>11. QueueInv'
    <3>1. Tiles(Dom, heap.begin, heap.current) BY <1>3 DEF Inv, SettledInv
    <3>2. t \in Dom \cup {heap.current} /\ b < t /\ \A a \in Dom : b <= a /\ (a < t => a = b)
      <4>1. t \in Dom \cup {heap.current} BY <2>4, <3>1 DEF Tiles
      <4>2. b < t BY <1>2, <2>4, <2>6, ObjSizeFacts
      <4>3. \A a \in Dom : b <= a /\ (b < a => t <= a) BY <2>1, <2>4, <3>1 DEF Tiles
      <4> QED BY <4>1, <4>2, <4>3, <2>6
    <3>3. InQueue' = {b}
      <4>1. InQueue' = {a \in Dom : b <= a /\ a < t} BY <2>5, <2>9 DEF InQueue, Dom
      <4> QED BY <4>1, <3>2
    <3>4. fwd'[b] = q /\ Header(q) = y BY <2>2, <2>3, <2>5, <2>6
    <3>5. Before(t)' = {b}
      <4>1. Before(t)' = {a \in Dom : a < t} BY <2>9 DEF Before
      <4> QED BY <4>1, <3>2
    <3>6. Cardinality({b}) <= Cardinality((marked \cup enqueued)')
      <4>1. (marked \cup enqueued)' \subseteq Dom BY <1>1, <2>5, <2>6
      <4>2. IsFiniteSet((marked \cup enqueued)') BY <2>6, <4>1, FS_Subset
      <4>3. {y} \subseteq (marked \cup enqueued)' BY <2>5
      <4>4. Cardinality({y}) <= Cardinality((marked \cup enqueued)') BY <4>2, <4>3, FS_Subset
      <4> QED BY <4>4, FS_Singleton
    <3>7. /\ q_head_iter' \in Dom' /\ q_tail_iter' \in Dom' \cup {heap'.current}
          /\ q_head_iter' <= q_tail_iter' /\ cur_obj' = 0 /\ field' = 0
      BY <1>1, <1>5, <2>5, <2>6, <2>9, <3>2
    <3>8. Before(q_tail_iter)' = {b} BY <2>5, <2>9, <3>2 DEF Before
    <3>9. \A a \in InQueue' : Header(fwd'[a]) \in enqueued' BY <2>5, <3>3, <3>4
    <3>10. \A x \in enqueued' : \E a \in InQueue' : x = Header(fwd'[a]) BY <2>5, <3>3, <3>4
    <3>11. \A a, c \in InQueue' : fwd'[a] = fwd'[c] => a = c BY <3>3
    <3> QED BY <3>6, <3>7, <3>8, <3>9, <3>10, <3>11 DEF QueueInv
  <2>12. MarkInv'
    <3>1. \A w : Met(w) => Met(w)' BY <1>1, <1>5 DEF Met, IsValidHeapPointer
    <3>2. Met(q)' BY <1>1, <2>2, <2>3, <2>5 DEF Met, IsValidHeapPointer
    <3>3. RootsMet'
      <4>1. \A i \in DOMAIN RootWords : i < root => Met(RootWords[i])
        BY <1>1, <1>2 DEF MarkInv, RootsMet
      <4>2. \A i \in DOMAIN RootWords : i < root \/ i = root => Met(RootWords[i])'
        BY <2>3, <2>9, <3>1, <3>2, <4>1
      <4> QED BY <2>5, <2>9, <4>2 DEF RootsMet
    <3>4. \A S : ClosedUnderFields(S)' <=> ClosedUnderFields(S)
      BY <1>1 DEF Targets, ClosedUnderFields, FieldWords, IsValidHeapPointer
    <3>5. Targets(RootSet)' = Targets(RootSet)
      BY <1>1, <2>9 DEF Targets, RootSet, IsValidHeapPointer
    <3>6. OnlyReachable'
      BY <1>1, <1>2, <2>2, <2>5, <2>9, <3>4, <3>5 DEF MarkInv, OnlyReachable
    <3>7. FieldsMet' BY <1>1, <1>2, <1>5, <3>1 DEF MarkInv, FieldsMet
    <3>8. root' <= Len(RootWords') /\ 1 <= root' BY <1>1, <1>4, <2>5, <2>9
    <3> QED BY <2>5, <3>3, <3>6, <3>7, <3>8 DEF MarkInv
  <2>13. ComputeInv' /\ NewChunkInv' /\ UpdateInv' /\ RelocateInv' /\ pc' # "retry"
    BY <2>5 DEF ComputeInv, NewChunkInv, UpdateInv, RelocateInv
  <2> QED BY <2>7, <2>9, <2>10, <2>11, <2>12, <2>13 DEF Inv
<1> QED BY <1>6, <1>7

\* The objects in the queue lie before its tail, and all lie in the heap.
LEMMA QueueFacts ==
  ASSUME Inv, pc = "mark"
  PROVE  /\ TypeOK /\ CallInv /\ MarkInv /\ BitsInv /\ QueueInv
         /\ Settled /\ Collecting
         /\ Tiles(Dom, heap.begin, heap.current)
         /\ IsFiniteSet(Dom) /\ Dom \subseteq Nat /\ fwd \in [Dom -> Nat]
         /\ marked \subseteq Dom /\ enqueued \subseteq Dom
         /\ heap.current \in Nat
         /\ \A a \in Dom : a < heap.current
         /\ FieldsMet /\ RootsMet /\ OnlyReachable
         /\ 1 <= root /\ root <= Len(RootWords)
<1>1. TypeOK /\ CallInv /\ MarkInv /\ BitsInv /\ QueueInv BY DEF Inv
<1>2. Settled /\ Collecting BY DEF Settled, Collecting
<1>3. Tiles(Dom, heap.begin, heap.current) BY <1>2 DEF Inv, SettledInv
<1>4. /\ IsFiniteSet(Dom) /\ Dom \subseteq Nat /\ fwd \in [Dom -> Nat]
      /\ marked \subseteq Dom /\ enqueued \subseteq Dom /\ heap.current \in Nat
  BY <1>1, TypeFacts
<1>5. \A a \in Dom : a < heap.current
  <2>1. \A a \in Dom : a + 4 <= heap.current BY <1>1, <1>3, <1>4, TilesFacts
  <2> QED BY <1>4, <2>1
<1>6. /\ FieldsMet /\ RootsMet /\ OnlyReachable
      /\ 1 <= root /\ root <= Len(RootWords)
  BY <1>1 DEF MarkInv
<1> QED BY <1>1, <1>2, <1>3, <1>4, <1>5, <1>6

\* A step of mark that leaves the set of met objects alone.
LEMMA SameMet ==
  ASSUME Inv, pc = "mark", pc' \in {"mark", "scan_roots"},
         UNCHANGED <<objs, chunks, roots, call>>,
         (marked \cup enqueued)' = marked \cup enqueued
  PROVE  /\ \A w : Met(w)' <=> Met(w)
         /\ OnlyReachable'
         /\ pc' = "mark" /\ root' = root => RootsMet'
         /\ Dom' = Dom /\ RootWords' = RootWords
         /\ ChunkInv' /\ CallInv' /\ SettledInv'
<1> USE DEF chunks, roots, call
<1>1. \A w : Met(w)' <=> Met(w) BY DEF Met, IsValidHeapPointer
<1>2. Settled' /\ Collecting' BY DEF Settled, Collecting
<1>3. Dom' = Dom /\ RootWords' = RootWords /\ ChunkInv' /\ CallInv' /\ SettledInv'
  BY <1>2, QueueFacts, CollectingFrame
<1>4. \A S : /\ Targets(S)' = Targets(S)
             /\ ClosedUnderFields(S)' <=> ClosedUnderFields(S)
  BY DEF Targets, ClosedUnderFields, FieldWords, IsValidHeapPointer
<1>5. Targets(RootSet)' = Targets(RootSet)
  BY <1>3 DEF Targets, RootSet, IsValidHeapPointer
<1>6. OnlyReachable' BY <1>3, <1>4, <1>5, QueueFacts DEF OnlyReachable
<1>7. pc' = "mark" /\ root' = root => RootsMet'
  <2> SUFFICES ASSUME pc' = "mark", root' = root PROVE RootsMet' OBVIOUS
  <2>1. \A i \in DOMAIN RootWords : i < root \/ i = root => Met(RootWords[i])
    BY QueueFacts DEF RootsMet
  <2> QED BY <1>1, <1>3, <2>1 DEF RootsMet
<1> QED BY <1>1, <1>3, <1>6, <1>7

\* The object at the head of the queue is marked.
LEMMA DequeueStep == ASSUME Inv, Dequeue PROVE Inv'
<1> USE DEF chunks, roots, call, slide
<1>1. /\ pc = "mark" /\ pc' = "mark" /\ cur_obj = 0 /\ q_head_iter # q_tail_iter
      /\ UNCHANGED <<objs, fwd, chunks, roots, call, root, q_tail_iter, slide>>
  BY DEF Dequeue
<1>2. /\ TypeOK /\ BitsInv /\ QueueInv /\ FieldsMet
      /\ Tiles(Dom, heap.begin, heap.current)
      /\ IsFiniteSet(Dom) /\ Dom \subseteq Nat /\ fwd \in [Dom -> Nat]
      /\ marked \subseteq Dom /\ enqueued \subseteq Dom
      /\ heap.current \in Nat
      /\ \A a \in Dom : a < heap.current
      /\ 1 <= root /\ root <= Len(RootWords)
  BY <1>1, QueueFacts
<1>3. PICK h \in Dom : h = q_head_iter
  <2>1. /\ q_head_iter \in Dom \cup {heap.current} /\ q_tail_iter \in Dom \cup {heap.current}
        /\ q_head_iter <= q_tail_iter
    BY <1>1, <1>2 DEF QueueInv
  <2> QED BY <1>1, <1>2, <2>1
<1>4. PICK t \in Dom \cup {heap.current} : t = q_tail_iter /\ h < t /\ t \in Nat
  BY <1>1, <1>2, <1>3 DEF QueueInv
<1>5. PICK p \in Nat : p = fwd[h] BY <1>2, <1>3
<1>6. PICK x \in enqueued : x = Header(p) /\ x \in Dom
  <2>1. h \in InQueue BY <1>2, <1>3, <1>4 DEF InQueue, Dom
  <2> QED BY <1>1, <1>2, <1>3, <1>5, <2>1 DEF QueueInv
<1>7. x \in Nat /\ p = x + 4 BY <1>2, <1>5, <1>6 DEF Header, DATA_HEADER_SZ, WORD
<1>8. PICK n \in Nat : n = NextObj(h) BY <1>2, ObjSizeFacts
<1>9. /\ cur_obj' = p /\ enqueued' = enqueued \ {x} /\ marked' = marked \cup {x}
      /\ q_head_iter' = n /\ field' = 1
  BY <1>1, <1>3, <1>5, <1>6, <1>8 DEF Dequeue
<1>10. h < n /\ n <= t /\ n \in Dom \cup {heap.current}
       /\ \A a \in Dom : h <= a => a = h \/ n <= a
  <2>1. h < n BY <1>2, <1>8, ObjSizeFacts
  <2>2. n <= t /\ n \in Dom \cup {heap.current} BY <1>2, <1>4, <1>8 DEF Tiles
  <2>3. \A a \in Dom : h < a => n <= a BY <1>2, <1>8 DEF Tiles
  <2> QED BY <1>2, <2>1, <2>2, <2>3
<1>11. (marked \cup enqueued)' = marked \cup enqueued BY <1>6, <1>9
<1>12. /\ \A w : Met(w)' <=> Met(w)
       /\ OnlyReachable' /\ RootsMet'
       /\ Dom' = Dom /\ RootWords' = RootWords
       /\ ChunkInv' /\ CallInv' /\ SettledInv'
  BY <1>1, <1>11, SameMet
<1>13. TypeOK' BY <1>1, <1>2, <1>6, <1>9, <1>12 DEF TypeOK, Dom
<1>14. BitsInv' BY <1>1, <1>2, <1>6, <1>9 DEF BitsInv
<1>15. FieldsMet'
  <2>1. \A k \in PtrFields(objs[x]) : ~ k < 1
    <3>1. \A k \in PtrFields(objs[x]) : k \in 1..Len(objs[x].body) BY <1>2, <1>6, FieldFacts
    <3> QED BY <3>1
  <2>2. \A a \in marked : \A k \in PtrFields(objs[a]) : Met(objs[a].body[k])
    BY <1>1, <1>2 DEF FieldsMet
  <2>3. Header(cur_obj)' = x /\ cur_obj' # 0 BY <1>6, <1>7, <1>9 DEF Header
  <2> QED BY <1>1, <1>9, <1>12, <2>1, <2>2, <2>3 DEF FieldsMet
<1>16. MarkInv' BY <1>1, <1>2, <1>12, <1>15 DEF MarkInv
<1>17. QueueInv'
  <2>1. InQueue' = InQueue \ {h}
    <3>1. InQueue = {a \in Dom : h <= a /\ a < t} BY <1>3, <1>4 DEF InQueue, Dom
    <3>2. InQueue' = {a \in Dom : n <= a /\ a < t} BY <1>1, <1>4, <1>9, <1>12 DEF InQueue, Dom
    <3>3. \A a \in Dom : n <= a <=> h <= a /\ a # h BY <1>2, <1>8, <1>10
    <3> QED BY <3>1, <3>2, <3>3
  <2>2. h \in InQueue BY <1>2, <1>3, <1>4 DEF InQueue, Dom
  <2>3. /\ \A a \in InQueue : Header(fwd[a]) \in enqueued
        /\ \A a, b \in InQueue : fwd[a] = fwd[b] => a = b
        /\ \A y \in enqueued : \E a \in InQueue : y = Header(fwd[a])
        /\ Cardinality(Before(q_tail_iter)) <= Cardinality(marked \cup enqueued)
    BY <1>1, <1>2 DEF QueueInv
  <2>4. \A a \in InQueue \ {h} : Header(fwd[a]) # x
    <3> TAKE a \in InQueue \ {h}
    <3>1. fwd[a] # p BY <1>5, <2>2, <2>3
    <3>2. fwd[a] \in Nat BY <1>2 DEF InQueue, Dom
    <3> QED BY <1>5, <1>6, <3>1, <3>2 DEF Header, DATA_HEADER_SZ, WORD
  <2>5. \A a \in InQueue' : Header(fwd'[a]) \in enqueued' BY <1>1, <1>9, <2>1, <2>3, <2>4
  <2>6. \A a, b \in InQueue' : fwd'[a] = fwd'[b] => a = b BY <1>1, <2>1, <2>3
  <2>7. \A y \in enqueued' : \E a \in InQueue' : y = Header(fwd'[a])
    <3> SUFFICES ASSUME NEW y \in enqueued' PROVE \E a \in InQueue' : y = Header(fwd'[a])
      OBVIOUS
    <3>1. y \in enqueued /\ y # x BY <1>9
    <3>2. PICK a \in InQueue : y = Header(fwd[a]) BY <2>3, <3>1
    <3>3. a # h BY <1>5, <1>6, <3>1, <3>2
    <3> QED BY <1>1, <2>1, <3>2, <3>3
  <2>8. Cardinality(Before(q_tail_iter))' <= Cardinality(marked \cup enqueued)'
    BY <1>1, <1>11, <1>12, <2>3 DEF Before
  <2>9. Header(cur_obj)' = x /\ 1 \in 1..(Len(objs[x].body) + 1)
    <3>1. Len(objs[x].body) \in Nat BY <1>2, <1>6, FieldFacts
    <3> QED BY <1>6, <1>9, <3>1 DEF Header
  <2>10. /\ q_head_iter' \in Dom' \cup {heap'.current} /\ q_tail_iter' \in Dom' \cup {heap'.current}
         /\ q_head_iter' <= q_tail_iter'
    BY <1>1, <1>4, <1>9, <1>10, <1>12
  <2>11. /\ Header(cur_obj)' \in marked'
         /\ field' \in 1..(Len(objs'[Header(cur_obj)'].body) + 1)
         /\ cur_obj' # 0
    BY <1>1, <1>7, <1>9, <2>9
  <2> QED BY <1>1, <2>5, <2>6, <2>7, <2>8, <2>10, <2>11 DEF QueueInv
<1>18. ComputeInv' /\ NewChunkInv' /\ UpdateInv' /\ RelocateInv' /\ pc' # "retry"
  BY <1>1 DEF ComputeInv, NewChunkInv, UpdateInv, RelocateInv
<1> QED BY <1>12, <1>13, <1>14, <1>16, <1>17, <1>18 DEF Inv

\* The object whose fields are being scanned, and the next field.
LEMMA ScannedObject ==
  ASSUME Inv, pc = "mark", cur_obj # 0
  PROVE  /\ Header(cur_obj) \in Dom /\ Header(cur_obj) \in marked
         /\ field \in Nat /\ 1 <= field
         /\ field <= Len(objs[Header(cur_obj)].body) + 1
         /\ Len(objs[Header(cur_obj)].body) \in Nat
<1>1. TypeOK /\ QueueInv /\ marked \subseteq Dom BY QueueFacts
<1>2. /\ Header(cur_obj) \in marked
      /\ field \in 1..(Len(objs[Header(cur_obj)].body) + 1)
  BY <1>1 DEF QueueInv
<1>3. Len(objs[Header(cur_obj)].body) \in Nat BY <1>1, <1>2, FieldFacts
<1> QED BY <1>1, <1>2, <1>3

\* What is about to be enqueued is an object that has not been met, and one that
\* the field of the object being scanned leads to.
LEMMA NewObjectMet ==
  ASSUME Inv, AboutToEnqueue,
         NEW p, p = objs[Header(cur_obj)].body[field]
  PROVE  /\ p \in Nat
         /\ Header(p) \in Dom \ (marked \cup enqueued)
         /\ Header(p) \in Targets(FieldWords(Header(cur_obj)))
<1>1. pc = "mark" /\ cur_obj # 0 /\ Settled BY QueueFacts DEF AboutToEnqueue
<1>2. PICK c \in Dom : c = Header(cur_obj) BY <1>1, ScannedObject
<1>3. /\ field \in PtrFields(objs[c]) /\ IsValidHeapPointer(p)
      /\ Header(p) \notin marked \cup enqueued
  BY <1>2 DEF AboutToEnqueue
<1>4. TypeOK /\ ChunkInv BY DEF Inv
<1>5. p \in FieldWords(c) /\ p \in Nat BY <1>2, <1>3, <1>4, FieldFacts
<1>6. Leads(p, Dom) BY <1>1, <1>5 DEF Inv, SettledInv
<1>7. heap # NoChunk BY <1>2, <1>4 DEF ChunkInv, Dom
<1>8. Header(p) \in Dom BY <1>3, <1>4, <1>5, <1>6, <1>7, ValidIsObject DEF RootWord
<1> QED BY <1>2, <1>3, <1>5, <1>8 DEF Targets

\* The queue is no longer than the set of objects met so far: when there is one
\* to enqueue, its tail has not reached the end of the heap.
LEMMA TailIsObject ==
  ASSUME Inv, AboutToEnqueue
  PROVE  q_tail_iter \in Dom
<1>1. pc = "mark" BY DEF AboutToEnqueue
<1>2. /\ QueueInv /\ IsFiniteSet(Dom) /\ marked \subseteq Dom /\ enqueued \subseteq Dom
      /\ \A a \in Dom : a < heap.current
  BY <1>1, QueueFacts
<1>3. SUFFICES ASSUME q_tail_iter = heap.current PROVE FALSE
  BY <1>1, <1>2 DEF QueueInv
<1>4. Before(q_tail_iter) = Dom BY <1>2, <1>3 DEF Before
<1>5. PICK y \in Dom : y \notin marked \cup enqueued BY NewObjectMet
<1> DEFINE rest == Dom \ {y}
<1>6. IsFiniteSet(rest) /\ Cardinality(rest) = Cardinality(Dom) - 1 BY <1>2, FS_RemoveElement
<1>7. marked \cup enqueued \subseteq rest BY <1>2, <1>5
<1>8. Cardinality(marked \cup enqueued) <= Cardinality(rest) /\ IsFiniteSet(marked \cup enqueued)
  BY <1>6, <1>7, FS_Subset
<1>9. /\ Cardinality(Dom) \in Nat /\ Cardinality(marked \cup enqueued) \in Nat
      /\ Cardinality(rest) \in Nat
  BY <1>2, <1>6, <1>8, FS_CardinalityType
<1>10. Cardinality(Dom) <= Cardinality(marked \cup enqueued) BY <1>1, <1>2, <1>4 DEF QueueInv
<1> HIDE DEF rest
<1> QED BY <1>6, <1>8, <1>9, <1>10

\* A field that leads nowhere new.
LEMMA ScanFieldSkips ==
  ASSUME Inv, ScanField, ~ AboutToEnqueue
  PROVE  Inv'
<1> USE DEF chunks, roots, call, slide
<1>1. /\ pc = "mark" /\ pc' = "mark" /\ cur_obj # 0
      /\ field <= Len(objs[Header(cur_obj)].body) /\ field' = field + 1
      /\ UNCHANGED <<objs, marked, chunks, roots, call, root, q_head_iter, cur_obj, slide>>
      /\ UNCHANGED <<fwd, enqueued, q_tail_iter>>
  BY DEF ScanField, AboutToEnqueue
<1>2. TypeOK /\ BitsInv /\ QueueInv /\ FieldsMet /\ 1 <= root /\ root <= Len(RootWords)
  BY <1>1, QueueFacts
<1>3. PICK c \in Dom : c = Header(cur_obj) /\ c \in marked BY <1>1, ScannedObject
<1>4. /\ field \in Nat /\ 1 <= field /\ field <= Len(objs[c].body) /\ Len(objs[c].body) \in Nat
  BY <1>1, <1>3, ScannedObject
<1>5. /\ \A w : Met(w)' <=> Met(w)
      /\ OnlyReachable' /\ RootsMet'
      /\ Dom' = Dom /\ RootWords' = RootWords
      /\ ChunkInv' /\ CallInv' /\ SettledInv'
  BY <1>1, SameMet
<1>6. TypeOK'
  <2>1. field' \in Nat BY <1>1, <1>4
  <2>2. /\ pc' = pc
        /\ UNCHANGED <<objs, fwd, marked, enqueued, heap, old_heap, stack, cells, extra_roots,
                       req, res, cur_id, root, q_head_iter, q_tail_iter, cur_obj, scan, free_ptr>>
    BY <1>1
  <2> QED BY <1>2, <2>1, <2>2 DEF TypeOK
<1>7. BitsInv' BY <1>1, <1>2 DEF BitsInv
<1>8. FieldsMet'
  <2>1. field \in PtrFields(objs[c]) => Met(objs[c].body[field])
    BY <1>1, <1>3 DEF AboutToEnqueue, Met
  <2>2. \A a \in marked : \A k \in PtrFields(objs[a]) : (a = c => k < field) => Met(objs[a].body[k])
    BY <1>1, <1>2, <1>3 DEF FieldsMet
  <2>3. \A k \in PtrFields(objs[c]) : k < field + 1 => k = field \/ k < field
    <3>1. \A k \in PtrFields(objs[c]) : k \in 1..Len(objs[c].body) BY <1>2, FieldFacts
    <3> QED BY <1>4, <3>1
  <2>4. \A a \in marked : \A k \in PtrFields(objs[a]) :
          (a = c => k < field + 1) => Met(objs[a].body[k])
    BY <2>1, <2>2, <2>3
  <2>5. Header(cur_obj)' = c BY <1>1, <1>3 DEF Header
  <2> QED BY <1>1, <1>5, <2>4, <2>5 DEF FieldsMet
<1>9. MarkInv' BY <1>1, <1>2, <1>5, <1>8 DEF MarkInv
<1>10. QueueInv'
  <2>1. InQueue' = InQueue /\ Before(q_tail_iter)' = Before(q_tail_iter)
    BY <1>1, <1>5 DEF InQueue, Before, Dom
  <2>2. Header(cur_obj)' = c /\ field' \in 1..(Len(objs'[c].body) + 1)
    BY <1>1, <1>3, <1>4 DEF Header
  <2> QED BY <1>1, <1>2, <1>3, <1>5, <2>1, <2>2 DEF QueueInv
<1>11. ComputeInv' /\ NewChunkInv' /\ UpdateInv' /\ RelocateInv' /\ pc' # "retry"
  BY <1>1 DEF ComputeInv, NewChunkInv, UpdateInv, RelocateInv
<1> QED BY <1>5, <1>6, <1>7, <1>9, <1>10, <1>11 DEF Inv

\* A field that leads to an object not met yet.
LEMMA ScanFieldEnqueues ==
  ASSUME Inv, ScanField, AboutToEnqueue
  PROVE  Inv'
<1> USE DEF chunks, roots, call, slide
<1>1. PICK p \in Nat : /\ p = objs[Header(cur_obj)].body[field]
                       /\ Header(p) \in Dom \ (marked \cup enqueued)
                       /\ Header(p) \in Targets(FieldWords(Header(cur_obj)))
  BY NewObjectMet
<1>2. PICK y \in Dom \ (marked \cup enqueued) : y = Header(p) BY <1>1
<1>3. PICK t \in Dom : t = q_tail_iter BY TailIsObject
<1>4. pc = "mark" /\ cur_obj # 0 BY DEF ScanField
<1>5. /\ TypeOK /\ BitsInv /\ QueueInv /\ FieldsMet /\ RootsMet /\ OnlyReachable
      /\ Tiles(Dom, heap.begin, heap.current)
      /\ IsFiniteSet(Dom) /\ Dom \subseteq Nat /\ fwd \in [Dom -> Nat]
      /\ marked \subseteq Dom /\ enqueued \subseteq Dom
      /\ heap.current \in Nat /\ Settled /\ Collecting
      /\ \A a \in Dom : a < heap.current
      /\ 1 <= root /\ root <= Len(RootWords)
  BY <1>4, QueueFacts
<1>6. PICK n \in Nat : n = NextObj(t) BY <1>5, ObjSizeFacts
<1>7. /\ pc' = "mark" /\ field' = field + 1
      /\ field <= Len(objs[Header(cur_obj)].body)
      /\ fwd' = [fwd EXCEPT ![t] = p] /\ enqueued' = enqueued \cup {y} /\ q_tail_iter' = n
      /\ UNCHANGED <<objs, marked, chunks, roots, call, root, q_head_iter, cur_obj, slide>>
  BY <1>1, <1>2, <1>3, <1>4, <1>6 DEF ScanField, AboutToEnqueue, Enqueue
<1>8. PICK c \in Dom : c = Header(cur_obj) /\ c \in marked BY <1>4, ScannedObject
<1>9. /\ field \in Nat /\ 1 <= field /\ field <= Len(objs[c].body) /\ Len(objs[c].body) \in Nat
  BY <1>4, <1>7, <1>8, ScannedObject
<1>10. t < n /\ n \in Dom \cup {heap.current} /\ \A a \in Dom : a < n <=> a < t \/ a = t
  <2>1. t < n
    <3>1. t \in Nat /\ TypeOK BY <1>5
    <3>2. n = t + ObjSize(t) /\ ObjSize(t) \in Nat /\ ObjSize(t) >= 4 BY <1>6, <3>1, ObjSizeFacts
    <3> QED BY <3>1, <3>2
  <2>2. n \in Dom \cup {heap.current} BY <1>5, <1>6 DEF Tiles
  <2>3. \A a \in Dom : t < a => n <= a BY <1>5, <1>6 DEF Tiles
  <2>4. t \in Nat /\ \A a \in Dom : a \in Nat BY <1>5
  <2>5. \A a \in Dom : a < n <=> a < t \/ a = t BY <2>1, <2>3, <2>4
  <2> QED BY <2>1, <2>2, <2>5
<1>11. Settled' /\ Collecting' BY <1>7 DEF Settled, Collecting
<1>12. Dom' = Dom /\ RootWords' = RootWords /\ ChunkInv' /\ CallInv' /\ SettledInv'
  BY <1>5, <1>7, <1>11, CollectingFrame
<1>13. TypeOK'
  <2>1. fwd' \in [Dom -> Nat] /\ enqueued' \subseteq Dom BY <1>5, <1>7
  <2>2. field' \in Nat /\ q_tail_iter' \in Nat BY <1>7, <1>9
  <2>3. /\ pc' = "mark"
        /\ UNCHANGED <<objs, marked, heap, old_heap, stack, cells, extra_roots,
                       req, res, cur_id, root, q_head_iter, cur_obj, scan, free_ptr>>
    BY <1>7
  <2> QED BY <1>5, <2>1, <2>2, <2>3 DEF TypeOK, Dom
<1>14. BitsInv' BY <1>2, <1>5, <1>7 DEF BitsInv
<1>15. (\A w : Met(w) => Met(w)') /\ Met(p)'
  BY <1>2, <1>7 DEF Met, IsValidHeapPointer
<1>16. FieldsMet'
  <2>1. \A a \in marked : \A k \in PtrFields(objs[a]) : (a = c => k < field) => Met(objs[a].body[k])
    BY <1>4, <1>5, <1>8 DEF FieldsMet
  <2>2. \A k \in PtrFields(objs[c]) : k < field + 1 => k = field \/ k < field
    <3>1. \A k \in PtrFields(objs[c]) : k \in 1..Len(objs[c].body) BY <1>5, FieldFacts
    <3> QED BY <1>9, <3>1
  <2>3. objs'[c].body[field'-1] = p BY <1>1, <1>7, <1>8, <1>9
  <2>4. \A a \in marked : \A k \in PtrFields(objs[a]) :
          (a = c => k < field + 1) => Met(objs[a].body[k]) \/ objs[a].body[k] = p
    BY <1>1, <1>8, <2>1, <2>2
  <2>5. Header(cur_obj)' = c BY <1>7, <1>8 DEF Header
  <2> QED BY <1>7, <1>15, <1>4, <2>4, <2>5 DEF FieldsMet
<1>17. RootsMet' BY <1>4, <1>5, <1>7, <1>12, <1>15 DEF RootsMet
<1>18. OnlyReachable'
  <2>1. \A S : ClosedUnderFields(S)' <=> ClosedUnderFields(S)
    BY <1>7 DEF Targets, ClosedUnderFields, FieldWords, IsValidHeapPointer
  <2>2. Targets(RootSet)' = Targets(RootSet)
    BY <1>7, <1>12 DEF Targets, RootSet, IsValidHeapPointer
  <2>3. \A S : ClosedUnderFields(S) /\ c \in S => y \in S
    BY <1>1, <1>2, <1>8 DEF ClosedUnderFields
  <2>4. \A S \in SUBSET Dom : Targets(RootSet) \subseteq S /\ ClosedUnderFields(S) =>
          (marked \cup enqueued)' \subseteq S
    BY <1>5, <1>7, <1>8, <2>3 DEF OnlyReachable
  <2> QED BY <1>12, <2>1, <2>2, <2>4 DEF OnlyReachable
<1>19. MarkInv' BY <1>5, <1>7, <1>12, <1>16, <1>17, <1>18 DEF MarkInv
<1>20. QueueInv'
  <2>1. q_head_iter \in Dom /\ q_head_iter <= t
    <3>1. q_head_iter \in Dom \cup {heap.current} /\ q_head_iter <= t
      BY <1>3, <1>4, <1>5 DEF QueueInv
    <3> QED BY <1>3, <1>5, <3>1
  <2>2. InQueue' = InQueue \cup {t} /\ t \notin InQueue
    <3>1. InQueue = {a \in Dom : q_head_iter <= a /\ a < t} BY <1>3 DEF InQueue, Dom
    <3>2. InQueue' = {a \in Dom : q_head_iter <= a /\ a < n} BY <1>7, <1>12 DEF InQueue, Dom
    <3>3. \A a : a \in InQueue' <=> a \in InQueue \/ a = t BY <1>10, <2>1, <3>1, <3>2
    <3>4. ~ t < t BY <1>5
    <3> QED BY <3>1, <3>3, <3>4
  <2>3. /\ \A a \in InQueue : Header(fwd[a]) \in enqueued
        /\ \A a, b \in InQueue : fwd[a] = fwd[b] => a = b
        /\ \A x \in enqueued : \E a \in InQueue : x = Header(fwd[a])
        /\ Cardinality(Before(t)) <= Cardinality(marked \cup enqueued)
    BY <1>3, <1>4, <1>5 DEF QueueInv
  <2>4. fwd'[t] = p /\ \A a \in InQueue : fwd'[a] = fwd[a]
    BY <1>5, <1>7, <2>2 DEF InQueue, Dom
  <2>5. \A a \in InQueue' : Header(fwd'[a]) \in enqueued'
    BY <1>2, <1>7, <2>2, <2>3, <2>4
  <2>6. \A a, b \in InQueue' : fwd'[a] = fwd'[b] => a = b
    <3>1. \A a \in InQueue : fwd[a] # p BY <1>2, <2>3
    <3> QED BY <2>2, <2>3, <2>4, <3>1
  <2>7. \A x \in enqueued' : \E a \in InQueue' : x = Header(fwd'[a])
    BY <1>2, <1>7, <2>2, <2>3, <2>4
  <2>8. Cardinality(Before(q_tail_iter))' <= Cardinality(marked \cup enqueued)'
    <3>1. Before(n)' = Before(t) \cup {t} /\ t \notin Before(t)
      <4>1. Before(n)' = {a \in Dom : a < n} /\ Before(t) = {a \in Dom : a < t}
        BY <1>12 DEF Before
      <4>2. \A a : a \in Before(n)' <=> a \in Before(t) \/ a = t BY <1>10, <4>1
      <4>3. ~ t < t BY <1>5
      <4> QED BY <4>1, <4>2, <4>3
    <3>2. IsFiniteSet(Before(t)) BY <1>5, FS_Subset DEF Before
    <3>3. Cardinality(Before(t) \cup {t}) = Cardinality(Before(t)) + 1
      BY <3>1, <3>2, FS_AddElement
    <3>4. IsFiniteSet(marked \cup enqueued) BY <1>5, FS_Subset
    <3>5. (marked \cup enqueued)' = (marked \cup enqueued) \cup {y} /\ y \notin marked \cup enqueued
      BY <1>2, <1>7
    <3>6. Cardinality((marked \cup enqueued) \cup {y}) = Cardinality(marked \cup enqueued) + 1
      BY <3>4, <3>5, FS_AddElement
    <3>7. Cardinality(Before(t)) \in Nat /\ Cardinality(marked \cup enqueued) \in Nat
      BY <3>2, <3>4, FS_CardinalityType
    <3>8. Before(q_tail_iter)' = Before(n)' BY <1>7 DEF Before
    <3>9. Cardinality(Before(q_tail_iter)') = Cardinality(Before(t)) + 1
      BY <3>1, <3>3, <3>8
    <3>10. Cardinality((marked \cup enqueued)') = Cardinality(marked \cup enqueued) + 1
      BY <3>5, <3>6
    <3> QED BY <2>3, <3>7, <3>9, <3>10
  <2>9. Header(cur_obj)' = c /\ field' \in 1..(Len(objs'[c].body) + 1)
    BY <1>7, <1>8, <1>9 DEF Header
  <2>10. /\ q_head_iter' \in Dom' \cup {heap'.current} /\ q_tail_iter' \in Dom' \cup {heap'.current}
         /\ q_head_iter' <= q_tail_iter'
    BY <1>5, <1>7, <1>10, <1>12, <2>1
  <2> QED BY <1>4, <1>7, <1>8, <2>5, <2>6, <2>7, <2>8, <2>9, <2>10 DEF QueueInv
<1>21. ComputeInv' /\ NewChunkInv' /\ UpdateInv' /\ RelocateInv' /\ pc' # "retry"
  BY <1>7 DEF ComputeInv, NewChunkInv, UpdateInv, RelocateInv
<1> QED BY <1>12, <1>13, <1>14, <1>19, <1>20, <1>21 DEF Inv

\* A field of the object being marked.
LEMMA ScanFieldStep == ASSUME Inv, ScanField PROVE Inv'
BY ScanFieldSkips, ScanFieldEnqueues

\* All fields of the object have been met.
LEMMA FieldsDoneStep == ASSUME Inv, FieldsDone PROVE Inv'
<1> USE DEF memory, chunks, roots, call, slide
<1>1. /\ pc = "mark" /\ pc' = "mark" /\ cur_obj # 0
      /\ field > Len(objs[Header(cur_obj)].body) /\ cur_obj' = 0 /\ field' = 0
      /\ UNCHANGED <<memory, chunks, roots, call, root, q_head_iter, q_tail_iter, slide>>
  BY DEF FieldsDone
<1>2. TypeOK /\ BitsInv /\ QueueInv /\ FieldsMet /\ 1 <= root /\ root <= Len(RootWords)
  BY <1>1, QueueFacts
<1>3. PICK c \in Dom : c = Header(cur_obj) /\ c \in marked BY <1>1, ScannedObject
<1>4. field \in Nat /\ Len(objs[c].body) \in Nat /\ field > Len(objs[c].body)
  BY <1>1, <1>3, ScannedObject
<1>5. /\ \A w : Met(w)' <=> Met(w)
      /\ OnlyReachable' /\ RootsMet'
      /\ Dom' = Dom /\ RootWords' = RootWords
      /\ ChunkInv' /\ CallInv' /\ SettledInv'
  BY <1>1, SameMet
<1>6. TypeOK'
  <2>1. /\ pc' = pc
        /\ UNCHANGED <<objs, fwd, marked, enqueued, heap, old_heap, stack, cells, extra_roots,
                       req, res, cur_id, root, q_head_iter, q_tail_iter, scan, free_ptr>>
    BY <1>1
  <2> QED BY <1>1, <1>2, <2>1 DEF TypeOK
<1>7. BitsInv' BY <1>1, <1>2 DEF BitsInv
<1>8. FieldsMet'
  <2>1. \A a \in marked : \A k \in PtrFields(objs[a]) : (a = c => k < field) => Met(objs[a].body[k])
    BY <1>1, <1>2, <1>3 DEF FieldsMet
  <2>2. \A k \in PtrFields(objs[c]) : k < field
    <3>1. \A k \in PtrFields(objs[c]) : k \in 1..Len(objs[c].body) BY <1>2, FieldFacts
    <3> QED BY <1>4, <3>1
  <2>3. \A a \in marked : \A k \in PtrFields(objs[a]) : Met(objs[a].body[k])
    BY <2>1, <2>2
  <2> QED BY <1>1, <1>5, <2>3 DEF FieldsMet
<1>9. MarkInv' BY <1>1, <1>2, <1>5, <1>8 DEF MarkInv
<1>10. QueueInv'
  <2>1. InQueue' = InQueue /\ Before(q_tail_iter)' = Before(q_tail_iter)
    BY <1>1, <1>5 DEF InQueue, Before, Dom
  <2> QED BY <1>1, <1>2, <1>5, <2>1 DEF QueueInv
<1>11. ComputeInv' /\ NewChunkInv' /\ UpdateInv' /\ RelocateInv' /\ pc' # "retry"
  BY <1>1 DEF ComputeInv, NewChunkInv, UpdateInv, RelocateInv
<1> QED BY <1>5, <1>6, <1>7, <1>9, <1>10, <1>11 DEF Inv

\* mark returns: the root has been met.
LEMMA QueueEmptyStep == ASSUME Inv, QueueEmpty PROVE Inv'
<1> USE DEF memory, chunks, roots, call, slide
<1>1. /\ pc = "mark" /\ pc' = "scan_roots" /\ cur_obj = 0 /\ q_head_iter = q_tail_iter
      /\ root' = root + 1 /\ q_head_iter' = 0 /\ q_tail_iter' = 0
      /\ UNCHANGED <<memory, chunks, roots, call, cur_obj, field, slide>>
  BY DEF QueueEmpty
<1>2. /\ TypeOK /\ BitsInv /\ QueueInv /\ FieldsMet /\ RootsMet
      /\ 1 <= root /\ root <= Len(RootWords)
      /\ Dom \subseteq Nat
      /\ CallInv
  BY <1>1, QueueFacts
<1>3. /\ \A w : Met(w)' <=> Met(w)
      /\ OnlyReachable'
      /\ Dom' = Dom /\ RootWords' = RootWords
      /\ ChunkInv' /\ CallInv' /\ SettledInv'
  BY <1>1, SameMet
<1>4. root \in Nat BY <1>2 DEF TypeOK
<1>5. TypeOK'
  <2>1. /\ root' \in Nat
        /\ UNCHANGED <<objs, fwd, marked, enqueued, heap, old_heap, stack, cells, extra_roots,
                       req, res, cur_id, cur_obj, field, scan, free_ptr>>
    BY <1>1, <1>4
  <2> QED BY <1>1, <1>2, <2>1 DEF TypeOK
<1>6. enqueued = {} /\ field = 0
  <2>1. InQueue = {}
    <3>1. \A a \in Dom : ~ (q_head_iter <= a /\ a < q_head_iter) BY <1>2 DEF TypeOK
    <3> QED BY <1>1, <3>1 DEF InQueue, Dom
  <2> QED BY <1>1, <1>2, <2>1 DEF QueueInv
<1>7. BitsInv' BY <1>1, <1>2, <1>6 DEF BitsInv
<1>8. FieldsMet' BY <1>1, <1>2, <1>3 DEF FieldsMet
<1>9. RootsMet'
  <2>1. \A i \in DOMAIN RootWords : i < root + 1 => Met(RootWords[i])
    <3>1. \A i \in DOMAIN RootWords : i \in Nat BY <1>2, RootWordsFacts
    <3>2. \A i \in DOMAIN RootWords : i < root + 1 => i < root \/ i = root BY <1>4, <3>1
    <3> QED BY <1>1, <1>2, <3>2 DEF RootsMet
  <2> QED BY <1>1, <1>3, <2>1 DEF RootsMet
<1>10. MarkInv' BY <1>1, <1>3, <1>4, <1>8, <1>9 DEF MarkInv
<1>11. QueueInv' /\ ComputeInv' /\ NewChunkInv' /\ UpdateInv' /\ RelocateInv' /\ pc' # "retry"
  BY <1>1 DEF QueueInv, ComputeInv, NewChunkInv, UpdateInv, RelocateInv
<1> QED BY <1>3, <1>5, <1>7, <1>10, <1>11 DEF Inv

\* Every root has been met: the compaction starts.
LEMMA MarkPhaseDoneStep == ASSUME Inv, MarkPhaseDone PROVE Inv'
<1> USE DEF memory, chunks, roots, call, queue
<1>1. /\ pc = "scan_roots" /\ pc' = "compute" /\ root > Len(RootWords) /\ root' = 0
      /\ scan' = heap.begin /\ free_ptr' = heap.begin
      /\ UNCHANGED <<memory, chunks, roots, call, queue>>
  BY DEF MarkPhaseDone
<1>2. TypeOK /\ BitsInv /\ CallInv /\ MarkInv /\ SettledInv BY DEF Inv
<1>3. Settled /\ Settled' /\ Collecting /\ Collecting' BY <1>1 DEF Settled, Collecting
<1>4. Dom' = Dom /\ RootWords' = RootWords /\ ChunkInv' /\ CallInv' /\ SettledInv'
  BY <1>1, <1>3, CollectingFrame
<1>5. heap.begin \in Nat /\ Dom \subseteq Nat /\ marked \subseteq Dom BY <1>2, TypeFacts
<1>6. TypeOK'
  <2>1. UNCHANGED <<objs, fwd, marked, enqueued, heap, old_heap, stack, cells, extra_roots,
                    req, res, cur_id, q_head_iter, q_tail_iter, cur_obj, field>>
    BY <1>1
  <2> QED BY <1>1, <1>2, <1>5, <2>1 DEF TypeOK
<1>7. BitsInv' BY <1>1, <1>2 DEF BitsInv
<1>8. MarkInv'
  <2>1. \A w : Met(w)' <=> Met(w) BY <1>1 DEF Met, IsValidHeapPointer
  <2>2. FieldsMet' BY <1>1, <1>2, <2>1 DEF MarkInv, FieldsMet
  <2>3. \A i \in DOMAIN RootWords : i < root
    <3>1. root \in Nat /\ Len(RootWords) \in Nat BY <1>2, RootWordsFacts DEF TypeOK
    <3>2. \A i \in DOMAIN RootWords : i \in Nat /\ i <= Len(RootWords) BY <1>2, RootWordsFacts
    <3> QED BY <1>1, <3>1, <3>2
  <2>4. RootsMet' BY <1>1, <1>2, <1>4, <2>1, <2>3 DEF MarkInv, RootsMet
  <2>5. \A S : ClosedUnderFields(S)' <=> ClosedUnderFields(S)
    BY <1>1 DEF Targets, ClosedUnderFields, FieldWords, IsValidHeapPointer
  <2>6. Targets(RootSet)' = Targets(RootSet)
    BY <1>1, <1>4 DEF Targets, RootSet, IsValidHeapPointer
  <2>7. OnlyReachable' BY <1>1, <1>2, <1>4, <2>5, <2>6 DEF MarkInv, OnlyReachable
  <2> QED BY <1>1, <2>2, <2>4, <2>7 DEF MarkInv
<1>9. ComputeInv'
  <2>1. heap.begin \in Dom \cup {heap.current} /\ \A a \in Dom : heap.begin <= a
    BY <1>2, <1>3 DEF SettledInv, Tiles
  <2>2. \A a \in marked' : ~ a < scan'
    <3>1. \A a \in marked : a \in Nat /\ heap.begin <= a BY <1>5, <2>1
    <3> QED BY <1>1, <1>5, <3>1
  <2>3. \A a \in Placed' : FALSE BY <2>2 DEF Placed
  <2>4. free_ptr' = heap'.begin BY <1>1
  <2>5. Slides(Placed, heap.begin)' BY <2>3, <2>4 DEF Slides
  <2>6. scan' \in Dom' \cup {heap'.current} /\ free_ptr' <= scan' BY <1>1, <1>4, <1>5, <2>1
  <2> QED BY <2>5, <2>6 DEF ComputeInv
<1>10. QueueInv' /\ NewChunkInv' /\ UpdateInv' /\ RelocateInv' /\ pc' # "retry"
  BY <1>1 DEF QueueInv, NewChunkInv, UpdateInv, RelocateInv
<1> QED BY <1>4, <1>6, <1>7, <1>8, <1>9, <1>10 DEF Inv

-----------------------------------------------------------------------------
(* Steps of the collection: computing the new addresses. *)

\* Where sliding begins, and where it has got to.
LEMMA SlidesFacts ==
  ASSUME TypeOK, NEW S \in SUBSET Dom, NEW lo \in Nat, Slides(S, lo)
  PROVE  /\ lo <= free_ptr
         /\ free_ptr = lo \/ lo + 4 <= free_ptr
<1>1. free_ptr \in Nat BY DEF TypeOK
<1>2. CASE free_ptr = lo BY <1>1, <1>2
<1>3. CASE free_ptr # lo
  <2>1. PICK a \in S : Target(a) = lo BY <1>3 DEF Slides
  <2>2. Target(a) + ObjSize(a) <= free_ptr BY <2>1 DEF Slides
  <2>3. ObjSize(a) \in Nat /\ ObjSize(a) >= 4 BY <2>1, ObjSizeFacts
  <2> QED BY <1>1, <2>1, <2>2, <2>3
<1> QED BY <1>2, <1>3

\* The heap iterator stands on an object or at the end; the next one is the
\* next object.
LEMMA ScanFacts ==
  ASSUME TypeOK, Tiles(Dom, heap.begin, heap.current),
         scan \in Dom \cup {heap.current}, scan < heap.current
  PROVE  /\ scan \in Dom
         /\ NextObj(scan) \in Dom \cup {heap.current}
         /\ NextObj(scan) \in Nat /\ scan < NextObj(scan)
         /\ NextObj(scan) = scan + ObjSize(scan)
         /\ ObjSize(scan) \in Nat /\ ObjSize(scan) >= 4
         /\ \A a \in Dom : /\ a < NextObj(scan) <=> a < scan \/ a = scan
                           /\ NextObj(scan) <= a <=> scan <= a /\ a # scan
<1>1. Dom \subseteq Nat /\ heap.current \in Nat /\ scan \in Nat BY TypeFacts DEF TypeOK
<1>2. PICK c \in Dom : c = scan BY <1>1
<1>3. /\ NextObj(c) \in Nat /\ NextObj(c) = c + ObjSize(c)
      /\ ObjSize(c) \in Nat /\ ObjSize(c) >= 4
  BY ObjSizeFacts
<1>4. NextObj(c) \in Dom \cup {heap.current} BY DEF Tiles
<1>5. \A a \in Dom : c < a => NextObj(c) <= a BY DEF Tiles
<1>6. c \in Nat /\ c < NextObj(c) BY <1>1, <1>3
<1>7. \A a \in Dom : /\ a < NextObj(c) <=> a < c \/ a = c
                     /\ NextObj(c) <= a <=> c <= a /\ a # c
  BY <1>1, <1>3, <1>5, <1>6
<1> QED BY <1>2, <1>3, <1>4, <1>6, <1>7

\* A step of compute_locations leaves the marks alone.
LEMMA ComputeFrame ==
  ASSUME Inv, pc = "compute", pc' = "compute",
         UNCHANGED <<objs, marked, enqueued, chunks, roots, call>>
  PROVE  /\ ChunkInv' /\ CallInv' /\ SettledInv'
         /\ MarkInv'
         /\ Dom' = Dom
<1> USE DEF chunks, roots, call
<1>1. Settled /\ Settled' /\ Collecting /\ Collecting' BY DEF Settled, Collecting
<1>2. Dom' = Dom /\ RootWords' = RootWords /\ ChunkInv' /\ CallInv' /\ SettledInv'
  BY <1>1, CollectingFrame
<1>3. \A w : Met(w)' <=> Met(w) BY DEF Met, IsValidHeapPointer
<1>4. FieldsMet /\ RootsMet /\ OnlyReachable BY DEF Inv, MarkInv
<1>5. FieldsMet' BY <1>3, <1>4 DEF FieldsMet
<1>6. RootsMet' BY <1>2, <1>3, <1>4 DEF RootsMet
<1>7. \A S : ClosedUnderFields(S)' <=> ClosedUnderFields(S)
  BY DEF Targets, ClosedUnderFields, FieldWords, IsValidHeapPointer
<1>8. Targets(RootSet)' = Targets(RootSet)
  BY <1>2 DEF Targets, RootSet, IsValidHeapPointer
<1>9. OnlyReachable' BY <1>2, <1>4, <1>7, <1>8 DEF OnlyReachable
<1> QED BY <1>2, <1>5, <1>6, <1>9 DEF MarkInv

\* compute_locations: one object more is placed at the end of those placed before.
LEMMA ComputeLocationStep == ASSUME Inv, ComputeLocation PROVE Inv'
<1> USE DEF chunks, roots, call, queue
<1>1. /\ pc = "compute" /\ pc' = "compute" /\ scan < heap.current
      /\ scan' = NextObj(scan)
      /\ UNCHANGED <<objs, marked, enqueued, chunks, roots, call, root, queue>>
  BY DEF ComputeLocation
<1>2. TypeOK /\ BitsInv /\ ComputeInv BY DEF Inv
<1>3. Tiles(Dom, heap.begin, heap.current) BY <1>1 DEF Inv, SettledInv, Settled
<1>4. /\ scan \in Dom \cup {heap.current} /\ free_ptr <= scan
      /\ Slides(Placed, heap.begin)
  BY <1>1, <1>2 DEF ComputeInv
<1>5. /\ IsFiniteSet(Dom) /\ Dom \subseteq Nat /\ fwd \in [Dom -> Nat] /\ marked \subseteq Dom
      /\ heap.begin \in Nat /\ heap.current \in Nat /\ free_ptr \in Nat
  BY <1>2, TypeFacts DEF TypeOK
<1>6. PICK c \in Dom : c = scan BY <1>1, <1>2, <1>3, <1>4, ScanFacts
<1>7. PICK n \in Nat : n = NextObj(c) BY <1>2, ObjSizeFacts
<1>8. PICK size \in Nat : size = ObjSize(c) BY <1>2, ObjSizeFacts
<1>9. /\ n \in Dom \cup {heap.current} /\ c < n /\ n = c + size /\ size >= 4
      /\ \A a \in Dom : a < n <=> a < c \/ a = c
  BY <1>1, <1>2, <1>3, <1>4, <1>6, <1>7, <1>8, ScanFacts
<1>10. PICK f \in Nat : f = free_ptr BY <1>5
<1>11. PICK lo \in Nat : lo = heap.begin BY <1>5
<1>12. ChunkInv' /\ CallInv' /\ SettledInv' /\ MarkInv' /\ Dom' = Dom BY <1>1, ComputeFrame
<1>13. BitsInv' BY <1>1, <1>2 DEF BitsInv
<1>14. lo <= f
  <2>1. Placed \in SUBSET Dom BY <1>5 DEF Placed
  <2> QED BY <1>2, <1>4, <1>10, <1>11, <2>1, SlidesFacts
<1>15. QueueInv' /\ NewChunkInv' /\ UpdateInv' /\ RelocateInv' /\ pc' # "retry"
  BY <1>1 DEF QueueInv, NewChunkInv, UpdateInv, RelocateInv
<1>16. \A a \in Dom : ObjSize(a)' = ObjSize(a) /\ ObjSize(a) \in Nat
  <2>1. \A a \in Dom : ObjSize(a) \in Nat BY <1>2, ObjSizeFacts
  <2> QED BY <1>1, <2>1 DEF ObjSize
<1>17. CASE c \notin marked
  <2>1. UNCHANGED <<fwd, free_ptr>> BY <1>6, <1>17 DEF ComputeLocation
  <2>2. TypeOK'
    <3>1. scan' = n /\ n \in Nat BY <1>1, <1>6, <1>7
    <3>2. UNCHANGED <<objs, fwd, marked, enqueued, heap, old_heap, stack, cells, extra_roots,
                      req, res, cur_id, root, q_head_iter, q_tail_iter, cur_obj, field, free_ptr>>
      BY <1>1, <2>1
    <3> QED BY <1>1, <1>2, <3>1, <3>2 DEF TypeOK
  <2>3. Placed' = Placed
    <3>1. Placed' = {a \in marked : a < n} BY <1>1, <1>6, <1>7 DEF Placed
    <3>2. \A a \in marked : a < n <=> a < c BY <1>5, <1>9, <1>17
    <3> QED BY <1>6, <3>1, <3>2 DEF Placed
  <2>4. Placed \subseteq Dom BY <1>5 DEF Placed
  <2>5. \A a \in Dom : Target(a)' = Target(a) BY <1>1, <2>1 DEF Target
  <2>6. Slides(Placed, heap.begin)'
    BY <1>1, <1>4, <1>16, <2>1, <2>3, <2>4, <2>5 DEF Slides
  <2>7. ComputeInv'
    <3>1. scan' = n /\ free_ptr' = f /\ f <= c BY <1>1, <1>4, <1>6, <1>7, <1>10, <2>1
    <3>2. c \in Nat BY <1>5
    <3>3. free_ptr' <= scan' BY <1>9, <3>1, <3>2
    <3> QED BY <1>1, <1>9, <1>12, <2>6, <3>1, <3>3 DEF ComputeInv
  <2> QED BY <1>12, <1>13, <1>15, <2>2, <2>7 DEF Inv
<1>18. CASE c \in marked
  <2>1. fwd' = [fwd EXCEPT ![c] = f] /\ free_ptr' = f + size
    BY <1>6, <1>8, <1>10, <1>18 DEF ComputeLocation
  <2>2. TypeOK'
    <3>1. scan' = n /\ n \in Nat /\ free_ptr' \in Nat BY <1>1, <1>6, <1>7, <2>1
    <3>2. fwd' \in [Dom -> Nat] BY <1>5, <2>1
    <3>3. UNCHANGED <<objs, marked, enqueued, heap, old_heap, stack, cells, extra_roots,
                      req, res, cur_id, root, q_head_iter, q_tail_iter, cur_obj, field>>
      BY <1>1
    <3> QED BY <1>1, <1>2, <3>1, <3>2, <3>3 DEF TypeOK, Dom
  <2>3. Placed' = Placed \cup {c}
    <3>1. Placed' = {a \in marked : a < n} BY <1>1, <1>6, <1>7 DEF Placed
    <3>2. \A a \in marked : a < n <=> a < c \/ a = c BY <1>5, <1>9
    <3>3. \A a : a \in Placed' <=> a \in Placed \/ a = c
      BY <1>6, <1>18, <3>1, <3>2 DEF Placed
    <3> QED BY <3>3
  <2>4. Placed \subseteq Dom /\ \A a \in Placed : a # c /\ a < c
    <3>1. Placed \subseteq Dom /\ \A a \in Placed : a < c BY <1>5, <1>6 DEF Placed
    <3>2. ~ c < c BY <1>5
    <3> QED BY <3>1, <3>2
  <2>5. Target(c)' = f /\ \A a \in Placed : Target(a)' = Target(a)
    BY <1>1, <1>5, <2>1, <2>4 DEF Target
  <2>6. \A a \in Placed : /\ Target(a) \in Nat
                          /\ lo <= Target(a) /\ Target(a) <= a
                          /\ Target(a) + ObjSize(a) <= f
                          /\ \/ Target(a) + ObjSize(a) = f
                             \/ \E b \in Placed : Target(b) = Target(a) + ObjSize(a)
    BY <1>4, <1>10, <1>11 DEF Slides
  <2>7. /\ f = lo \/ \E a \in Placed : Target(a) = lo
        /\ \A a, b \in Placed : a < b => Target(a) + ObjSize(a) <= Target(b)
    BY <1>4, <1>10, <1>11 DEF Slides
  <2>8. f <= c /\ c \in Nat BY <1>4, <1>5, <1>6, <1>10
  <2>9. free_ptr' = lo \/ \E a \in Placed' : Target(a)' = lo BY <2>3, <2>5, <2>7
  <2>10. \A a \in Placed' : /\ Target(a)' \in Nat
                            /\ lo <= Target(a)' /\ Target(a)' <= a
                            /\ Target(a)' + ObjSize(a)' <= free_ptr'
                            /\ \/ Target(a)' + ObjSize(a)' = free_ptr'
                               \/ \E b \in Placed' : Target(b)' = Target(a)' + ObjSize(a)'
    <3> SUFFICES ASSUME NEW a \in Placed'
                 PROVE  /\ Target(a)' \in Nat
                        /\ lo <= Target(a)' /\ Target(a)' <= a
                        /\ Target(a)' + ObjSize(a)' <= free_ptr'
                        /\ \/ Target(a)' + ObjSize(a)' = free_ptr'
                           \/ \E b \in Placed' : Target(b)' = Target(a)' + ObjSize(a)'
      OBVIOUS
    <3>1. CASE a = c
      <4>1. Target(a)' = f /\ ObjSize(a)' = size BY <3>1, <1>8, <1>16, <2>5
      <4> QED BY <3>1, <4>1, <1>14, <2>1, <2>8
    <3>2. CASE a \in Placed
      <4>1. Target(a)' = Target(a) /\ ObjSize(a)' = ObjSize(a) /\ ObjSize(a) \in Nat
        BY <3>2, <1>16, <2>4, <2>5
      <4>2. Target(a) + ObjSize(a) <= f + size BY <3>2, <4>1, <2>6
      <4>3. \E b \in Placed' : Target(b)' = Target(a)' + ObjSize(a)'
        BY <3>2, <4>1, <2>3, <2>5, <2>6
      <4> QED BY <3>2, <4>1, <4>2, <4>3, <2>1, <2>6
    <3> QED BY <3>1, <3>2, <2>3
  <2>11. \A a, b \in Placed' : a < b => Target(a)' + ObjSize(a)' <= Target(b)'
    <3> SUFFICES ASSUME NEW a \in Placed', NEW b \in Placed', a < b
                 PROVE  Target(a)' + ObjSize(a)' <= Target(b)'
      OBVIOUS
    <3>1. a \in Placed
      <4>1. b = c \/ b < c BY <2>3, <2>4
      <4>2. a \in Nat /\ b \in Nat BY <1>5, <2>3, <2>4
      <4>3. a # c BY <2>8, <4>1, <4>2
      <4> QED BY <2>3, <4>3
    <3>2. Target(a)' = Target(a) /\ ObjSize(a)' = ObjSize(a) BY <3>1, <1>16, <2>4, <2>5
    <3> QED BY <3>1, <3>2, <2>3, <2>5, <2>6, <2>7
  <2>12. heap'.begin = lo BY <1>1, <1>11
  <2>13. Slides(Placed, heap.begin)' BY <2>9, <2>10, <2>11, <2>12 DEF Slides
  <2>14. ComputeInv'
    <3>1. scan' = n BY <1>1, <1>6, <1>7
    <3>2. free_ptr' <= scan' BY <3>1, <1>9, <2>1, <2>8
    <3> QED BY <1>1, <1>9, <1>12, <2>13, <3>1, <3>2 DEF ComputeInv
  <2> QED BY <1>12, <1>13, <1>15, <2>2, <2>14 DEF Inv
<1> QED BY <1>17, <1>18

-----------------------------------------------------------------------------
(* Steps of the collection: the new chunk. *)

\* The new chunk is no smaller than the old one, and has room for twice what is
\* live and the request.
LEMMA PseudoSizeFacts ==
  ASSUME TypeOK, heap.begin <= free_ptr
  PROVE  /\ LiveSize \in Nat /\ 2 * LiveSize >= free_ptr - heap.begin - 1
         /\ NextHeapPseudoSize \in Nat
         /\ NextHeapPseudoSize >= heap.size
         /\ NextHeapPseudoSize >= 2 * LiveSize + ReqSize
<1>1. heap.begin \in Nat /\ free_ptr \in Nat /\ heap.size \in Nat BY DEF TypeOK, Chunk
<1>2. LiveSize \in Nat /\ 2 * LiveSize >= free_ptr - heap.begin - 1
  <2>1. PICK d \in Nat : d = free_ptr - heap.begin BY <1>1
  <2>2. d \div 2 \in Nat /\ 2 * (d \div 2) >= d - 1 OBVIOUS
  <2> QED BY <2>1, <2>2 DEF LiveSize, WORD
<1>3. ReqSize \in Nat BY ReqSizeFacts
<1>4. MINIMUM_HEAP_CAPACITY \in Nat BY GCAssumption DEF GCAssumption
<1>5. LiveSize * EXTRA_ROOM_HEAP_COEFFICIENT = 2 * LiveSize
  BY <1>2 DEF EXTRA_ROOM_HEAP_COEFFICIENT
<1>6. NextHeapSize \in Nat /\ NextHeapSize >= 2 * LiveSize + ReqSize
  BY <1>2, <1>3, <1>4, <1>5 DEF NextHeapSize, Maximum
<1> QED BY <1>1, <1>2, <1>3, <1>6 DEF NextHeapPseudoSize, Maximum

\* What the words outside the objects are when every root has been registered.
LEMMA RootsCover ==
  ASSUME TypeOK, CallInv, Len(extra_roots) = Len(req.roots),
         NEW w \in StackWords \cup {cells.arg, cells.content}
  PROVE  Small(w) \/ \E i \in DOMAIN RootWords : RootWords[i] = w
<1> DEFINE ext == [i \in 1..Len(extra_roots) |-> Deref(extra_roots[i])]
<1>1. /\ stack \in Seq(Nat) /\ extra_roots \in Seq(Int) /\ req.roots \in Seq(Int)
      /\ Len(stack) \in Nat /\ Len(extra_roots) \in Nat
  BY DEF TypeOK
<1>2. DOMAIN RootWords = 1..(Len(stack) + Len(extra_roots))
  BY <1>1 DEF RootWords
<1>3. \A i \in 1..Len(stack) : RootWords[i] = stack[i] /\ i \in DOMAIN RootWords
  BY <1>1, <1>2 DEF RootWords
<1>4. \A i \in 1..Len(extra_roots) : /\ RootWords[Len(stack) + i] = Deref(extra_roots[i])
                                     /\ Len(stack) + i \in DOMAIN RootWords
  BY <1>1, <1>2 DEF RootWords
<1>5. CASE w \in StackWords
  <2>1. PICK i \in DOMAIN stack : w = stack[i] BY <1>5 DEF StackWords
  <2> QED BY <1>1, <1>3, <2>1, SMTT(40)
<1>6. CASE w = cells.content BY <1>6 DEF CallInv
<1>7. CASE w = cells.arg
  <2>1. Small(w) \/ \E i \in DOMAIN req.roots : req.roots[i] = ARG BY <1>7 DEF CallInv
  <2>2. ASSUME NEW i \in DOMAIN req.roots, req.roots[i] = ARG
        PROVE  \E j \in DOMAIN RootWords : RootWords[j] = w
    <3>1. i \in 1..Len(extra_roots) /\ extra_roots[i] = ARG BY <1>1, <2>2 DEF CallInv
    <3>2. Deref(extra_roots[i]) = w BY <1>7, <3>1 DEF Deref
    <3> QED BY <1>4, <3>1, <3>2
  <2> QED BY <2>1, <2>2
<1> QED BY <1>5, <1>6, <1>7

\* Chunks lie above address 0.
LEMMA BaseFacts == ASSUME NEW b \in Bases PROVE b \in Nat /\ b > 0
<1>1. Bases \subseteq Nat BY GCAssumption DEF GCAssumption
<1>2. CString \in CWords \cup {CString} /\ CWords \cup {CString} \subseteq Nat
  BY GCAssumption DEF GCAssumption
<1>3. CString \in Nat /\ CString > 0 BY <1>2, GCAssumption DEF GCAssumption
<1>4. CString < b BY <1>2, GCAssumption DEF GCAssumption
<1> QED BY <1>1, <1>3, <1>4

\* The new chunk is a copy of the old one, moved from o to b.
LEMMA NewChunkIsCopy ==
  ASSUME Inv, MapNewHeap
  PROVE  \E b \in Bases, o \in Nat :
           /\ o = heap.begin /\ old_heap' = heap
           /\ pc = "compute" /\ pc' = "update"
           /\ scan \in Dom \cup {heap.current} /\ scan >= heap.current
           /\ heap' = [begin |-> b, end |-> b + WORD * NextHeapPseudoSize,
                       current |-> b + (heap.current - o), size |-> NextHeapPseudoSize]
           /\ Dom' = {x + b - o : x \in Dom}
           /\ marked' = {x + b - o : x \in marked} /\ enqueued' = {}
           /\ \A a \in Dom : /\ objs'[a + b - o] = objs[a]
                             /\ fwd'[a + b - o] = fwd[a]
           /\ DOMAIN fwd' = Dom'
           /\ fwd' = [a \in DOMAIN fwd' |-> fwd'[a]]
           /\ scan' = b /\ free_ptr' = b + (free_ptr - o)
           /\ UNCHANGED <<roots, call, root, queue>>
<1>1. pc = "compute" /\ scan >= heap.current /\ old_heap' = heap /\ pc' = "update"
      /\ UNCHANGED <<roots, call, root, queue>>
  BY DEF MapNewHeap
<1>2. enqueued = {} BY <1>1 DEF Inv, BitsInv
<1>3. TypeOK /\ Dom \subseteq Nat BY TypeFacts DEF Inv
<1>4. scan \in Dom \cup {heap.current} BY <1>1 DEF Inv, ComputeInv
<1>5. PICK o \in Nat : o = heap.begin BY <1>3, TypeFacts
<1>6. PICK b \in Bases :
        /\ heap' = [begin |-> b, end |-> b + WORD * NextHeapPseudoSize,
                    current |-> b + (heap.current - o), size |-> NextHeapPseudoSize]
        /\ objs' = [a \in {x + b - o : x \in Dom} |-> objs[a - b + o]]
        /\ fwd' = [a \in {x + b - o : x \in Dom} |-> fwd[a - b + o]]
        /\ marked' = {x + b - o : x \in marked}
        /\ enqueued' = {x + b - o : x \in enqueued}
        /\ scan' = b /\ free_ptr' = b + (free_ptr - o)
  BY <1>5 DEF MapNewHeap, Dom
<1>7. b \in Nat BY BaseFacts
<1>8. enqueued' = {} BY <1>2, <1>6
<1>9. Dom' = {x + b - o : x \in Dom} /\ DOMAIN fwd' = Dom' BY <1>6 DEF Dom
<1>10. \A a \in Dom : a + b - o \in {x + b - o : x \in Dom} /\ a + b - o - b + o = a
  BY <1>3, <1>7
<1>11. \A a \in Dom : objs'[a + b - o] = objs[a] /\ fwd'[a + b - o] = fwd[a]
  <2> TAKE a \in Dom
  <2>1. PICK y : y = a + b - o OBVIOUS
  <2>2. y \in {x + b - o : x \in Dom} /\ y - b + o = a
    <3>1. y \in {x + b - o : x \in Dom} BY <2>1
    <3>2. y - b + o = a BY <1>3, <1>7, <2>1
    <3> QED BY <3>1, <3>2
  <2>3. objs'[y] = objs[y - b + o] BY <1>6, <2>2
  <2>4. fwd'[y] = fwd[y - b + o] BY <1>6, <2>2
  <2> QED BY <2>1, <2>2, <2>3, <2>4
<1>12. fwd' = [a \in DOMAIN fwd' |-> fwd'[a]] BY <1>6
<1> QED BY <1>1, <1>4, <1>5, <1>6, <1>8, <1>9, <1>11, <1>12

\* The new chunk: what led to objects leads to their old places.
LEMMA MapNewHeapStep == ASSUME Inv, MapNewHeap PROVE Inv'
<1> USE DEF roots, call, queue
<1>1. PICK b \in Bases, o \in Nat :
           /\ o = heap.begin /\ old_heap' = heap
           /\ pc = "compute" /\ pc' = "update"
           /\ scan \in Dom \cup {heap.current} /\ scan >= heap.current
           /\ heap' = [begin |-> b, end |-> b + WORD * NextHeapPseudoSize,
                       current |-> b + (heap.current - o), size |-> NextHeapPseudoSize]
           /\ Dom' = {x + b - o : x \in Dom}
           /\ marked' = {x + b - o : x \in marked} /\ enqueued' = {}
           /\ \A a \in Dom : /\ objs'[a + b - o] = objs[a]
                             /\ fwd'[a + b - o] = fwd[a]
           /\ DOMAIN fwd' = Dom'
           /\ fwd' = [a \in DOMAIN fwd' |-> fwd'[a]]
           /\ scan' = b /\ free_ptr' = b + (free_ptr - o)
           /\ UNCHANGED <<roots, call, root, queue>>
  BY NewChunkIsCopy
<1>2. TypeOK /\ ChunkInv /\ CallInv /\ BitsInv /\ ComputeInv /\ MarkInv /\ SettledInv BY DEF Inv
<1>3. Tiles(Dom, heap.begin, heap.current) BY <1>1, <1>2 DEF SettledInv, Settled
<1>4. /\ IsFiniteSet(Dom) /\ Dom \subseteq Nat /\ fwd \in [Dom -> Nat] /\ marked \subseteq Dom
      /\ heap.begin \in Nat /\ heap.end \in Nat /\ heap.current \in Nat /\ heap.size \in Nat
      /\ free_ptr \in Nat /\ scan \in Nat
  BY <1>2, TypeFacts DEF TypeOK
<1>5. \A a \in Dom : o <= a /\ a + 4 <= heap.current
  <2>1. \A a \in Dom : a + 4 <= heap.current BY <1>2, <1>3, <1>4, TilesFacts
  <2> QED BY <1>1, <1>3, <2>1 DEF Tiles
<1>6. scan = heap.current /\ free_ptr <= heap.current /\ Placed = marked
  <2>1. scan = heap.current BY <1>1, <1>4, <1>5
  <2>2. free_ptr <= scan BY <1>1, <1>2 DEF ComputeInv
  <2>3. \A a \in marked : a < scan BY <1>4, <1>5, <2>1
  <2> QED BY <2>1, <2>2, <2>3 DEF Placed
<1>7. Slides(marked, o) BY <1>1, <1>2, <1>6 DEF ComputeInv
<1>8. o <= free_ptr /\ (free_ptr = o \/ o + 4 <= free_ptr) BY <1>2, <1>4, <1>7, SlidesFacts
<1>9. PICK P \in Nat : /\ P = NextHeapPseudoSize
                       /\ P >= heap.size /\ P >= 2 * LiveSize + ReqSize
                       /\ LiveSize \in Nat /\ 2 * LiveSize >= free_ptr - o - 1
  BY <1>1, <1>2, <1>8, PseudoSizeFacts
<1>10. ReqSize \in Nat /\ ReqSize >= 2 BY <1>2, ReqSizeFacts
<1>11. b \in Nat /\ b > 0 BY BaseFacts
<1>12. /\ heap'.begin = b /\ heap'.end = b + 2 * P /\ heap'.size = P
       /\ heap'.current = b + (heap.current - o)
       /\ heap'.current \in Nat /\ heap'.end \in Nat
  <2>1. heap.current - o \in Nat BY <1>1, <1>2, <1>4 DEF ChunkInv
  <2> QED BY <1>1, <1>9, <1>11, <2>1 DEF WORD
<1>13. heap.begin <= heap.current /\ heap.current <= heap.end /\ heap.end = heap.begin + 2 * heap.size
  BY <1>2 DEF ChunkInv, WORD
<1>14. \A a \in Dom : a + b - o \in Nat /\ b <= a + b - o /\ a + b - o <= heap'.current
  BY <1>4, <1>5, <1>11, <1>12
<1>15. /\ Dom' \subseteq Nat /\ IsFiniteSet(Dom') /\ marked' \subseteq Dom'
       /\ \A y \in Dom' : \E a \in Dom : y = a + b - o
       /\ \A y \in marked' : \E a \in marked : y = a + b - o
  <2>1. Dom' \subseteq Nat BY <1>1, <1>14
  <2>2. Dom' \subseteq 0..heap'.current BY <1>1, <1>12, <1>14
  <2>3. IsFiniteSet(0..heap'.current)
    <3>1. 0 \in Int /\ heap'.current \in Int BY <1>12
    <3> QED BY <3>1, FS_Interval
  <2>4. IsFiniteSet(Dom') BY <2>2, <2>3, FS_Subset
  <2> QED BY <1>1, <1>4, <2>1, <2>4
<1>16. TypeOK'
  <2>1. heap' \in Chunk BY <1>1, <1>9, <1>11, <1>12 DEF Chunk, WORD
  <2>2. old_heap' \in Chunk BY <1>1, <1>2 DEF TypeOK
  <2>3. \A a \in Dom' : objs'[a] \in HeapObject
    <3>1. \A a \in Dom : objs[a] \in HeapObject BY <1>2, TypeFacts
    <3> QED BY <1>1, <1>15, <3>1
  <2>4. fwd' \in [Dom' -> Nat]
    <3>1. \A a \in Dom' : fwd'[a] \in Nat BY <1>1, <1>4, <1>15
    <3> QED BY <1>1, <3>1
  <2>5. scan' \in Nat /\ free_ptr' \in Nat
    <3>1. free_ptr - o \in Nat BY <1>4, <1>8
    <3> QED BY <1>1, <1>11, <3>1
  <2>6. /\ pc' = "update" /\ enqueued' \subseteq Dom'
        /\ UNCHANGED <<stack, cells, extra_roots, req, res, cur_id, root,
                       q_head_iter, q_tail_iter, cur_obj, field>>
    BY <1>1
  <2> QED BY <1>2, <1>15, <2>1, <2>2, <2>3, <2>4, <2>5, <2>6 DEF TypeOK, Dom
<1>17. ChunkInv'
  <2>1. heap'.begin <= heap'.current /\ heap'.current <= heap'.end
    BY <1>1, <1>4, <1>9, <1>11, <1>12, <1>13
  <2>2. heap'.size # 0 BY <1>9, <1>10, <1>12
  <2>3. heap' # NoChunk BY <1>12, <2>2 DEF NoChunk
  <2> QED BY <1>12, <2>1, <2>2, <2>3 DEF ChunkInv, WORD
<1>18. SettledInv' BY <1>1 DEF SettledInv, Settled
<1>19. CallInv'
  <2>1. Len(extra_roots) = Len(req.roots) BY <1>1, <1>2 DEF CallInv, Collecting
  <2>2. UNCHANGED <<stack, cells, extra_roots, req>> BY <1>1
  <2> QED BY <1>1, <1>2, <2>1, <2>2 DEF CallInv, Collecting, Small
<1>20. BitsInv' BY <1>1, <1>2 DEF BitsInv
<1>21. NewChunkInv'
  <2>1. b <= free_ptr' /\ free_ptr' <= heap'.current BY <1>1, <1>4, <1>6, <1>8, <1>11, <1>12
  <2>2. ReqSize' = ReqSize BY <1>1 DEF ReqSize, ReqLen
  <2>3. free_ptr' + 2 * ReqSize <= heap'.end
    BY <1>1, <1>4, <1>8, <1>9, <1>10, <1>11, <1>12
  <2>4. Room' BY <2>2, <2>3 DEF Room, WORD
  <2> QED BY <1>12, <2>1, <2>4 DEF NewChunkInv
<1>22. \A a \in Dom : /\ ObjSize(a + b - o)' = ObjSize(a) /\ ObjSize(a) \in Nat
                      /\ NextObj(a + b - o)' = NextObj(a) + b - o /\ NextObj(a) \in Nat
  <2> TAKE a \in Dom
  <2>1. ObjSize(a) \in Nat /\ NextObj(a) = a + ObjSize(a) /\ NextObj(a) \in Nat /\ a \in Nat
    BY <1>2, ObjSizeFacts
  <2>2. ObjSize(a + b - o)' = ObjSize(a) BY <1>1 DEF ObjSize
  <2>3. NextObj(a + b - o)' = a + b - o + ObjSize(a) BY <2>2 DEF NextObj
  <2> QED BY <1>11, <2>1, <2>2, <2>3
<1>23. Tiles(Dom, heap.begin, heap.current)'
  <2>1. b \in Dom' \cup {heap'.current} BY <1>1, <1>3, <1>4, <1>11, <1>12 DEF Tiles
  <2>2. \A y \in Dom' : /\ b <= y /\ NextObj(y)' <= heap'.current
                        /\ NextObj(y)' \in Dom' \cup {heap'.current}
    <3> SUFFICES ASSUME NEW a \in Dom
                 PROVE  /\ b <= a + b - o /\ NextObj(a + b - o)' <= heap'.current
                        /\ NextObj(a + b - o)' \in Dom' \cup {heap'.current}
      BY <1>15
    <3>1. NextObj(a) <= heap.current /\ NextObj(a) \in Dom \cup {heap.current} BY <1>3 DEF Tiles
    <3>2. NextObj(a + b - o)' = NextObj(a) + b - o /\ NextObj(a) \in Nat BY <1>22
    <3>3. NextObj(a + b - o)' <= heap'.current BY <1>4, <1>11, <1>12, <3>1, <3>2
    <3>4. NextObj(a + b - o)' \in Dom' \cup {heap'.current}
      BY <1>1, <1>4, <1>11, <1>12, <3>1, <3>2
    <3> QED BY <1>14, <3>3, <3>4
  <2>3. \A x, y \in Dom' : x < y => NextObj(x)' <= y
    <3> SUFFICES ASSUME NEW a \in Dom, NEW c \in Dom, a + b - o < c + b - o
                 PROVE  NextObj(a + b - o)' <= c + b - o
      BY <1>15
    <3>1. a < c BY <1>4, <1>11
    <3>2. NextObj(a) <= c BY <1>3, <3>1 DEF Tiles
    <3> QED BY <1>4, <1>11, <1>22, <3>2
  <2> QED BY <1>12, <2>1, <2>2, <2>3 DEF Tiles
<1>24. \A a \in marked : Target(a + b - o)' = Target(a) + b - o /\ Target(a) \in Nat
  <2> TAKE a \in marked
  <2>1. Target(a) = fwd[a] /\ Target(a) \in Nat BY <1>1, <1>4 DEF Target
  <2>2. Target(a + b - o)' = heap'.begin + (fwd'[a + b - o] - old_heap'.begin)
    BY <1>1 DEF Target, NewAddress
  <2> QED BY <1>1, <1>4, <1>11, <1>12, <2>1, <2>2
<1>25. Slides(marked, heap.begin)'
  <2>1. /\ free_ptr = o \/ \E a \in marked : Target(a) = o
        /\ \A a \in marked : /\ Target(a) \in Nat
                             /\ o <= Target(a) /\ Target(a) <= a
                             /\ Target(a) + ObjSize(a) <= free_ptr
                             /\ \/ Target(a) + ObjSize(a) = free_ptr
                                \/ \E c \in marked : Target(c) = Target(a) + ObjSize(a)
        /\ \A a, c \in marked : a < c => Target(a) + ObjSize(a) <= Target(c)
    BY <1>7 DEF Slides
  <2>2. free_ptr' = b \/ \E y \in marked' : Target(y)' = b
    <3>1. CASE free_ptr = o BY <3>1, <1>1, <1>11
    <3>2. CASE \E a \in marked : Target(a) = o
      <4>1. PICK a \in marked : Target(a) = o BY <3>2
      <4>2. Target(a + b - o)' = b BY <4>1, <1>11, <1>24
      <4> QED BY <1>1, <4>2
    <3> QED BY <2>1, <3>1, <3>2
  <2>3. \A y \in marked' : /\ Target(y)' \in Nat
                           /\ b <= Target(y)' /\ Target(y)' <= y
                           /\ Target(y)' + ObjSize(y)' <= free_ptr'
                           /\ \/ Target(y)' + ObjSize(y)' = free_ptr'
                              \/ \E c \in marked' : Target(c)' = Target(y)' + ObjSize(y)'
    <3> SUFFICES ASSUME NEW a \in marked, NEW y, y = a + b - o
                 PROVE  /\ Target(y)' \in Nat
                        /\ b <= Target(y)' /\ Target(y)' <= y
                        /\ Target(y)' + ObjSize(y)' <= free_ptr'
                        /\ \/ Target(y)' + ObjSize(y)' = free_ptr'
                           \/ \E c \in marked' : Target(c)' = Target(y)' + ObjSize(y)'
      BY <1>15
    <3>1. Target(y)' = Target(a) + b - o /\ Target(a) \in Nat BY <1>24
    <3>2. ObjSize(y)' = ObjSize(a) /\ ObjSize(a) \in Nat /\ a \in Nat BY <1>4, <1>22
    <3>3. /\ o <= Target(a) /\ Target(a) <= a
          /\ Target(a) + ObjSize(a) <= free_ptr
      BY <2>1
    <3>4. Target(a) + ObjSize(a) = free_ptr => Target(y)' + ObjSize(y)' = free_ptr'
      BY <1>1, <1>4, <1>11, <3>1, <3>2
    <3>5. ASSUME NEW c \in marked, Target(c) = Target(a) + ObjSize(a)
          PROVE  \E z \in marked' : Target(z)' = Target(y)' + ObjSize(y)'
      <4>1. c + b - o \in marked' BY <1>1
      <4>2. Target(c + b - o)' = Target(a) + ObjSize(a) + b - o BY <1>24, <3>5
      <4>3. Target(c + b - o)' = Target(y)' + ObjSize(y)' BY <1>11, <3>1, <3>2, <4>2
      <4> QED BY <4>1, <4>3
    <3>6. Target(y)' \in Nat /\ b <= Target(y)' /\ Target(y)' <= y
          /\ Target(y)' + ObjSize(y)' <= free_ptr'
      BY <1>1, <1>4, <1>11, <3>1, <3>2, <3>3
    <3> QED BY <2>1, <3>4, <3>5, <3>6
  <2>4. \A x, y \in marked' : x < y => Target(x)' + ObjSize(x)' <= Target(y)'
    <3> SUFFICES ASSUME NEW a \in marked, NEW c \in marked, a + b - o < c + b - o
                 PROVE  Target(a + b - o)' + ObjSize(a + b - o)' <= Target(c + b - o)'
      BY <1>15
    <3>1. a < c /\ a \in Dom BY <1>4, <1>11
    <3>2. Target(a) + ObjSize(a) <= Target(c) BY <2>1, <3>1
    <3>3. Target(a + b - o)' = Target(a) + b - o /\ Target(c + b - o)' = Target(c) + b - o
          /\ Target(a) \in Nat /\ Target(c) \in Nat
      BY <1>24
    <3>4. ObjSize(a + b - o)' = ObjSize(a) /\ ObjSize(a) \in Nat BY <1>22, <3>1
    <3> QED BY <1>11, <3>2, <3>3, <3>4
  <2> QED BY <1>12, <2>2, <2>3, <2>4 DEF Slides
<1>26. \A w \in Nat : /\ Leads(w, Dom) /\ Met(w) /\ (heap = NoChunk => w # 0)
                         => OldWord(w)'
  <2> SUFFICES ASSUME NEW w \in Nat, Leads(w, Dom), Met(w), heap = NoChunk => w # 0
               PROVE  OldWord(w)'
    OBVIOUS
  <2>1. CASE UNBOXED(w) BY <2>1 DEF OldWord
  <2>2. CASE Small(w) BY <2>2, <1>1 DEF OldWord, Small
  <2>3. CASE ~ UNBOXED(w) /\ Header(w) \in Dom
    <3>1. PICK a \in Dom : a = Header(w) BY <2>3
    <3>2. w = a + 4 BY <1>4, <3>1 DEF Header, DATA_HEADER_SZ, WORD
    <3>3. IsValidHeapPointer(w) BY <1>1, <1>4, <1>5, <2>3, <3>2 DEF IsValidHeapPointer
    <3>4. a \in marked
      <4>1. enqueued = {} BY <1>1, <1>2 DEF BitsInv
      <4> QED BY <3>1, <3>3, <4>1 DEF Met
    <3>5. a + b - o \in marked' BY <1>1, <3>4
    <3>6. (Header(w) - old_heap.begin + heap.begin)' = a - o + b
      BY <1>1, <1>12, <3>1 DEF Header
    <3>7. a - o + b = a + b - o BY <1>4, <1>11
    <3> QED BY <3>5, <3>6, <3>7 DEF OldWord
  <2> QED BY <2>1, <2>2, <2>3 DEF Leads
<1>27. FieldsMet /\ RootsMet BY <1>1, <1>2 DEF MarkInv
<1>28. \A y \in marked' : \A w \in FieldWords(y)' : OldWord(w)'
  <2> SUFFICES ASSUME NEW a \in marked, NEW w \in FieldWords(a + b - o)' PROVE OldWord(w)'
    BY <1>15
  <2>1. a \in Dom BY <1>4
  <2>2. w \in FieldWords(a) BY <1>1, <2>1 DEF FieldWords
  <2>3. w \in Nat BY <1>2, <2>1, <2>2, FieldFacts
  <2>4. Leads(w, Dom) BY <1>1, <1>2, <2>1, <2>2 DEF SettledInv, Settled
  <2>5. Met(w) BY <1>1, <1>27, <2>2 DEF FieldsMet, FieldWords
  <2>6. heap # NoChunk BY <1>2, <2>1 DEF ChunkInv, Dom
  <2> QED BY <1>26, <2>3, <2>4, <2>5, <2>6
<1>29. \A w \in (StackWords \cup {cells.arg, cells.content})' : OldWord(w)'
  <2> SUFFICES ASSUME NEW w \in StackWords \cup {cells.arg, cells.content} PROVE OldWord(w)'
    BY <1>1 DEF StackWords
  <2>1. w \in Nat BY <1>2 DEF TypeOK, StackWords
  <2>2. RootWord(w, Dom) BY <1>1, <1>2 DEF SettledInv, Settled
  <2>3. Len(extra_roots) = Len(req.roots) BY <1>1, <1>2 DEF CallInv, Collecting
  <2>4. CASE Small(w)
    <3>1. OldWord(w)' BY <1>1, <2>2, <2>4 DEF RootWord, OldWord, Small
    <3> QED BY <3>1
  <2>5. CASE \E i \in DOMAIN RootWords : RootWords[i] = w
    <3>1. Met(w) BY <1>1, <1>27, <2>5 DEF RootsMet
    <3> QED BY <1>26, <2>1, <2>2, <3>1 DEF RootWord
  <2> QED BY <1>2, <2>3, <2>4, <2>5, RootsCover
<1>30. UpdateInv'
  <2>1. old_heap'.begin \in Bases \/ old_heap' = NoChunk BY <1>1, <1>2 DEF ChunkInv
  <2>2. old_heap' = NoChunk => Dom' = {} BY <1>1, <1>2, <1>15 DEF ChunkInv, Dom
  <2>3. old_heap'.begin <= old_heap'.current
        /\ old_heap'.current - old_heap'.begin = heap'.current - heap'.begin
    BY <1>1, <1>4, <1>11, <1>12, <1>13
  <2>4. scan' \in Dom' \cup {heap'.current} BY <1>1, <1>12, <1>23 DEF Tiles
  <2>5. \A y \in marked' : ~ y < scan' BY <1>1, <1>11, <1>14, <1>15, <1>4
  <2> QED BY <1>23, <1>25, <1>28, <1>29, <2>1, <2>2, <2>3, <2>4, <2>5 DEF UpdateInv
<1>31. QueueInv' /\ MarkInv' /\ ComputeInv' /\ RelocateInv' /\ pc' # "retry"
  BY <1>1 DEF QueueInv, MarkInv, ComputeInv, RelocateInv
<1> QED BY <1>16, <1>17, <1>18, <1>19, <1>20, <1>21, <1>30, <1>31 DEF Inv

-----------------------------------------------------------------------------
(* Steps of the collection: words are fixed. *)

\* A word that leads to a marked object's old place is fixed to lead to where
\* that object will be; other words stay as they are.
LEMMA FixedWord ==
  ASSUME TypeOK, UpdateInv, pc = "update", NEW w \in Nat, OldWord(w)
  PROVE  Fixed(w) \in Nat /\ NewWord(Fixed(w), marked) /\ (Small(w) => Fixed(w) = w)
<1>1. /\ heap.begin \in Nat /\ heap.current \in Nat
      /\ old_heap.begin \in Nat /\ old_heap.current \in Nat
      /\ marked \subseteq Dom /\ Dom \subseteq Nat
  BY TypeFacts
<1>2. /\ old_heap.begin \in Bases \/ old_heap = NoChunk
      /\ old_heap = NoChunk => Dom = {}
      /\ old_heap.current - old_heap.begin = heap.current - heap.begin
      /\ Tiles(Dom, heap.begin, heap.current)
      /\ Slides(marked, heap.begin)
  BY DEF UpdateInv
<1>3. CASE UNBOXED(w)
  BY <1>3 DEF Fixed, InOldHeap, NewWord
<1>4. CASE ~ UNBOXED(w) /\ Small(w) /\ (old_heap = NoChunk => w # 0)
  <2>1. ~ InOldHeap(w)
    <3>1. CASE old_heap.begin \in Bases
      <4>1. w < old_heap.begin BY <1>4, <3>1 DEF Small
      <4> QED BY <1>1, <4>1 DEF InOldHeap
    <3>2. CASE old_heap = NoChunk
      <4>1. old_heap.current = 0 /\ w # 0 BY <1>4, <3>2 DEF NoChunk
      <4> QED BY <4>1 DEF InOldHeap
    <3> QED BY <1>2, <3>1, <3>2
  <2> QED BY <1>4, <2>1 DEF Fixed, NewWord
<1>5. CASE ~ UNBOXED(w) /\ Header(w) - old_heap.begin + heap.begin \in marked
  <2>1. PICK a \in marked : a = Header(w) - old_heap.begin + heap.begin BY <1>5
  <2>2. w = a - heap.begin + old_heap.begin + 4
    BY <1>1, <2>1 DEF Header, DATA_HEADER_SZ, WORD
  <2>3. a \in Dom /\ heap.begin <= a /\ a + 4 <= heap.current
    BY <1>1, <1>2, TilesFacts DEF Tiles
  <2>4. InOldHeap(w) BY <1>1, <1>2, <1>5, <2>2, <2>3 DEF InOldHeap
  <2>5. Header(heap.begin + (w - old_heap.begin)) = a
    BY <1>1, <2>2, <2>3 DEF Header, DATA_HEADER_SZ, WORD
  <2>6. Fixed(w) = Content(NewAddress(a)) BY <2>4, <2>5 DEF Fixed
  <2>7. NewAddress(a) \in Nat BY <1>2 DEF Slides, Target
  <2>8. Fixed(w) \in Nat BY <2>6, <2>7 DEF Content, DATA_HEADER_SZ, WORD
  <2>9. ~ Small(w)
    <3>1. old_heap.begin \in Bases BY <1>2, <2>3
    <3> QED BY <1>1, <2>2, <2>3, <3>1 DEF Small
  <2> QED BY <2>6, <2>8, <2>9 DEF NewWord
<1> QED BY <1>3, <1>4, <1>5 DEF OldWord

\* What updating an object leaves of the objects.
LEMMA UpdatedObjects ==
  ASSUME Inv, UpdateObject
  PROVE  /\ Dom' = Dom
         /\ \A a \in Dom : /\ objs'[a] \in HeapObject
                           /\ PtrFields(objs'[a]) = PtrFields(objs[a])
                           /\ Len(objs'[a].body) = Len(objs[a].body)
                           /\ a # scan => objs'[a] = objs[a]
         /\ scan \notin marked => objs' = objs
         /\ scan \in marked => \A k \in PtrFields(objs[scan]) :
                                 objs'[scan].body[k] = Fixed(objs[scan].body[k])
<1>1. /\ pc = "update" /\ scan < heap.current
      /\ TypeOK /\ UpdateInv
  BY DEF UpdateObject, Inv
<1>2. marked \subseteq Dom /\ \A a \in Dom : objs[a] \in HeapObject BY <1>1, TypeFacts
<1>3. CASE scan \notin marked
  <2>1. objs' = objs BY <1>3 DEF UpdateObject
  <2> QED BY <1>2, <1>3, <2>1 DEF Dom
<1>4. CASE scan \in marked
  <2>1. PICK c \in Dom : c = scan BY <1>2, <1>4
  <2>2. PICK body : body = objs[c].body OBVIOUS
  <2>3. PICK n \in Nat : n = Len(body) /\ DOMAIN body = 1..n /\ body \in [1..n -> Nat]
    BY <1>1, <2>2, FieldFacts
  <2>4. \A k \in PtrFields(objs[c]) : k \in 1..n /\ Fixed(body[k]) \in Nat
    <3> TAKE k \in PtrFields(objs[c])
    <3>1. k \in 1..n /\ body[k] \in Nat BY <1>1, <2>2, <2>3, FieldFacts
    <3>2. OldWord(body[k])
      <4>1. ~ c < scan BY <1>1, <2>1, TypeFacts
      <4>2. body[k] \in FieldWords(c) BY <1>1, <2>2, FieldFacts
      <4> QED BY <1>1, <1>4, <2>1, <4>1, <4>2 DEF UpdateInv
    <3> QED BY <1>1, <3>1, <3>2, FixedWord
  <2>5. PICK new : new = [k \in 1..n |-> IF k \in PtrFields(objs[c]) THEN Fixed(body[k]) ELSE body[k]]
    OBVIOUS
  <2>6. new \in [1..n -> Nat] BY <2>3, <2>4, <2>5
  <2>7. new \in Seq(Nat) /\ Len(new) = n BY <2>6, FunctionIsSeq
  <2>8. objs' = [objs EXCEPT ![c].body = new]
    <3>1. objs' = [objs EXCEPT ![c].body = [k \in DOMAIN body |->
                     IF k \in PtrFields(objs[c]) THEN Fixed(body[k]) ELSE body[k]]]
      BY <1>4, <2>1, <2>2 DEF UpdateObject, Dom
    <3> QED BY <2>3, <2>5, <3>1
  <2>9. /\ Dom' = Dom
        /\ objs'[c] = [tag |-> objs[c].tag, id |-> objs[c].id, body |-> new]
        /\ objs'[c] \in HeapObject
        /\ \A a \in Dom \ {c} : objs'[a] = objs[a]
    BY <1>2, <2>7, <2>8, BodyReplaced
  <2>10. /\ Len(objs'[c].body) = Len(objs[c].body)
         /\ PtrFields(objs'[c]) = PtrFields(objs[c])
         /\ \A k \in PtrFields(objs[c]) : objs'[c].body[k] = Fixed(objs[c].body[k])
    <3>1. objs'[c].body = new /\ objs'[c].tag = objs[c].tag BY <2>9
    <3>2. DOMAIN new = DOMAIN body BY <2>3, <2>5
    <3>3. PtrFields(objs'[c]) = PtrFields(objs[c])
      BY <2>2, <2>3, <2>7, <3>1, <3>2 DEF PtrFields
    <3>4. \A k \in PtrFields(objs[c]) : new[k] = Fixed(body[k]) BY <2>4, <2>5
    <3> QED BY <2>2, <2>3, <2>7, <3>1, <3>3, <3>4
  <2> QED BY <1>2, <1>4, <2>1, <2>9, <2>10
<1> QED BY <1>3, <1>4

\* update_references, one object of the heap.
LEMMA UpdateObjectStep == ASSUME Inv, UpdateObject PROVE Inv'
<1> USE DEF roots, call, queue, chunks
<1>1. /\ pc = "update" /\ pc' = "update" /\ scan < heap.current /\ scan' = NextObj(scan)
      /\ UNCHANGED <<fwd, marked, enqueued, chunks, roots, call, root, queue, free_ptr>>
  BY DEF UpdateObject
<1>2. TypeOK /\ ChunkInv /\ CallInv /\ BitsInv /\ NewChunkInv /\ UpdateInv BY DEF Inv
<1>3. /\ Dom' = Dom
      /\ \A a \in Dom : /\ objs'[a] \in HeapObject
                        /\ PtrFields(objs'[a]) = PtrFields(objs[a])
                        /\ Len(objs'[a].body) = Len(objs[a].body)
                        /\ a # scan => objs'[a] = objs[a]
      /\ scan \notin marked => objs' = objs
      /\ scan \in marked => \A k \in PtrFields(objs[scan]) :
                              objs'[scan].body[k] = Fixed(objs[scan].body[k])
  BY UpdatedObjects
<1>4. /\ Tiles(Dom, heap.begin, heap.current) /\ Slides(marked, heap.begin)
      /\ scan \in Dom \cup {heap.current}
  BY <1>1, <1>2 DEF UpdateInv
<1>5. /\ IsFiniteSet(Dom) /\ Dom \subseteq Nat /\ fwd \in [Dom -> Nat]
      /\ marked \subseteq Dom /\ enqueued \subseteq Dom
  BY <1>2, TypeFacts
<1>6. PICK c \in Dom, n \in Nat :
        /\ c = scan /\ n = NextObj(scan) /\ n \in Dom \cup {heap.current}
        /\ \A a \in Dom : a < n <=> a < c \/ a = c
  BY <1>1, <1>2, <1>4, ScanFacts
<1>7. \A a \in Dom : ObjSize(a)' = ObjSize(a) /\ NextObj(a)' = NextObj(a)
  BY <1>3 DEF ObjSize, NextObj
<1>8. TypeOK'
  <2>1. scan' \in Nat BY <1>1, <1>6
  <2>2. UNCHANGED <<heap, old_heap, cur_id, stack, cells, extra_roots, req, res, root, pc,
                    q_head_iter, q_tail_iter, cur_obj, field, free_ptr>>
    BY <1>1
  <2> QED BY <1>1, <1>2, <1>3, <1>5, <2>1, <2>2 DEF TypeOK, Dom
<1>9. ChunkInv' BY <1>1, <1>2, <1>3 DEF ChunkInv, Dom
<1>10. CallInv' BY <1>1, <1>2 DEF CallInv, Collecting, Small
<1>11. BitsInv' BY <1>1, <1>2 DEF BitsInv
<1>12. NewChunkInv' BY <1>1, <1>2 DEF NewChunkInv, Room, ReqSize, ReqLen
<1>13. UpdateInv'
  <2>1. Tiles(Dom, heap.begin, heap.current)'
    BY <1>1, <1>3, <1>4, <1>7 DEF Tiles
  <2>2. \A a \in marked : Target(a)' = Target(a) BY <1>1 DEF Target, NewAddress
  <2>3. Slides(marked, heap.begin)'
    BY <1>1, <1>4, <1>5, <1>7, <2>2 DEF Slides
  <2>4. \A w : (NewWord(w, marked) => NewWord(w, marked)') /\ (OldWord(w) => OldWord(w)')
    BY <1>1 DEF NewWord, NewAddress, OldWord, Small
  <2>5. ASSUME NEW a \in marked, NEW k \in PtrFields(objs[a]), NEW y, y = objs'[a].body[k]
        PROVE  IF a < n THEN NewWord(y, marked)' ELSE OldWord(y)'
    <3>1. PICK w \in Nat : w = objs[a].body[k] /\ w \in FieldWords(a)
      BY <1>2, <1>5, <2>5, FieldFacts
    <3>2. IF a < c THEN NewWord(w, marked) ELSE OldWord(w) BY <1>1, <1>2, <1>6, <3>1 DEF UpdateInv
    <3>3. CASE a = c
      <4>1. ~ a < c /\ a < n BY <1>5, <1>6, <3>3
      <4>2. y = Fixed(w) BY <1>3, <1>6, <2>5, <3>1, <3>3
      <4>3. NewWord(y, marked) BY <1>1, <1>2, <3>2, <4>1, <4>2, FixedWord
      <4>4. NewWord(y, marked)' BY <2>4, <4>3
      <4> QED BY <4>1, <4>4
    <3>4. CASE a # c
      <4>1. y = w BY <1>3, <1>5, <1>6, <2>5, <3>1, <3>4
      <4>2. a < n <=> a < c BY <1>5, <1>6, <3>4
      <4>3. NewWord(w, marked) => NewWord(w, marked)' BY <2>4
      <4>4. OldWord(w) => OldWord(w)' BY <2>4
      <4> QED BY <3>2, <4>1, <4>2, <4>3, <4>4
    <3> QED BY <3>3, <3>4
  <2>6. \A a \in marked' : \A w \in FieldWords(a)' :
           IF a < scan' THEN NewWord(w, marked)' ELSE OldWord(w)'
    <3> SUFFICES ASSUME NEW a \in marked, NEW w \in FieldWords(a)'
                 PROVE  IF a < scan' THEN NewWord(w, marked)' ELSE OldWord(w)'
      BY <1>1
    <3>1. PICK k \in PtrFields(objs'[a]) : w = objs'[a].body[k] BY DEF FieldWords
    <3>2. k \in PtrFields(objs[a]) BY <1>3, <1>5
    <3>3. scan' = n BY <1>1, <1>6
    <3> QED BY <2>5, <3>1, <3>2, <3>3
  <2>7. \A w \in (StackWords \cup {cells.arg, cells.content})' : OldWord(w)'
    BY <1>1, <1>2, <2>4 DEF UpdateInv, StackWords
  <2>8. scan' \in Dom' \cup {heap'.current} BY <1>1, <1>3, <1>6
  <2> QED BY <1>1, <1>2, <1>3, <2>1, <2>3, <2>6, <2>7, <2>8 DEF UpdateInv
<1>14. /\ SettledInv' /\ QueueInv' /\ MarkInv' /\ ComputeInv' /\ RelocateInv' /\ pc' # "retry"
  BY <1>1 DEF SettledInv, Settled, QueueInv, MarkInv, ComputeInv, RelocateInv
<1> QED BY <1>8, <1>9, <1>10, <1>11, <1>12, <1>13, <1>14 DEF Inv

\* What fixing the roots leaves of the words outside the objects.
LEMMA UpdatedRoots ==
  ASSUME Inv, UpdateRoots
  PROVE  /\ stack' \in Seq(Nat) /\ Len(stack') = Len(stack) /\ DOMAIN stack' = DOMAIN stack
         /\ cells' \in [arg : Nat, content : Nat]
         /\ cells'.content = cells.content
         /\ cells'.arg = cells.arg \/ ~ Small(cells.arg)
         /\ \A w \in StackWords' \cup {cells'.arg, cells'.content} : NewWord(w, marked)
<1>1. pc = "update" /\ TypeOK /\ UpdateInv /\ CallInv BY DEF UpdateRoots, Inv
<1>2. stack \in Seq(Nat) /\ cells.arg \in Nat /\ cells.content \in Nat BY <1>1 DEF TypeOK
<1>3. \A w \in StackWords \cup {cells.arg, cells.content} :
        Fixed(w) \in Nat /\ NewWord(Fixed(w), marked) /\ (Small(w) => Fixed(w) = w)
  <2> TAKE w \in StackWords \cup {cells.arg, cells.content}
  <2>1. w \in Nat BY <1>2 DEF StackWords
  <2>2. OldWord(w) BY <1>1 DEF UpdateInv
  <2> QED BY <1>1, <2>1, <2>2, FixedWord
<1>4. /\ stack' \in Seq(Nat) /\ Len(stack') = Len(stack) /\ DOMAIN stack' = DOMAIN stack
      /\ \A i \in DOMAIN stack : stack'[i] = Fixed(stack[i])
  <2>1. PICK n \in Nat : n = Len(stack) /\ DOMAIN stack = 1..n BY <1>2
  <2>2. stack' = [i \in 1..n |-> Fixed(stack[i])] BY <2>1 DEF UpdateRoots
  <2>3. \A i \in 1..n : Fixed(stack[i]) \in Nat BY <1>3, <2>1 DEF StackWords
  <2>4. stack' \in [1..n -> Nat] BY <2>2, <2>3
  <2>5. stack' \in Seq(Nat) /\ Len(stack') = n BY <2>4, FunctionIsSeq
  <2> QED BY <2>1, <2>2, <2>5
<1>5. cells' = [arg |-> IF IsExtraRoot(ARG) THEN Fixed(cells.arg) ELSE cells.arg,
                content |-> IF IsExtraRoot(CONTENT) THEN Fixed(cells.content) ELSE cells.content]
  BY DEF UpdateRoots
<1>6. Small(cells.content) BY <1>1 DEF CallInv
<1>7. cells'.content = cells.content BY <1>3, <1>5, <1>6
<1>8. /\ cells'.arg \in Nat /\ NewWord(cells'.arg, marked)
      /\ cells'.arg = cells.arg \/ ~ Small(cells.arg)
  <2>1. CASE IsExtraRoot(ARG)
    <3>1. cells'.arg = Fixed(cells.arg) BY <1>5, <2>1
    <3> QED BY <1>3, <3>1
  <2>2. CASE ~ IsExtraRoot(ARG)
    <3>1. cells'.arg = cells.arg BY <1>5, <2>2
    <3>2. Len(extra_roots) = Len(req.roots) BY <1>1 DEF CallInv, Collecting
    <3>3. extra_roots \in Seq(Int) /\ req.roots \in Seq(Int) BY <1>1 DEF TypeOK
    <3>4. ASSUME NEW i \in DOMAIN req.roots, req.roots[i] = ARG PROVE FALSE
      <4>1. i \in DOMAIN extra_roots /\ extra_roots[i] = ARG
        BY <1>1, <3>2, <3>3, <3>4 DEF CallInv
      <4> QED BY <2>2, <4>1 DEF IsExtraRoot
    <3>5. Small(cells.arg) BY <1>1, <3>4 DEF CallInv
    <3> QED BY <1>2, <3>1, <3>5 DEF NewWord
  <2> QED BY <2>1, <2>2
<1>9. NewWord(cells'.content, marked) BY <1>6, <1>7 DEF NewWord
<1>10. \A w \in StackWords' : NewWord(w, marked)
  <2> SUFFICES ASSUME NEW i \in DOMAIN stack PROVE NewWord(stack'[i], marked)
    BY <1>4 DEF StackWords
  <2> QED BY <1>3, <1>4 DEF StackWords
<1> QED BY <1>2, <1>4, <1>5, <1>7, <1>8, <1>9, <1>10

\* update_references, the stack and the extra roots.
LEMMA UpdateRootsStep == ASSUME Inv, UpdateRoots PROVE Inv'
<1> USE DEF chunks, call, queue, memory
<1>1. /\ pc = "update" /\ pc' = "relocate" /\ scan >= heap.current /\ scan' = heap.begin
      /\ UNCHANGED <<memory, chunks, extra_roots, call, root, queue, free_ptr>>
  BY DEF UpdateRoots
<1>2. TypeOK /\ ChunkInv /\ CallInv /\ BitsInv /\ NewChunkInv /\ UpdateInv BY DEF Inv
<1>3. /\ stack' \in Seq(Nat) /\ Len(stack') = Len(stack) /\ DOMAIN stack' = DOMAIN stack
      /\ cells' \in [arg : Nat, content : Nat]
      /\ cells'.content = cells.content
      /\ cells'.arg = cells.arg \/ ~ Small(cells.arg)
      /\ \A w \in StackWords' \cup {cells'.arg, cells'.content} : NewWord(w, marked)
  BY UpdatedRoots
<1>4. /\ Tiles(Dom, heap.begin, heap.current) /\ Slides(marked, heap.begin)
      /\ scan \in Dom \cup {heap.current}
  BY <1>1, <1>2 DEF UpdateInv
<1>5. /\ Dom \subseteq Nat /\ marked \subseteq Dom
      /\ heap.begin \in Nat /\ heap.current \in Nat /\ free_ptr \in Nat /\ scan \in Nat
  BY <1>2, TypeFacts DEF TypeOK
<1>6. \A a \in Dom : heap.begin <= a /\ a < scan
  <2>1. \A a \in Dom : a + 4 <= heap.current BY <1>2, <1>4, <1>5, TilesFacts
  <2> QED BY <1>1, <1>4, <1>5, <2>1 DEF Tiles
<1>7. TypeOK'
  <2>1. UNCHANGED <<heap, old_heap, objs, fwd, marked, enqueued, cur_id, extra_roots, req, res,
                    root, q_head_iter, q_tail_iter, cur_obj, field, free_ptr>>
    BY <1>1
  <2> QED BY <1>1, <1>2, <1>3, <1>5, <2>1 DEF TypeOK
<1>8. ChunkInv' BY <1>1, <1>2 DEF ChunkInv
<1>9. CallInv' BY <1>1, <1>2, <1>3 DEF CallInv, Collecting, Small
<1>10. BitsInv' BY <1>1, <1>2 DEF BitsInv
<1>11. NewChunkInv' BY <1>1, <1>2 DEF NewChunkInv, Room, ReqSize, ReqLen
<1>12. RelocateInv'
  <2>1. PICK f \in Nat : f = heap.begin BY <1>5
  <2>2. f \in (heap.begin..free_ptr)' BY <1>1, <1>2, <1>5, <2>1 DEF NewChunkInv
  <2>3. Before(f)' = {} BY <1>1, <1>5, <1>6, <2>1 DEF Before, Dom
  <2>4. Ahead' = Dom BY <1>1, <1>6 DEF Ahead, Dom
  <2>5. Waiting' = marked BY <1>1, <1>5, <1>6 DEF Waiting
  <2>6. \A a \in Dom : NextObj(a)' = NextObj(a) /\ ObjSize(a)' = ObjSize(a)
    BY <1>1 DEF NextObj, ObjSize
  <2>7. \A a : Target(a)' = Target(a) BY <1>1 DEF Target, NewAddress
  <2>8. Tiles(Before(f), heap.begin, f)' BY <1>1, <2>1, <2>3 DEF Tiles
  <2>9. Tiles(Ahead, scan, heap.current)' BY <1>1, <1>4, <2>4, <2>6 DEF Tiles
  <2>10. Slides(Waiting, f)' BY <1>1, <1>4, <1>5, <2>1, <2>5, <2>6, <2>7 DEF Slides
  <2>11. \A w : NewWord(w, marked) => LeadsInPlace(w, f)'
    BY <1>1, <2>5 DEF NewWord, NewAddress, LeadsInPlace, Small
  <2>12. \A a \in marked : \A w \in FieldWords(a) : NewWord(w, marked)
    BY <1>1, <1>2, <1>5, <1>6 DEF UpdateInv
  <2>13. \A a \in (Before(f) \cup Waiting)' : \A w \in FieldWords(a)' : LeadsInPlace(w, f)'
    BY <1>1, <2>3, <2>5, <2>11, <2>12 DEF FieldWords
  <2>14. \A w \in (StackWords \cup {cells.arg, cells.content})' : LeadsInPlace(w, f)'
    BY <1>3, <2>11
  <2>15. f <= scan' /\ scan' \in Dom' \cup {heap'.current}
    BY <1>1, <1>4, <1>5, <2>1 DEF Tiles, Dom
  <2>16. RelocatedTo(f)'
    BY <2>3, <2>8, <2>9, <2>10, <2>13, <2>14, <2>15 DEF RelocatedTo
  <2> QED BY <2>2, <2>16 DEF RelocateInv
<1>13. /\ SettledInv' /\ QueueInv' /\ MarkInv' /\ ComputeInv' /\ UpdateInv' /\ pc' # "retry"
  BY <1>1 DEF SettledInv, Settled, QueueInv, MarkInv, ComputeInv, UpdateInv
<1> QED BY <1>7, <1>8, <1>9, <1>10, <1>11, <1>12, <1>13 DEF Inv

-----------------------------------------------------------------------------
(* Steps of the collection: the objects slide into place. *)

\* The object that the walk stands on, and what lies beyond it.
LEMMA AheadFacts ==
  ASSUME TypeOK, NEW f, RelocatedTo(f), scan < heap.current
  PROVE  /\ scan \in Dom /\ NextObj(scan) \in Nat /\ scan < NextObj(scan)
         /\ NextObj(scan) \in Dom \cup {heap.current}
         /\ \A a \in Dom : NextObj(scan) <= a <=> scan <= a /\ a # scan
         /\ Tiles({a \in Dom : NextObj(scan) <= a}, NextObj(scan), heap.current)
<1>1. /\ scan \in Dom \cup {heap.current} /\ Tiles(Ahead, scan, heap.current) BY DEF RelocatedTo
<1>2. Dom \subseteq Nat /\ heap.current \in Nat BY TypeFacts
<1>3. scan \in Dom BY <1>1, <1>2
<1>4. PICK n \in Nat : n = NextObj(scan) /\ scan < n
  <2>1. NextObj(scan) \in Nat /\ ObjSize(scan) >= 4 /\ NextObj(scan) = scan + ObjSize(scan)
        /\ ObjSize(scan) \in Nat
    BY <1>3, ObjSizeFacts
  <2> QED BY <1>2, <1>3, <2>1
<1>5. scan \in Ahead BY <1>2, <1>3 DEF Ahead
<1>6. n \in Ahead \cup {heap.current} BY <1>1, <1>4, <1>5 DEF Tiles
<1>7. \A a \in Dom : n <= a <=> scan <= a /\ a # scan
  <2> TAKE a \in Dom
  <2>1. ASSUME scan <= a, a # scan PROVE n <= a
    <3>1. a \in Ahead /\ scan < a BY <1>2, <1>3, <2>1 DEF Ahead
    <3> QED BY <1>1, <1>4, <1>5, <3>1 DEF Tiles
  <2> QED BY <1>2, <1>3, <1>4, <2>1
<1>8. Tiles({a \in Dom : n <= a}, n, heap.current)
  <2>1. \A a \in {x \in Dom : n <= x} :
           /\ a \in Ahead /\ NextObj(a) \in Nat /\ a < NextObj(a) /\ a \in Nat /\ n <= a
    <3> TAKE a \in {x \in Dom : n <= x}
    <3>1. a \in Dom /\ n <= a OBVIOUS
    <3>2. a \in Ahead BY <1>7, <3>1 DEF Ahead
    <3>3. NextObj(a) \in Nat /\ a < NextObj(a)
      <4>1. /\ NextObj(a) = a + ObjSize(a) /\ ObjSize(a) \in Nat /\ ObjSize(a) >= 4 /\ a \in Nat
        BY <3>1, ObjSizeFacts
      <4> QED BY <4>1
    <3> QED BY <1>2, <3>1, <3>2, <3>3
  <2>2. n \in {a \in Dom : n <= a} \cup {heap.current} BY <1>4, <1>6 DEF Ahead
  <2>3. \A a \in {x \in Dom : n <= x} : /\ NextObj(a) <= heap.current
                                        /\ NextObj(a) \in {x \in Dom : n <= x} \cup {heap.current}
    <3> TAKE a \in {x \in Dom : n <= x}
    <3>1. NextObj(a) <= heap.current /\ NextObj(a) \in Ahead \cup {heap.current}
      BY <1>1, <2>1 DEF Tiles
    <3>2. n <= NextObj(a) BY <1>4, <2>1
    <3> QED BY <3>1, <3>2 DEF Ahead
  <2>4. \A a, b \in {x \in Dom : n <= x} : a < b => NextObj(a) <= b
    BY <1>1, <2>1 DEF Tiles
  <2> QED BY <2>1, <2>2, <2>3, <2>4 DEF Tiles
<1> QED BY <1>3, <1>4, <1>6, <1>7, <1>8 DEF Ahead

\* An object without the mark bit is left where it is.
LEMMA RelocateSkips ==
  ASSUME Inv, Relocate, scan \notin marked, NEW f \in Nat, RelocatedTo(f)
  PROVE  RelocatedTo(f)' /\ UNCHANGED memory /\ Waiting' = Waiting
<1> USE DEF chunks, roots, memory
<1>1. /\ UNCHANGED <<memory, chunks, roots, free_ptr, pc>> /\ scan < heap.current
      /\ scan' = NextObj(scan) /\ TypeOK
  BY DEF Relocate, Inv
<1>2. PICK c, n : /\ c = scan /\ n = NextObj(scan)
                  /\ c \in Dom /\ n \in Nat /\ c < n
                  /\ n \in Dom \cup {heap.current}
                  /\ \A a \in Dom : n <= a <=> c <= a /\ a # c
                  /\ Tiles({a \in Dom : n <= a}, n, heap.current)
  BY <1>1, AheadFacts
<1>3. Dom \subseteq Nat /\ marked \subseteq Dom BY <1>1, TypeFacts
<1>4. Dom' = Dom /\ Before(f)' = Before(f) BY <1>1 DEF Dom, Before
<1>5. Ahead' = {a \in Dom : n <= a} BY <1>1, <1>2, <1>4 DEF Ahead
<1>6. Waiting' = Waiting
  <2>1. \A a \in marked : n <= a <=> c <= a BY <1>2, <1>3
  <2>2. Waiting' = {a \in marked : n <= a} BY <1>1, <1>2 DEF Waiting
  <2> QED BY <1>2, <2>1, <2>2 DEF Waiting
<1>7. \A a : NextObj(a)' = NextObj(a) /\ ObjSize(a)' = ObjSize(a) /\ Target(a)' = Target(a)
             /\ NewAddress(a)' = NewAddress(a) /\ FieldWords(a)' = FieldWords(a)
  BY <1>1 DEF NextObj, ObjSize, Target, NewAddress, FieldWords
<1>8. \A w : LeadsInPlace(w, f) => LeadsInPlace(w, f)'
  BY <1>1, <1>4, <1>6, <1>7 DEF LeadsInPlace, NewWord, Small
<1>9. f <= scan' BY <1>1, <1>2, <1>3 DEF RelocatedTo
<1>10. scan' \in Dom' \cup {heap'.current} BY <1>1, <1>2, <1>4
<1>11. Tiles(Before(f), heap.begin, f)' BY <1>1, <1>4, <1>7 DEF RelocatedTo, Tiles
<1>12. Tiles(Ahead, scan, heap.current)' BY <1>1, <1>2, <1>5, <1>7 DEF Tiles
<1>13. Slides(Waiting, f)' BY <1>1, <1>6, <1>7 DEF RelocatedTo, Slides
<1>14. (marked \cap Before(f))' = {} BY <1>1, <1>4 DEF RelocatedTo
<1>15. \A a \in (Before(f) \cup Waiting)' : \A w \in FieldWords(a)' : LeadsInPlace(w, f)'
  BY <1>4, <1>6, <1>7, <1>8 DEF RelocatedTo
<1>16. \A w \in (StackWords \cup {cells.arg, cells.content})' : LeadsInPlace(w, f)'
  BY <1>1, <1>8 DEF RelocatedTo, StackWords
<1> QED BY <1>1, <1>6, <1>9, <1>10, <1>11, <1>12, <1>13, <1>14, <1>15, <1>16 DEF RelocatedTo

\* The first waiting object moves to the end of what is in place.
LEMMA FirstWaiting ==
  ASSUME TypeOK, pc = "relocate", NEW f \in Nat, RelocatedTo(f), scan \in marked
  PROVE  /\ NewAddress(scan) = f /\ Target(scan) = f
         /\ f <= scan /\ f + ObjSize(scan) <= free_ptr
<1>1. scan \in Dom /\ scan \in Nat /\ Waiting \subseteq Dom /\ Dom \subseteq Nat
  BY TypeFacts DEF Waiting
<1>2. scan \in Waiting BY <1>1 DEF Waiting
<1>3. ObjSize(scan) \in Nat /\ ObjSize(scan) >= 4 BY <1>1, ObjSizeFacts
<1>4. /\ free_ptr = f \/ \E a \in Waiting : Target(a) = f
      /\ \A a \in Waiting : /\ Target(a) \in Nat
                            /\ f <= Target(a) /\ Target(a) <= a
                            /\ Target(a) + ObjSize(a) <= free_ptr
      /\ \A a, b \in Waiting : a < b => Target(a) + ObjSize(a) <= Target(b)
  BY DEF RelocatedTo, Slides
<1>5. free_ptr \in Nat BY DEF TypeOK
<1>6. PICK a \in Waiting : Target(a) = f BY <1>2, <1>3, <1>4, <1>5
<1>7. a = scan
  <2>1. SUFFICES ASSUME a # scan PROVE FALSE OBVIOUS
  <2>2. scan < a BY <1>1, <2>1 DEF Waiting
  <2>3. Target(scan) + ObjSize(scan) <= f BY <1>2, <1>4, <1>6, <2>2
  <2> QED BY <1>2, <1>3, <1>4, <2>3
<1>8. Target(scan) = f /\ f <= scan /\ f + ObjSize(scan) <= free_ptr BY <1>2, <1>4, <1>6, <1>7
<1> QED BY <1>8 DEF Target

\* What moving an object leaves of the memory: everything in place, the object
\* moved, and everything ahead.
LEMMA MovedObject ==
  ASSUME Inv, Relocate, scan \in marked, NEW f \in Nat, RelocatedTo(f)
  PROVE  \E g \in Nat :
         /\ g = f + ObjSize(scan)
         /\ f \in Dom' /\ objs'[f] = objs[scan] /\ fwd'[f] = fwd[scan] /\ f \notin marked'
         /\ Dom' \subseteq Dom \cup {f}
         /\ marked' \subseteq Dom' /\ marked' \subseteq marked /\ enqueued' = {}
         /\ \A a \in Dom' \ {f} : objs'[a] = objs[a] /\ fwd'[a] = fwd[a]
         /\ fwd' = [a \in Dom' |-> fwd'[a]]
         /\ Before(g)' = Before(f) \cup {f}
         /\ \A a \in Dom : NextObj(scan) <= a =>
              a \in Dom' /\ a # f /\ (a \in marked => a \in marked')
<1>1. /\ pc = "relocate" /\ scan < heap.current /\ TypeOK /\ BitsInv
  BY DEF Relocate, Inv
<1>2. PICK c : c = scan OBVIOUS
<1>3. NewAddress(c) = f /\ f <= c BY <1>1, <1>2, FirstWaiting
<1>4. c \in Dom /\ Dom \subseteq Nat /\ marked \subseteq Dom /\ enqueued = {}
      /\ fwd \in [Dom -> Nat]
  BY <1>1, <1>2, TypeFacts DEF BitsInv
<1>5. PICK s \in Nat : s = ObjSize(c) /\ s >= 4 BY <1>1, <1>4, ObjSizeFacts
<1>6. PICK g \in Nat : g = f + s BY <1>5
<1>7. PICK kept : kept = (Dom \ Overwritten(f, s)) \cup {f} OBVIOUS
<1>8. /\ objs' = [a \in kept |-> IF a = f THEN objs[c] ELSE objs[a]]
      /\ fwd' = [a \in kept |-> IF a = f THEN fwd[c] ELSE fwd[a]]
      /\ marked' = (marked \cap kept) \ {f}
      /\ enqueued' = (enqueued \cap kept) \ {f}
  BY <1>2, <1>3, <1>4, <1>5, <1>7 DEF Relocate, Dom
<1>9. Dom' = kept BY <1>8 DEF Dom
<1>10. \A a \in Dom : a \in kept <=> a = f \/ g <= a \/ NextObj(a) <= f
  <2> TAKE a \in Dom
  <2>1. NextObj(a) \in Nat /\ a \in Nat BY <1>1, ObjSizeFacts
  <2>2. a \in Overwritten(f, s) <=> a < g /\ f < NextObj(a) BY <1>6 DEF Overwritten, Dom
  <2> QED BY <1>6, <1>7, <2>1, <2>2
<1>11. Before(g)' = Before(f) \cup {f}
  <2>1. Before(g)' = {a \in kept : a < g} BY <1>9 DEF Before
  <2>2. \A a \in Before(f) : a \in kept /\ a < g
    <3> TAKE a \in Before(f)
    <3>1. a \in Dom /\ a < f BY DEF Before
    <3>2. NextObj(a) <= f BY DEF RelocatedTo, Tiles
    <3> QED BY <1>4, <1>6, <1>10, <3>1, <3>2
  <2>3. f \in kept /\ f < g BY <1>5, <1>6, <1>7
  <2>4. ASSUME NEW a \in kept, a < g, a # f PROVE a \in Before(f)
    <3>1. a \in Dom BY <1>7, <2>4
    <3>2. NextObj(a) <= f
      <4>1. ~ g <= a BY <1>4, <2>4, <3>1
      <4> QED BY <1>10, <2>4, <3>1, <4>1
    <3>3. NextObj(a) \in Nat /\ a < NextObj(a) /\ a \in Nat
      <4>1. /\ NextObj(a) = a + ObjSize(a) /\ ObjSize(a) \in Nat /\ ObjSize(a) >= 4 /\ a \in Nat
        BY <1>1, <3>1, ObjSizeFacts
      <4> QED BY <4>1
    <3> QED BY <3>1, <3>2, <3>3 DEF Before
  <2>5. \A a : a \in Before(g)' <=> a \in Before(f) \/ a = f BY <2>1, <2>2, <2>3, <2>4
  <2> QED BY <2>5
<1>12. \A a \in Dom : NextObj(scan) <= a =>
         a \in Dom' /\ a # f /\ (a \in marked => a \in marked')
  <2> SUFFICES ASSUME NEW a \in Dom, NextObj(scan) <= a
               PROVE  a \in Dom' /\ a # f /\ (a \in marked => a \in marked')
    OBVIOUS
  <2>1. NextObj(scan) = c + s /\ c \in Nat /\ a \in Nat BY <1>1, <1>2, <1>4, <1>5, ObjSizeFacts
  <2>2. g <= a /\ a # f BY <1>3, <1>5, <1>6, <2>1
  <2> QED BY <1>8, <1>9, <1>10, <2>2
<1>13. /\ f \in Dom' /\ objs'[f] = objs[c] /\ fwd'[f] = fwd[c] /\ f \notin marked'
       /\ Dom' \subseteq Dom \cup {f}
       /\ marked' \subseteq Dom' /\ marked' \subseteq marked /\ enqueued' = {}
       /\ \A a \in Dom' \ {f} : objs'[a] = objs[a] /\ fwd'[a] = fwd[a]
       /\ fwd' = [a \in Dom' |-> fwd'[a]]
  BY <1>4, <1>7, <1>8, <1>9
<1> QED BY <1>2, <1>5, <1>6, <1>11, <1>12, <1>13

\* A marked object slides to the end of what is in place, and is in place then.
LEMMA RelocateMoves ==
  ASSUME Inv, Relocate, scan \in marked, NEW f \in Nat, RelocatedTo(f)
  PROVE  /\ \E g \in Nat : /\ g = f + ObjSize(scan)
                          /\ f <= g /\ g <= free_ptr /\ RelocatedTo(g)'
         /\ scan \in Waiting /\ Waiting' = Waiting \ {scan}
<1> USE DEF chunks, roots
<1>1. /\ pc = "relocate" /\ pc' = "relocate" /\ scan < heap.current /\ scan' = NextObj(scan)
      /\ UNCHANGED <<chunks, roots, free_ptr>> /\ TypeOK
  BY DEF Relocate, Inv
<1>2. PICK c, n : /\ c = scan /\ n = NextObj(scan)
                  /\ c \in Dom /\ n \in Nat /\ c < n
                  /\ n \in Dom \cup {heap.current}
                  /\ \A a \in Dom : n <= a <=> c <= a /\ a # c
                  /\ Tiles({a \in Dom : n <= a}, n, heap.current)
  BY <1>1, AheadFacts
<1>3. /\ Dom \subseteq Nat /\ marked \subseteq Dom /\ c \in marked
      /\ heap.begin \in Nat /\ heap.current \in Nat /\ free_ptr \in Nat
  BY <1>1, <1>2, TypeFacts DEF TypeOK
<1>4. PICK s \in Nat : s = ObjSize(c) /\ s >= 4 /\ n = c + s BY <1>1, <1>2, ObjSizeFacts
<1>5. NewAddress(c) = f /\ Target(c) = f /\ f <= c /\ f + s <= free_ptr
  BY <1>1, <1>2, <1>4, FirstWaiting
<1>6. PICK g \in Nat :
         /\ g = f + s
         /\ f \in Dom' /\ objs'[f] = objs[c] /\ fwd'[f] = fwd[c] /\ f \notin marked'
         /\ Dom' \subseteq Dom \cup {f}
         /\ marked' \subseteq Dom' /\ marked' \subseteq marked
         /\ \A a \in Dom' \ {f} : objs'[a] = objs[a] /\ fwd'[a] = fwd[a]
         /\ Before(g)' = Before(f) \cup {f}
         /\ \A a \in Dom : n <= a => a \in Dom' /\ a # f /\ (a \in marked => a \in marked')
  BY <1>2, <1>4, MovedObject
<1>7. f <= g /\ g <= free_ptr /\ g <= n /\ f < n BY <1>2, <1>3, <1>4, <1>5, <1>6
<1>8. c \in Waiting /\ Waiting \subseteq Dom
  <2>1. scan <= scan BY <1>2, <1>3
  <2>2. scan \in Waiting BY <1>2, <1>3, <2>1 DEF Waiting
  <2> QED BY <1>2, <1>3, <2>2 DEF Waiting
<1>9. Ahead' = {a \in Dom : n <= a}
  <2>1. Ahead' = {a \in Dom' : n <= a} BY <1>1, <1>2 DEF Ahead
  <2>2. ~ n <= f BY <1>2, <1>7
  <2>3. \A a : a \in Dom' /\ n <= a <=> a \in Dom /\ n <= a BY <1>6, <2>2
  <2> QED BY <2>1, <2>3
<1>10. Waiting' = Waiting \ {c}
  <2>1. Waiting' = {a \in marked' : n <= a} BY <1>1, <1>2 DEF Waiting
  <2>2. \A a : a \in marked' /\ n <= a <=> a \in marked /\ n <= a BY <1>3, <1>6
  <2>3. \A a \in marked : n <= a <=> c <= a /\ a # c BY <1>2, <1>3
  <2>4. \A a : a \in Waiting' <=> a \in Waiting /\ a # c BY <1>2, <2>1, <2>2, <2>3 DEF Waiting
  <2> QED BY <2>4
<1>11. \A a \in Before(f) : a < f /\ a \in Dom /\ a \in Dom' /\ objs'[a] = objs[a]
  <2>1. \A a \in Before(f) : a \in Before(g)' /\ a < f /\ a \in Dom BY <1>6 DEF Before
  <2>2. \A a \in Before(f) : a \in Dom' /\ a # f
    <3>1. ~ f < f OBVIOUS
    <3> QED BY <2>1, <3>1 DEF Before
  <2> QED BY <1>6, <2>1, <2>2
<1>12. \A a \in Dom : n <= a => a # f /\ objs'[a] = objs[a] /\ fwd'[a] = fwd[a] BY <1>6
<1>13. /\ \A a \in Before(f) : ObjSize(a)' = ObjSize(a) /\ NextObj(a)' = NextObj(a)
       /\ \A a \in Ahead' : ObjSize(a)' = ObjSize(a) /\ NextObj(a)' = NextObj(a)
       /\ ObjSize(f)' = s /\ NextObj(f)' = g
  <2>1. ObjSize(f)' = s BY <1>4, <1>6 DEF ObjSize
  <2>2. NextObj(f)' = g BY <1>6, <2>1 DEF NextObj
  <2>3. \A a \in Ahead' : ObjSize(a)' = ObjSize(a) /\ NextObj(a)' = NextObj(a)
    BY <1>9, <1>12 DEF ObjSize, NextObj
  <2> QED BY <1>11, <2>1, <2>2, <2>3 DEF ObjSize, NextObj
<1>14. \A a \in Waiting' : /\ a \in Waiting /\ c < a /\ a \in Ahead' /\ a \in Nat
                           /\ Target(a)' = Target(a) /\ NewAddress(a)' = NewAddress(a)
                           /\ ObjSize(a)' = ObjSize(a) /\ FieldWords(a)' = FieldWords(a)
  <2> TAKE a \in Waiting'
  <2>1. a \in Waiting /\ a # c /\ a \in Dom /\ a \in Nat /\ c <= a
    BY <1>2, <1>3, <1>8, <1>10 DEF Waiting
  <2>2. n <= a /\ c < a BY <1>2, <1>3, <2>1
  <2>3. objs'[a] = objs[a] /\ fwd'[a] = fwd[a] BY <1>12, <2>1, <2>2
  <2>4. Target(a)' = Target(a) /\ NewAddress(a)' = NewAddress(a)
    BY <1>1, <2>3 DEF Target, NewAddress
  <2> QED BY <1>9, <2>1, <2>2, <2>3, <2>4 DEF ObjSize, FieldWords
<1>15. Tiles(Before(g), heap.begin, g)'
  <2>1. Tiles(Before(f), heap.begin, f) BY DEF RelocatedTo
  <2>2. heap.begin \in Before(f) \cup {f} BY <2>1 DEF Tiles
  <2>3. heap.begin <= f
    <3>1. \A a \in Before(f) : a < f BY <1>11
    <3> QED BY <1>3, <2>2, <3>1
  <2>4. \A a \in Before(f) : /\ heap.begin <= a /\ NextObj(a) <= f
                             /\ NextObj(a) \in Before(f) \cup {f}
                             /\ NextObj(a) \in Nat
    BY <1>1, <1>11, <2>1, ObjSizeFacts DEF Tiles
  <2>5. \A a \in Before(g)' : /\ heap.begin <= a /\ NextObj(a)' <= g
                              /\ NextObj(a)' \in Before(g)' \cup {g}
    <3> SUFFICES ASSUME NEW a \in Before(f) \cup {f}
                 PROVE  /\ heap.begin <= a /\ NextObj(a)' <= g
                        /\ NextObj(a)' \in Before(f) \cup {f, g}
      BY <1>6
    <3>1. CASE a = f BY <3>1, <1>13, <2>3
    <3>2. CASE a \in Before(f)
      <4>1. NextObj(a)' = NextObj(a) BY <1>13, <3>2
      <4> QED BY <1>7, <2>4, <3>2, <4>1
    <3> QED BY <3>1, <3>2
  <2>6. \A a, b \in Before(g)' : a < b => NextObj(a)' <= b
    <3> SUFFICES ASSUME NEW a \in Before(f) \cup {f}, NEW b \in Before(f) \cup {f}, a < b
                 PROVE  NextObj(a)' <= b
      BY <1>6
    <3>1. a # f
      <4>1. b = f \/ b < f BY <1>11
      <4>2. b \in Nat BY <1>3, <1>11
      <4> QED BY <4>1, <4>2
    <3>2. NextObj(a)' = NextObj(a) /\ NextObj(a) <= f BY <1>13, <2>4, <3>1
    <3>3. b \in Before(f) => NextObj(a) <= b BY <2>1, <3>1 DEF Tiles
    <3> QED BY <3>2, <3>3
  <2> QED BY <1>1, <1>6, <2>2, <2>5, <2>6 DEF Tiles
<1>16. Tiles(Ahead, scan, heap.current)'
  <2>1. Tiles(Ahead', n, heap.current) BY <1>2, <1>9
  <2> QED BY <1>1, <1>2, <1>13, <2>1 DEF Tiles
<1>17. Slides(Waiting, g)'
  <2>1. /\ \A a \in Waiting : /\ Target(a) \in Nat
                              /\ f <= Target(a) /\ Target(a) <= a
                              /\ Target(a) + ObjSize(a) <= free_ptr
                              /\ \/ Target(a) + ObjSize(a) = free_ptr
                                 \/ \E b \in Waiting : Target(b) = Target(a) + ObjSize(a)
        /\ \A a, b \in Waiting : a < b => Target(a) + ObjSize(a) <= Target(b)
    BY DEF RelocatedTo, Slides
  <2>2. free_ptr = g \/ \E a \in Waiting' : Target(a)' = g
    <3>1. free_ptr = g \/ \E b \in Waiting : Target(b) = g BY <1>4, <1>5, <1>6, <1>8, <2>1
    <3>2. ASSUME NEW b \in Waiting, Target(b) = g PROVE \E a \in Waiting' : Target(a)' = g
      <4>1. b # c BY <1>4, <1>5, <1>6, <3>2
      <4>2. b \in Waiting' BY <1>10, <4>1
      <4> QED BY <1>14, <3>2, <4>2
    <3> QED BY <3>1, <3>2
  <2>3. \A a \in Waiting' : /\ Target(a) \in Nat
                            /\ g <= Target(a) /\ Target(a) <= a
                            /\ Target(a) + ObjSize(a) <= free_ptr
                            /\ \/ Target(a) + ObjSize(a) = free_ptr
                               \/ \E b \in Waiting' : Target(b) = Target(a) + ObjSize(a)
    <3> TAKE a \in Waiting'
    <3>1. a \in Waiting /\ c < a /\ ObjSize(a) \in Nat BY <1>1, <1>8, <1>14, ObjSizeFacts
    <3>2. Target(c) + ObjSize(c) <= Target(a) BY <1>8, <2>1, <3>1
    <3>3. g <= Target(a) BY <1>4, <1>5, <1>6, <3>2
    <3>4. ASSUME NEW b \in Waiting, Target(b) = Target(a) + ObjSize(a)
          PROVE  b \in Waiting'
      <4>1. b # c BY <1>4, <1>5, <1>6, <2>1, <3>1, <3>3, <3>4
      <4> QED BY <1>10, <4>1
    <3> QED BY <2>1, <3>1, <3>3, <3>4
  <2>4. free_ptr' = g \/ \E a \in Waiting' : Target(a)' = g BY <1>1, <2>2
  <2>5. \A a \in Waiting' : /\ Target(a)' \in Nat
                            /\ g <= Target(a)' /\ Target(a)' <= a
                            /\ Target(a)' + ObjSize(a)' <= free_ptr'
                            /\ \/ Target(a)' + ObjSize(a)' = free_ptr'
                               \/ \E b \in Waiting' : Target(b)' = Target(a)' + ObjSize(a)'
    BY <1>1, <1>14, <2>3
  <2>6. \A a, b \in Waiting' : a < b => Target(a)' + ObjSize(a)' <= Target(b)'
    BY <1>14, <2>1
  <2> QED BY <2>4, <2>5, <2>6 DEF Slides
<1>18. (marked \cap Before(g))' = {}
  <2>1. marked \cap Before(f) = {} BY DEF RelocatedTo
  <2> QED BY <1>6, <2>1
<1>19. ASSUME NEW w, LeadsInPlace(w, f) PROVE LeadsInPlace(w, g)'
  <2>1. CASE UNBOXED(w) \/ Small(w)
    <3>1. NewWord(w, Waiting)' BY <2>1 DEF NewWord, Small
    <3> QED BY <3>1 DEF LeadsInPlace
  <2>2. CASE Header(w) \in Before(f)
    <3>1. Header(w) \in Before(g)' BY <1>6, <2>2
    <3> QED BY <3>1 DEF LeadsInPlace
  <2>3. CASE \E a \in Waiting : w = Content(NewAddress(a))
    <3>1. PICK a \in Waiting : w = Content(NewAddress(a)) BY <2>3
    <3>2. CASE a = c
      <4>1. Header(w) = f
        <5>1. w = Content(f) BY <1>5, <3>1, <3>2
        <5> QED BY <5>1 DEF Content, Header, DATA_HEADER_SZ, WORD
      <4>2. Header(w) \in Before(g)' BY <1>6, <4>1
      <4> QED BY <4>2 DEF LeadsInPlace
    <3>3. CASE a # c
      <4>1. a \in Waiting' BY <1>10, <3>3
      <4>2. NewAddress(a)' = NewAddress(a) BY <1>14, <4>1
      <4>3. w = Content(NewAddress(a)') BY <3>1, <4>2
      <4>4. NewWord(w, Waiting)' BY <4>1, <4>3 DEF NewWord, Content
      <4> QED BY <4>4 DEF LeadsInPlace
    <3> QED BY <3>2, <3>3
  <2> QED BY <1>19, <2>1, <2>2, <2>3 DEF LeadsInPlace, NewWord
<1>20. \A a \in (Before(g) \cup Waiting)' : \A w \in FieldWords(a)' : LeadsInPlace(w, g)'
  <2>1. \A a \in Before(f) \cup Waiting : \A w \in FieldWords(a) : LeadsInPlace(w, f)
    BY DEF RelocatedTo
  <2>2. FieldWords(f)' = FieldWords(c) BY <1>6 DEF FieldWords
  <2>3. \A a \in Before(f) : FieldWords(a)' = FieldWords(a) BY <1>11 DEF FieldWords
  <2>4. \A a \in Waiting' : FieldWords(a)' = FieldWords(a) /\ a \in Waiting BY <1>14
  <2> QED BY <1>6, <1>8, <1>19, <2>1, <2>2, <2>3, <2>4
<1>21. \A w \in (StackWords \cup {cells.arg, cells.content})' : LeadsInPlace(w, g)'
  <2>1. (StackWords \cup {cells.arg, cells.content})' = StackWords \cup {cells.arg, cells.content}
    BY <1>1 DEF StackWords
  <2> QED BY <1>19, <2>1 DEF RelocatedTo
<1>22. scan' \in Dom' \cup {heap'.current}
  <2>1. n \in Dom => n \in Dom' BY <1>2, <1>6
  <2> QED BY <1>1, <1>2, <2>1
<1>23. RelocatedTo(g)'
  <2>1. g <= scan' BY <1>1, <1>2, <1>7
  <2> QED BY <1>15, <1>16, <1>17, <1>18, <1>20, <1>21, <1>22, <2>1 DEF RelocatedTo
<1> QED BY <1>2, <1>4, <1>6, <1>7, <1>8, <1>10, <1>23

\* physically_relocate, one object of the heap.
LEMMA RelocateStep == ASSUME Inv, Relocate PROVE Inv'
<1> USE DEF chunks, roots, call, queue
<1>1. /\ pc = "relocate" /\ pc' = "relocate" /\ scan < heap.current /\ scan' = NextObj(scan)
      /\ UNCHANGED <<chunks, roots, call, root, queue, free_ptr>>
  BY DEF Relocate
<1>2. TypeOK /\ ChunkInv /\ CallInv /\ BitsInv /\ NewChunkInv /\ RelocateInv BY DEF Inv
<1>3. PICK f \in heap.begin..free_ptr : RelocatedTo(f) BY <1>1, <1>2 DEF RelocateInv
<1>4. /\ heap.begin \in Nat /\ free_ptr \in Nat /\ heap.begin \in Bases
      /\ IsFiniteSet(Dom) /\ Dom \subseteq Nat /\ fwd \in [Dom -> Nat]
      /\ \A a \in Dom : objs[a] \in HeapObject
      /\ marked \subseteq Dom /\ enqueued \subseteq Dom
  BY <1>1, <1>2, TypeFacts DEF TypeOK, NewChunkInv
<1>5. f \in Nat /\ heap.begin <= f /\ f <= free_ptr BY <1>3, <1>4
<1>6. scan \in Dom /\ NextObj(scan) \in Nat BY <1>1, <1>2, <1>3, AheadFacts
<1>7. /\ IsFiniteSet(Dom') /\ Dom' \subseteq Nat /\ fwd' \in [Dom' -> Nat]
      /\ \A a \in Dom' : objs'[a] \in HeapObject
      /\ marked' \subseteq Dom' /\ enqueued' = {}
      /\ \E g \in heap.begin..free_ptr : RelocatedTo(g)'
  <2>1. CASE scan \notin marked
    <3>1. RelocatedTo(f)' /\ UNCHANGED memory BY <1>3, <1>5, <2>1, RelocateSkips
    <3>2. UNCHANGED <<objs, fwd, marked, enqueued>> BY <3>1 DEF memory
    <3>3. enqueued = {} BY <1>1, <1>2 DEF BitsInv
    <3> QED BY <1>3, <1>4, <3>1, <3>2, <3>3 DEF Dom
  <2>2. CASE scan \in marked
    <3>1. PICK g \in Nat : f <= g /\ g <= free_ptr /\ RelocatedTo(g)'
      BY <1>3, <1>5, <2>2, RelocateMoves
    <3>2. /\ f \in Dom' /\ objs'[f] = objs[scan] /\ fwd'[f] = fwd[scan]
          /\ Dom' \subseteq Dom \cup {f}
          /\ marked' \subseteq Dom' /\ enqueued' = {}
          /\ \A a \in Dom' \ {f} : objs'[a] = objs[a] /\ fwd'[a] = fwd[a]
          /\ fwd' = [a \in Dom' |-> fwd'[a]]
      BY <1>3, <1>5, <2>2, MovedObject
    <3>3. IsFiniteSet(Dom')
      <4>1. IsFiniteSet(Dom \cup {f}) BY <1>4, FS_AddElement
      <4> QED BY <3>2, <4>1, FS_Subset
    <3>4. \A a \in Dom' : objs'[a] \in HeapObject /\ fwd'[a] \in Nat BY <1>4, <1>6, <3>2
    <3>5. fwd' \in [Dom' -> Nat] BY <3>2, <3>4
    <3>6. g \in heap.begin..free_ptr BY <1>4, <1>5, <3>1
    <3> QED BY <1>4, <1>5, <3>1, <3>2, <3>3, <3>4, <3>5, <3>6
  <2> QED BY <2>1, <2>2
<1>8. TypeOK'
  <2>1. UNCHANGED <<heap, old_heap, cur_id, stack, cells, extra_roots, req, res, root, pc,
                    q_head_iter, q_tail_iter, cur_obj, field, free_ptr>>
    BY <1>1
  <2>2. scan' \in Nat BY <1>1, <1>6
  <2> QED BY <1>2, <1>7, <2>1, <2>2 DEF TypeOK, Dom
<1>9. ChunkInv'
  <2>1. heap # NoChunk
    <3>1. heap.begin > 0 BY <1>4, BaseFacts
    <3> QED BY <3>1 DEF NoChunk
  <2> QED BY <1>1, <1>2, <2>1 DEF ChunkInv
<1>10. CallInv' BY <1>1, <1>2 DEF CallInv, Collecting, Small
<1>11. BitsInv' BY <1>1, <1>2, <1>7 DEF BitsInv
<1>12. NewChunkInv' BY <1>1, <1>2 DEF NewChunkInv, Room, ReqSize, ReqLen
<1>13. RelocateInv' BY <1>1, <1>7 DEF RelocateInv
<1>14. /\ SettledInv' /\ QueueInv' /\ MarkInv' /\ ComputeInv' /\ UpdateInv' /\ pc' # "retry"
  BY <1>1 DEF SettledInv, Settled, QueueInv, MarkInv, ComputeInv, UpdateInv
<1> QED BY <1>8, <1>9, <1>10, <1>11, <1>12, <1>13, <1>14 DEF Inv

\* The heap ends where the last live object does.
LEMMA CompactPhaseDoneStep == ASSUME Inv, CompactPhaseDone PROVE Inv'
<1> USE DEF roots, call, queue
<1>1. /\ pc = "relocate" /\ pc' = "retry" /\ scan >= heap.current
      /\ heap' = [heap EXCEPT !.current = free_ptr]
      /\ objs' = [a \in {x \in Dom : x < free_ptr} |-> objs[a]]
      /\ fwd' = [a \in {x \in Dom : x < free_ptr} |-> fwd[a]]
      /\ marked' = marked \cap {x \in Dom : x < free_ptr}
      /\ enqueued' = enqueued \cap {x \in Dom : x < free_ptr}
      /\ old_heap' = NoChunk /\ scan' = 0 /\ free_ptr' = 0
      /\ UNCHANGED <<roots, call, root, queue>>
  BY DEF CompactPhaseDone, Dom
<1>2. TypeOK /\ ChunkInv /\ CallInv /\ BitsInv /\ NewChunkInv /\ RelocateInv BY DEF Inv
<1>3. /\ heap \in Chunk /\ heap.begin \in Nat /\ heap.end \in Nat
      /\ heap.current \in Nat /\ heap.size \in Nat
      /\ free_ptr \in Nat /\ scan \in Nat /\ heap.begin \in Bases
      /\ IsFiniteSet(Dom) /\ Dom \subseteq Nat /\ fwd \in [Dom -> Nat]
      /\ \A a \in Dom : objs[a] \in HeapObject
      /\ marked \subseteq Dom /\ enqueued = {}
  BY <1>1, <1>2, TypeFacts DEF TypeOK, NewChunkInv, BitsInv
<1>4. PICK f \in heap.begin..free_ptr : RelocatedTo(f) BY <1>1, <1>2 DEF RelocateInv
<1>5. f \in Nat /\ heap.begin <= f BY <1>3, <1>4
<1>6. scan = heap.current /\ Waiting = {}
  <2>1. Tiles(Ahead, scan, heap.current) /\ scan \in Dom \cup {heap.current}
    BY <1>4 DEF RelocatedTo
  <2>2. \A a \in Ahead : NextObj(a) <= heap.current /\ a < NextObj(a) /\ NextObj(a) \in Nat /\ scan <= a
    <3> TAKE a \in Ahead
    <3>1. a \in Dom /\ scan <= a BY DEF Ahead
    <3>2. NextObj(a) = a + ObjSize(a) /\ ObjSize(a) \in Nat /\ ObjSize(a) >= 4 /\ a \in Nat
      BY <1>2, <3>1, ObjSizeFacts
    <3> QED BY <2>1, <3>1, <3>2 DEF Tiles
  <2>3. Ahead = {}
    <3> SUFFICES ASSUME NEW a \in Ahead PROVE FALSE OBVIOUS
    <3>1. a \in Nat BY <1>3 DEF Ahead
    <3> QED BY <1>1, <1>3, <2>2, <3>1
  <2>4. Waiting = {} BY <1>3, <2>3 DEF Ahead, Waiting
  <2>5. scan \in Ahead \/ scan = heap.current
    <3>1. scan <= scan BY <1>3
    <3> QED BY <2>1, <3>1 DEF Ahead
  <2> QED BY <2>3, <2>4, <2>5
<1>7. free_ptr = f BY <1>4, <1>6 DEF RelocatedTo, Slides
<1>8. Dom' = Before(f) /\ Before(f) \subseteq Dom BY <1>1, <1>7 DEF Dom, Before
<1>9. \A a \in Dom' : objs'[a] = objs[a] /\ fwd'[a] = fwd[a] /\ a \in Dom BY <1>1, <1>7, <1>8 DEF Before
<1>10. /\ heap'.begin = heap.begin /\ heap'.end = heap.end /\ heap'.size = heap.size
       /\ heap'.current = f /\ heap' \in Chunk
  BY <1>1, <1>3, <1>5, <1>7 DEF Chunk
<1>11. marked' = {} /\ enqueued' = {}
  <2>1. marked \cap Before(f) = {} BY <1>4 DEF RelocatedTo
  <2> QED BY <1>1, <1>3, <1>7, <2>1 DEF Before
<1>12. TypeOK'
  <2>1. UNCHANGED <<cur_id, stack, cells, extra_roots, req, res, root,
                    q_head_iter, q_tail_iter, cur_obj, field>>
    BY <1>1
  <2>2. old_heap' \in Chunk BY <1>1 DEF Chunk, NoChunk
  <2>3. IsFiniteSet(Dom') /\ Dom' \subseteq Nat BY <1>3, <1>8, FS_Subset
  <2>4. fwd' \in [Dom' -> Nat]
    <3>1. fwd' = [a \in Dom' |-> fwd[a]] BY <1>1, <1>7, <1>8 DEF Before
    <3> QED BY <1>3, <1>8, <3>1
  <2>5. \A a \in Dom' : objs'[a] \in HeapObject BY <1>3, <1>9
  <2> QED BY <1>1, <1>2, <1>10, <1>11, <2>1, <2>2, <2>3, <2>4, <2>5 DEF TypeOK, Dom
<1>13. heap' # NoChunk
  <2>1. heap.begin > 0 BY <1>3, BaseFacts
  <2> QED BY <1>10, <2>1 DEF NoChunk
<1>14. Room BY <1>1, <1>2 DEF NewChunkInv
<1>15. ReqSize \in Nat /\ ReqSize' = ReqSize BY <1>1, <1>2, ReqSizeFacts DEF ReqSize, ReqLen
<1>16. ChunkInv'
  <2>1. heap.end = heap.begin + WORD * heap.size BY <1>2 DEF ChunkInv
  <2>2. f <= heap.end BY <1>3, <1>5, <1>7, <1>14, <1>15 DEF Room, WORD
  <2>3. heap'.size # 0
    <3>1. ReqSize >= 2 BY <1>2, ReqSizeFacts
    <3> QED BY <1>3, <1>5, <1>7, <1>10, <1>14, <1>15, <2>1, <3>1 DEF Room, WORD
  <2> QED BY <1>3, <1>5, <1>10, <1>13, <2>1, <2>2, <2>3 DEF ChunkInv
<1>17. Fits' BY <1>7, <1>10, <1>14, <1>15 DEF Fits, Room, WORD
<1>18. \A w : LeadsInPlace(w, f) => Leads(w, Dom)'
  <2> TAKE w
  <2>1. ASSUME LeadsInPlace(w, f) PROVE UNBOXED(w) \/ Small(w) \/ Header(w) \in Before(f)
    BY <1>6, <2>1 DEF LeadsInPlace, NewWord
  <2>2. UNBOXED(w) \/ Small(w) \/ Header(w) \in Before(f) => Leads(w, Dom)'
    BY <1>8 DEF Leads, Small
  <2> QED BY <2>1, <2>2
<1>19. SettledInv'
  <2>1. Tiles(Before(f), heap.begin, f) BY <1>4 DEF RelocatedTo
  <2>2. \A a \in Dom' : NextObj(a)' = NextObj(a) /\ FieldWords(a)' = FieldWords(a)
    BY <1>9 DEF NextObj, ObjSize, FieldWords
  <2>3. Tiles(Dom, heap.begin, heap.current)' BY <1>8, <1>10, <2>1, <2>2 DEF Tiles
  <2>4. \A a \in Dom' : \A w \in FieldWords(a)' : Leads(w, Dom)'
    BY <1>4, <1>8, <1>18, <2>2 DEF RelocatedTo
  <2>5. \A w \in (StackWords \cup {cells.arg, cells.content})' : RootWord(w, Dom)'
    <3>1. \A w \in StackWords \cup {cells.arg, cells.content} : Leads(w, Dom)'
      BY <1>4, <1>18 DEF RelocatedTo
    <3>2. (StackWords \cup {cells.arg, cells.content})' = StackWords \cup {cells.arg, cells.content}
      BY <1>1 DEF StackWords
    <3> QED BY <1>13, <3>1, <3>2 DEF RootWord
  <2> QED BY <2>3, <2>4, <2>5 DEF SettledInv
<1>20. CallInv' BY <1>1, <1>2 DEF CallInv, Collecting, Small
<1>21. BitsInv' BY <1>1, <1>2, <1>11 DEF BitsInv
<1>22. /\ QueueInv' /\ MarkInv' /\ ComputeInv' /\ UpdateInv' /\ NewChunkInv' /\ RelocateInv'
  BY <1>1 DEF QueueInv, MarkInv, ComputeInv, UpdateInv, NewChunkInv, RelocateInv
<1> QED BY <1>12, <1>16, <1>17, <1>19, <1>20, <1>21, <1>22 DEF Inv

-----------------------------------------------------------------------------
(* The invariant, and the properties of GC that follow from it. *)

\* A step that changes nothing, and the process that has exited.
LEMMA StutterStep == ASSUME Inv, UNCHANGED vars PROVE Inv'
<1> USE DEF vars, memory, chunks, roots, call, queue, slide
<1>1. TypeOK /\ TypeOK' BY DEF Inv, TypeOK
<1>2. ChunkInv' /\ SettledInv' BY SameHeap DEF Inv, Settled, SettledInv
<1>3. CallInv'
  <2>1. CallInv BY DEF Inv
  <2> QED BY <2>1 DEF CallInv, Collecting, Small, Dom, ReqLen
<1>4. BitsInv' BY DEF Inv, BitsInv
<1>5. \A a : NextObj(a)' = NextObj(a) /\ ObjSize(a)' = ObjSize(a) /\ Target(a)' = Target(a)
             /\ NewAddress(a)' = NewAddress(a) /\ FieldWords(a)' = FieldWords(a)
  BY DEF NextObj, ObjSize, Target, NewAddress, FieldWords
<1>6. /\ Dom' = Dom /\ InQueue' = InQueue /\ Placed' = Placed /\ Waiting' = Waiting
      /\ Ahead' = Ahead /\ StackWords' = StackWords /\ RootWords' = RootWords
      /\ \A x : Before(x)' = Before(x)
  BY DEF Dom, InQueue, Placed, Waiting, Ahead, StackWords, RootWords, Deref, Before
<1>7. QueueInv'
  <2>1. QueueInv BY DEF Inv
  <2> QED BY <2>1, <1>6 DEF QueueInv
<1>8. MarkInv'
  <2>1. MarkInv BY DEF Inv
  <2>2. \A w : Met(w)' <=> Met(w) BY DEF Met, IsValidHeapPointer
  <2>3. FieldsMet => FieldsMet' BY <2>2 DEF FieldsMet
  <2>4. RootsMet => RootsMet' BY <2>2, <1>6 DEF RootsMet
  <2>5. OnlyReachable => OnlyReachable'
    <3>1. \A S : Targets(S)' = Targets(S) BY DEF Targets, IsValidHeapPointer
    <3>2. RootSet' = RootSet BY <1>6 DEF RootSet
    <3>3. Targets(RootSet)' = Targets(RootSet) BY <3>2 DEF Targets, IsValidHeapPointer
    <3>4. \A S : ClosedUnderFields(S)' <=> ClosedUnderFields(S)
      BY <1>5 DEF ClosedUnderFields, Targets, IsValidHeapPointer
    <3> QED BY <3>3, <3>4, <1>6 DEF OnlyReachable
  <2> QED BY <2>1, <2>3, <2>4, <2>5, <1>6 DEF MarkInv
<1>9. ComputeInv'
  <2>1. ComputeInv BY DEF Inv
  <2> QED BY <2>1, <1>5, <1>6 DEF ComputeInv, Slides
<1>10. NewChunkInv'
  <2>1. NewChunkInv BY DEF Inv
  <2> QED BY <2>1 DEF NewChunkInv, Room, ReqSize, ReqLen
<1>11. UpdateInv'
  <2>1. UpdateInv BY DEF Inv
  <2>2. \A w : OldWord(w)' <=> OldWord(w) BY DEF OldWord, Small
  <2>3. \A w : NewWord(w, marked)' <=> NewWord(w, marked)
    BY <1>5 DEF NewWord, Small
  <2>4. Tiles(Dom, heap.begin, heap.current)' <=> Tiles(Dom, heap.begin, heap.current)
    BY <1>5, <1>6 DEF Tiles
  <2>5. Slides(marked, heap.begin)' <=> Slides(marked, heap.begin)
    BY <1>5 DEF Slides
  <2> QED BY <2>1, <2>2, <2>3, <2>4, <2>5, <1>5, <1>6 DEF UpdateInv
<1>12. RelocateInv'
  <2>1. ASSUME NEW f, RelocatedTo(f) PROVE RelocatedTo(f)'
    <3>1. \A w : LeadsInPlace(w, f)' <=> LeadsInPlace(w, f)
      BY <1>5, <1>6 DEF LeadsInPlace, NewWord, Small
    <3>2. Tiles(Before(f), heap.begin, f)' <=> Tiles(Before(f), heap.begin, f)
      BY <1>5, <1>6 DEF Tiles
    <3>3. Tiles(Ahead, scan, heap.current)' <=> Tiles(Ahead, scan, heap.current)
      BY <1>5, <1>6 DEF Tiles
    <3>4. Slides(Waiting, f)' <=> Slides(Waiting, f)
      BY <1>5, <1>6 DEF Slides
    <3> QED BY <2>1, <3>1, <3>2, <3>3, <3>4, <1>5, <1>6 DEF RelocatedTo
  <2>2. RelocateInv BY DEF Inv
  <2> QED BY <2>1, <2>2 DEF RelocateInv
<1>13. (pc = "retry" => Fits)' BY DEF Inv, Fits, ReqSize, ReqLen
<1> QED BY <1>1, <1>2, <1>3, <1>4, <1>7, <1>8, <1>9, <1>10, <1>11, <1>12, <1>13 DEF Inv

\* Every step, of the client and of the runtime, preserves the invariant.
LEMMA NextInv == ASSUME Inv, [Next]_vars PROVE Inv'
<1>1. CASE Client
  BY <1>1, PushStep, DupStep, BelemStep, PopStep, BstaStep, BstaStringStep,
     BarrayStep, BsexpOrBclosureStep, BstringStep, LstringStep DEF Client
<1>2. CASE Mark
  BY <1>2, MarkRootStep, DequeueStep, ScanFieldStep, FieldsDoneStep, QueueEmptyStep,
     MarkPhaseDoneStep DEF Mark
<1>3. CASE Compact
  BY <1>3, ComputeLocationStep, MapNewHeapStep, UpdateObjectStep, UpdateRootsStep,
     RelocateStep, CompactPhaseDoneStep DEF Compact
<1>4. CASE Runtime
  BY <1>2, <1>3, <1>4, PushExtraRootStep, AllocStep, GcAllocStep, FillStep,
     PopExtraRootStep, ReturnStep DEF Runtime
<1>5. CASE Exited \/ UNCHANGED vars
  BY <1>5, StutterStep DEF Exited
<1> QED BY <1>1, <1>4, <1>5 DEF Next

\* The invariant holds in every reachable state, in the middle of a collection too.
THEOREM Invariance == Spec => []Inv
<1>1. Init => Inv BY InitInv
<1>2. Inv /\ [Next]_vars => Inv' BY NextInv
<1> QED BY <1>1, <1>2, PTL DEF Spec

\* Every variable has its type, and forward addresses and bits belong to objects.
THEOREM TypeCorrect == Spec => []TypeOK
<1>1. Inv => TypeOK BY DEF Inv
<1> QED BY <1>1, Invariance, PTL

\* mark never writes its queue beyond the objects of the heap, although it does
\* not test for the end of the heap (gc.c 507-522).
THEOREM QueueNeverOverflows == Spec => []QueueHasRoom
<1>1. ASSUME Inv, AboutToEnqueue PROVE q_tail_iter \in DOMAIN objs
  BY <1>1, TailIsObject DEF Dom
<1>2. Inv => QueueHasRoom BY <1>1 DEF QueueHasRoom
<1> QED BY <1>2, Invariance, PTL

\* The queue holds only valid, unmarked objects, and each of them once
\* (gc.c 534-535, 547-548).
THEOREM QueueIsSound == Spec => []QueueInvariant
<1>1. ASSUME Inv, pc = "mark"
      PROVE  /\ \A a \in InQueue : Header(fwd[a]) \in enqueued \ marked
             /\ \A a, b \in InQueue : fwd[a] = fwd[b] => a = b
             /\ enqueued = {Header(fwd[a]) : a \in InQueue}
  <2>1. /\ \A a \in InQueue : Header(fwd[a]) \in enqueued
        /\ \A a, b \in InQueue : fwd[a] = fwd[b] => a = b
        /\ \A x \in enqueued : \E a \in InQueue : x = Header(fwd[a])
    BY <1>1 DEF Inv, QueueInv
  <2>2. marked \cap enqueued = {} BY <1>1 DEF Inv, BitsInv
  <2>3. enqueued = {Header(fwd[a]) : a \in InQueue} BY <2>1
  <2> QED BY <2>1, <2>2, <2>3
<1>2. Inv => QueueInvariant BY <1>1 DEF QueueInvariant
<1> QED BY <1>2, Invariance, PTL

\* When marking ends, the objects with the mark bit are the reachable ones: no
\* live object is overwritten by the compaction.
THEOREM MarkingIsExact == Spec => []MarkedIsReachable
<1>1. ASSUME Inv, pc = "compute" PROVE marked = ReachableObjs
  <2>1. /\ FieldsMet /\ RootsMet /\ OnlyReachable /\ enqueued = {}
        /\ TypeOK /\ marked \subseteq Dom
    BY <1>1, TypeFacts DEF Inv, MarkInv, BitsInv
  <2>2. Targets(RootSet) \subseteq marked
    <3> SUFFICES ASSUME NEW w \in RootSet, IsValidHeapPointer(w) PROVE Header(w) \in marked
      BY DEF Targets
    <3>1. PICK i \in DOMAIN RootWords : w = RootWords[i] BY DEF RootSet
    <3> QED BY <1>1, <2>1, <3>1 DEF RootsMet, Met
  <2>3. ClosedUnderFields(marked)
    <3> SUFFICES ASSUME NEW a \in marked, NEW w \in FieldWords(a), IsValidHeapPointer(w)
                 PROVE  Header(w) \in marked
      BY DEF ClosedUnderFields, Targets
    <3>1. PICK k \in PtrFields(objs[a]) : w = objs[a].body[k] BY DEF FieldWords
    <3> QED BY <1>1, <2>1, <3>1 DEF FieldsMet, Met
  <2>4. ReachableObjs \subseteq marked
    BY <2>1, <2>2, <2>3 DEF ReachableObjs, Dom
  <2>5. marked \subseteq ReachableObjs
    BY <2>1 DEF OnlyReachable, ReachableObjs, Dom
  <2> QED BY <2>4, <2>5
<1>2. Inv => MarkedIsReachable BY <1>1 DEF MarkedIsReachable
<1> QED BY <1>2, Invariance, PTL

\* Each walk of the compaction stands on a header or at the end of the heap.
THEOREM WalksStayOnHeaders == Spec => []WalkOnHeaders
<1>1. ASSUME Inv, pc \in {"compute", "update", "relocate"}
      PROVE  scan \in DOMAIN objs \/ scan = heap.current
  BY <1>1 DEF Inv, ComputeInv, UpdateInv, RelocateInv, RelocatedTo, Dom
<1>2. Inv => WalkOnHeaders BY <1>1 DEF WalkOnHeaders
<1> QED BY <1>2, Invariance, PTL

\* The allocation that gc_alloc repeats without looking at its result succeeds.
THEOREM CollectionSuffices == Spec => []CollectionMakesRoom
<1>1. Inv => CollectionMakesRoom BY DEF Inv, CollectionMakesRoom
<1> QED BY <1>1, Invariance, PTL

\* Between two calls the client sees a heap without dangling pointers, tiled by
\* its objects, and no extra root is left registered.
THEOREM HeapIsSound == Spec => []HeapSound
<1>1. ASSUME Inv, pc = "client"
      PROVE  /\ extra_roots = <<>>
             /\ Targets(RootSet) \subseteq DOMAIN objs
             /\ \A a \in DOMAIN objs : /\ Targets(FieldWords(a)) \subseteq DOMAIN objs
                                       /\ NextObj(a) \in DOMAIN objs \cup {heap.current}
             /\ heap.begin \in DOMAIN objs \cup {heap.current}
  <2>1. TypeOK /\ ChunkInv /\ SettledInv /\ CallInv BY <1>1 DEF Inv
  <2>2. Settled BY <1>1 DEF Settled
  <2>3. extra_roots = <<>>
    <3>1. extra_roots \in Seq(Int) /\ Len(extra_roots) <= 0
      BY <1>1, <2>1 DEF CallInv, TypeOK, NoCall
    <3> QED BY <3>1
  <2>4. Targets(RootSet) \subseteq Dom
    <3> SUFFICES ASSUME NEW i \in DOMAIN RootWords, IsValidHeapPointer(RootWords[i])
                 PROVE  Header(RootWords[i]) \in Dom
      BY DEF Targets, RootSet
    <3> QED BY <1>1, <2>2, RootObject
  <2>5. \A a \in Dom : Targets(FieldWords(a)) \subseteq Dom
    <3> SUFFICES ASSUME NEW a \in Dom, NEW w \in FieldWords(a), IsValidHeapPointer(w)
                 PROVE  Header(w) \in Dom
      BY DEF Targets
    <3>1. heap # NoChunk BY <2>1 DEF ChunkInv, Dom
    <3>2. w \in Nat BY <2>1, FieldFacts
    <3>3. RootWord(w, Dom) BY <2>1, <2>2, <3>1 DEF SettledInv, RootWord
    <3> QED BY <2>1, <3>2, <3>3, ValidIsObject
  <2>6. Tiles(Dom, heap.begin, heap.current) BY <2>1, <2>2 DEF SettledInv
  <2> QED BY <2>3, <2>4, <2>5, <2>6 DEF Tiles, Dom
<1>2. Inv => HeapSound BY <1>1 DEF HeapSound
<1> QED BY <1>2, Invariance, PTL

-----------------------------------------------------------------------------
(***************************************************************************)
(* What a finished collection leaves: exactly the reachable objects, in    *)
(* the order they were allocated in.  The invariant above says that what   *)
(* marking kept is moved safely; the one added here says that nothing else *)
(* survives, by carrying "reached from the roots" through the passes that  *)
(* rewrite every word and move every object.                               *)
(***************************************************************************)

\* Objects are numbered in the order of their addresses (objs[a].id is the
\* debug build's number of the object, counted by alloc: gc.c 60).
InOrder(S) == \A a, b \in S : a < b => objs[a].id < objs[b].id
OrderInv == /\ \A a \in Dom : objs[a].id <= cur_id
            /\ pc # "relocate" => InOrder(Dom)

\* New addresses are even: a word that leads to one is not taken for unboxed.
Even(n) == n % 2 = 0
EvenInv ==
  /\ pc = "compute" => Even(free_ptr) /\ \A a \in Placed : Even(fwd[a])
  /\ pc = "update" => \A a \in marked : Even(NewAddress(a))
  /\ pc = "relocate" => \A a \in Waiting : Even(NewAddress(a))

\* While references are updated: a set of new addresses that has those of the
\* roots' objects, and with an object's those that its fields lead to, fixed or
\* not yet, has the new addresses of all that was marked.
NewAddresses(S) == {NewAddress(a) : a \in S}
FixedWords(W)   == {Fixed(w) : w \in W}
NewFields(a)    == IF a < scan THEN FieldWords(a) ELSE FixedWords(FieldWords(a))
UpdateReaches ==
  \A S \in SUBSET Nat :
    /\ Targets(FixedWords(RootSet)) \subseteq S
    /\ \A a \in marked : NewAddress(a) \in S => Targets(NewFields(a)) \subseteq S
    => NewAddresses(marked) \subseteq S

\* While objects are moved, with everything below f in place: the same of the
\* objects in place and of the places of those that wait to be moved.
RelocateReaches(f) ==
  \A S \in SUBSET Nat :
    /\ Targets(RootSet) \subseteq S
    /\ \A a \in Before(f) : a \in S => Targets(FieldWords(a)) \subseteq S
    /\ \A a \in Waiting : NewAddress(a) \in S => Targets(FieldWords(a)) \subseteq S
    => Before(f) \cup NewAddresses(Waiting) \subseteq S

CompactInv ==
  /\ OrderInv /\ EvenInv
  /\ pc = "update" => UpdateReaches
  /\ pc = "relocate" => \E f \in heap.begin..free_ptr :
                          /\ RelocatedTo(f)
                          /\ InOrder(Before(f) \cup Waiting)
                          /\ RelocateReaches(f)
  /\ CompactedHeap

-----------------------------------------------------------------------------
(* Steps that leave the objects where they are. *)

\* The initial state has no objects.
LEMMA CompactInit == Init => CompactInv
BY DEF Init, CompactInv, OrderInv, EvenInv, InOrder, Dom, CompactedHeap

\* A step outside the compaction that keeps every object, and its number.
LEMMA IdsKept ==
  ASSUME OrderInv, pc # "relocate", pc' \notin {"update", "relocate", "retry"},
         Dom' = Dom, \A a \in Dom : objs'[a].id = objs[a].id, cur_id' = cur_id,
         EvenInv'
  PROVE  CompactInv'
<1>1. OrderInv' BY DEF OrderInv, InOrder
<1> QED BY <1>1 DEF CompactInv, CompactedHeap

\* compute_locations starts at the chunk's address, which is even.
LEMMA MarkPhaseDoneEven == ASSUME Inv, MarkPhaseDone PROVE EvenInv'
<1>1. /\ pc = "scan_roots" /\ pc' = "compute" /\ scan' = heap.begin /\ free_ptr' = heap.begin
      /\ objs' = objs /\ marked' = marked
  BY DEF MarkPhaseDone, memory
<1>2. Even(heap.begin)
  <2>1. CASE heap.begin \in Bases BY <2>1, GCAssumption DEF GCAssumption, Even
  <2>2. CASE heap = NoChunk BY <2>2 DEF NoChunk, Even
  <2> QED BY <2>1, <2>2 DEF Inv, ChunkInv
<1>3. Placed' = {}
  <2>1. Tiles(Dom, heap.begin, heap.current) BY <1>1 DEF Inv, SettledInv, Settled
  <2>2. TypeOK /\ Dom \subseteq Nat /\ marked \subseteq Dom /\ heap.begin \in Nat
    BY TypeFacts DEF Inv
  <2>3. \A a \in marked : ~ a < heap.begin BY <2>1, <2>2 DEF Tiles
  <2> QED BY <1>1, <2>3 DEF Placed
<1> QED BY <1>1, <1>2, <1>3 DEF EvenInv

\* Every object has an even size: the next place is even again.
LEMMA ComputeLocationEven == ASSUME Inv, EvenInv, ComputeLocation PROVE EvenInv'
<1>1. /\ pc = "compute" /\ pc' = "compute" /\ scan < heap.current /\ scan' = NextObj(scan)
      /\ marked' = marked
  BY DEF ComputeLocation
<1>2. TypeOK /\ Tiles(Dom, heap.begin, heap.current) /\ scan \in Dom \cup {heap.current}
  BY <1>1 DEF Inv, ComputeInv, SettledInv, Settled
<1>3. PICK c \in Dom : /\ c = scan
                       /\ \A a \in Dom : a < NextObj(c) <=> a < c \/ a = c
  BY <1>1, <1>2, ScanFacts
<1>4. marked \subseteq Dom /\ fwd \in [Dom -> Nat] /\ free_ptr \in Nat /\ Dom \subseteq Nat
  BY <1>2, TypeFacts DEF TypeOK
<1>5. Placed' = {a \in marked : a < c \/ a = c} BY <1>1, <1>3, <1>4 DEF Placed
<1>6. Even(free_ptr) /\ \A a \in marked : a < c => Even(fwd[a])
  BY <1>1, <1>3 DEF EvenInv, Placed
<1>7. CASE c \in marked
  <2>1. fwd' = [fwd EXCEPT ![c] = free_ptr] /\ free_ptr' = free_ptr + ObjSize(c)
    BY <1>3, <1>7 DEF ComputeLocation
  <2>2. Even(free_ptr')
    <3>1. PICK k \in Nat : ObjSize(c) = 4 + 2 * k
      <4>1. Len(objs[c].body) \in Nat BY <1>2, FieldFacts
      <4> QED BY <1>2, <4>1, ObjSizeFacts
    <3>2. PICK m \in Nat : m = free_ptr BY <1>4
    <3>3. (m + (4 + 2 * k)) % 2 = m % 2 OBVIOUS
    <3> QED BY <1>6, <2>1, <3>1, <3>2, <3>3 DEF Even
  <2>3. \A a \in Placed' : Even(fwd'[a]) BY <1>4, <1>5, <1>6, <2>1
  <2> QED BY <1>1, <2>2, <2>3 DEF EvenInv
<1>8. CASE c \notin marked
  <2>1. fwd' = fwd /\ free_ptr' = free_ptr BY <1>3, <1>8 DEF ComputeLocation
  <2> QED BY <1>1, <1>5, <1>6, <1>8, <2>1 DEF EvenInv
<1> QED BY <1>7, <1>8

\* A step of the client that does not store, of the marking, or of the runtime
\* around an allocation.
LEMMA IdleSteps ==
  ASSUME Inv, CompactInv,
         \/ Push \/ Dup \/ Belem \/ Pop \/ Barray \/ BsexpOrBclosure \/ Bstring \/ Lstring
         \/ PushExtraRoot \/ PopExtraRoot \/ Return \/ GcAlloc
         \/ Mark \/ ComputeLocation
  PROVE  CompactInv'
<1>1. /\ objs' = objs /\ cur_id' = cur_id
      /\ pc # "relocate" /\ pc' \notin {"update", "relocate", "retry"}
  <2> USE DEF memory, call, queue, slide
  <2>1. CASE Push \/ Dup \/ Belem \/ Pop BY <2>1 DEF Push, Dup, Belem, Pop, ClientOnly
  <2>2. CASE Barray \/ BsexpOrBclosure \/ Bstring \/ Lstring
    BY <2>2 DEF Barray, BsexpOrBclosure, Bstring, Lstring, Call
  <2>3. CASE PushExtraRoot \/ PopExtraRoot \/ Return \/ GcAlloc
    BY <2>3 DEF PushExtraRoot, PopExtraRoot, Return, GcAlloc
  <2>4. CASE MarkRoot BY <2>4 DEF MarkRoot
  <2>5. CASE Dequeue BY <2>5 DEF Dequeue
  <2>6. CASE ScanField BY <2>6 DEF ScanField
  <2>7. CASE FieldsDone \/ QueueEmpty \/ MarkPhaseDone
    BY <2>7 DEF FieldsDone, QueueEmpty, MarkPhaseDone
  <2>8. CASE ComputeLocation BY <2>8 DEF ComputeLocation
  <2> QED BY <2>1, <2>2, <2>3, <2>4, <2>5, <2>6, <2>7, <2>8 DEF Mark
<1>2. Dom' = Dom /\ \A a \in Dom : objs'[a].id = objs[a].id BY <1>1 DEF Dom
<1>3. EvenInv'
  <2>1. CASE MarkPhaseDone BY <2>1, MarkPhaseDoneEven
  <2>2. CASE ComputeLocation BY <2>2, ComputeLocationEven DEF CompactInv
  <2>3. CASE /\ ~MarkPhaseDone /\ ~ComputeLocation
    <3>1. pc' # "compute"
      BY <2>3 DEF Push, Dup, Belem, Pop, ClientOnly, Barray, BsexpOrBclosure, Bstring, Lstring, Call,
                  PushExtraRoot, PopExtraRoot, Return, GcAlloc,
                  Mark, MarkRoot, Dequeue, ScanField, FieldsDone, QueueEmpty
    <3> QED BY <1>1, <3>1 DEF EvenInv
  <2> QED BY <2>1, <2>2, <2>3
<1> QED BY <1>1, <1>2, <1>3, IdsKept DEF CompactInv

\* A field or the characters of an object are overwritten: its number stays.
LEMMA StoreSteps ==
  ASSUME Inv, CompactInv, Bsta \/ BstaString \/ Fill
  PROVE  CompactInv'
<1>1. /\ cur_id' = cur_id
      /\ pc # "relocate" /\ pc' \notin {"update", "relocate", "retry"}
  BY DEF Bsta, BstaString, ClientOnly, Fill, call
<1>2. \E h \in Dom : \E b : objs' = [objs EXCEPT ![h].body = b]
  <2>1. ASSUME NEW i \in Objects, Settled PROVE Header(stack[i]) \in Dom
    BY <2>1, StackObject
  <2>2. CASE Bsta
    <3>1. Settled BY <2>2 DEF Bsta, ClientOnly, Settled
    <3>2. PICK i \in Objects, j \in DOMAIN stack :
             \E k \in PtrFields(objs[Header(stack[i])]) :
               objs' = [objs EXCEPT ![Header(stack[i])].body[k] = stack[j]]
      BY <2>2 DEF Bsta
    <3>3. PICK k : objs' = [objs EXCEPT ![Header(stack[i])].body =
                              [objs[Header(stack[i])].body EXCEPT ![k] = stack[j]]]
      BY <3>2
    <3> QED BY <2>1, <3>1, <3>3
  <2>3. CASE BstaString
    <3>1. Settled BY <2>3 DEF BstaString, ClientOnly, Settled
    <3>2. PICK i \in Objects, str \in Strings :
             objs' = [objs EXCEPT ![Header(stack[i])].body = str]
      BY <2>3 DEF BstaString
    <3> QED BY <2>1, <3>1, <3>2
  <2>4. CASE Fill
    <3>1. res \in Dom BY <2>4 DEF Inv, CallInv, Fill
    <3> QED BY <2>4, <3>1 DEF Fill
  <2> QED BY <2>2, <2>3, <2>4
<1>3. PICK h \in Dom : \E b : objs' = [objs EXCEPT ![h].body = b] BY <1>2
<1>4. PICK b : objs' = [objs EXCEPT ![h].body = b] BY <1>3
<1>5. EvenInv'
  <2>1. pc' # "compute" BY DEF Bsta, BstaString, ClientOnly, Fill
  <2> QED BY <1>1, <2>1 DEF EvenInv
<1>6. Dom' = Dom /\ \A a \in Dom : objs'[a].id = objs[a].id
  <2>1. Dom' = Dom BY <1>4 DEF Dom
  <2>2. \A a \in Dom \ {h} : objs'[a] = objs[a] BY <1>4 DEF Dom
  <2>3. objs'[h].id = objs[h].id
    <3>1. objs[h] \in HeapObject BY TypeFacts DEF Inv
    <3>2. objs'[h] = [objs[h] EXCEPT !.body = b] BY <1>4 DEF Dom
    <3> QED BY <3>1, <3>2 DEF HeapObject
  <2> QED BY <2>1, <2>2, <2>3
<1> QED BY <1>1, <1>5, <1>6, IdsKept DEF CompactInv

\* A new object lies above all others, and has the highest number.
LEMMA AllocOrdered == ASSUME Inv, CompactInv, Alloc PROVE CompactInv'
<1>1. /\ pc \in {"push_roots", "retry"} /\ pc' = "fill" /\ cur_id' = cur_id + 1
      /\ objs' = [a \in Dom \cup {heap.current} |->
                    IF a = heap.current
                    THEN [tag |-> req.tag, id |-> cur_id + 1, body |-> [i \in 1..ReqLen |-> 0]]
                    ELSE objs[a]]
  BY DEF Alloc, Dom
<1>2. TypeOK /\ Tiles(Dom, heap.begin, heap.current) BY <1>1 DEF Inv, SettledInv, Settled
<1>3. Dom \subseteq Nat /\ heap.current \in Nat /\ cur_id \in Nat
  BY <1>2, TypeFacts DEF TypeOK
<1>4. \A a \in Dom : a < heap.current
  <2>1. \A a \in Dom : a + 4 <= heap.current BY <1>2, <1>3, TilesFacts
  <2> QED BY <1>3, <2>1
<1>5. /\ Dom' = Dom \cup {heap.current}
      /\ objs'[heap.current].id = cur_id + 1
      /\ \A a \in Dom : objs'[a] = objs[a]
  BY <1>1, <1>3, <1>4 DEF Dom
<1>6. \A a \in Dom : objs[a].id \in Nat /\ objs[a].id <= cur_id
  <2>1. \A a \in Dom : objs[a] \in HeapObject BY <1>2, TypeFacts
  <2> QED BY <2>1 DEF CompactInv, OrderInv, HeapObject
<1>7. InOrder(Dom) BY <1>1 DEF CompactInv, OrderInv
<1>8. OrderInv'
  <2>1. \A a \in Dom' : objs'[a].id <= cur_id' BY <1>1, <1>3, <1>5, <1>6
  <2>2. InOrder(Dom)'
    <3> SUFFICES ASSUME NEW a \in Dom', NEW b \in Dom', a < b
                 PROVE  objs'[a].id < objs'[b].id
      BY DEF InOrder
    <3>1. a \in Dom BY <1>3, <1>4, <1>5
    <3>2. CASE b \in Dom BY <1>5, <1>7, <3>1, <3>2 DEF InOrder
    <3>3. CASE b = heap.current
      <4>1. objs'[a].id = objs[a].id /\ objs'[b].id = cur_id + 1 BY <1>5, <3>1, <3>3
      <4>2. objs[a].id \in Nat /\ objs[a].id <= cur_id BY <1>6, <3>1
      <4> QED BY <1>3, <4>1, <4>2
    <3> QED BY <1>5, <3>2, <3>3
  <2> QED BY <2>1, <2>2 DEF OrderInv
<1> QED BY <1>1, <1>8 DEF CompactInv, CompactedHeap, EvenInv

-----------------------------------------------------------------------------
(* The new chunk. *)

\* The chunk in use begins at an even address.
LEMMA BeginIsEven == ASSUME Inv PROVE heap.begin \in Nat /\ Even(heap.begin)
<1>1. CASE heap.begin \in Bases BY <1>1, BaseFacts, GCAssumption DEF GCAssumption, Even
<1>2. CASE heap = NoChunk BY <1>2 DEF NoChunk, Even
<1> QED BY <1>1, <1>2 DEF Inv, ChunkInv

\* When locations have been computed, what was marked is what the roots reach:
\* here, a set of marked objects that is closed has all of them.
LEMMA MarkedIsLeast ==
  ASSUME Inv, pc = "compute", NEW S \in SUBSET marked,
         \A w \in RootSet : IsValidHeapPointer(w) /\ Header(w) \in marked => Header(w) \in S,
         \A a \in S : \A w \in FieldWords(a) :
           IsValidHeapPointer(w) /\ Header(w) \in marked => Header(w) \in S
  PROVE  S = marked
<1>1. FieldsMet /\ RootsMet /\ OnlyReachable /\ enqueued = {} /\ marked \subseteq Dom
  BY TypeFacts DEF Inv, MarkInv, BitsInv
<1>2. Targets(RootSet) \subseteq S
  <2> SUFFICES ASSUME NEW w \in RootSet, IsValidHeapPointer(w) PROVE Header(w) \in S
    BY DEF Targets
  <2>1. PICK i \in DOMAIN RootWords : w = RootWords[i] BY DEF RootSet
  <2> QED BY <1>1, <2>1 DEF RootsMet, Met
<1>3. ClosedUnderFields(S)
  <2> SUFFICES ASSUME NEW a \in S, NEW w \in FieldWords(a), IsValidHeapPointer(w)
               PROVE  Header(w) \in S
    BY DEF ClosedUnderFields, Targets
  <2>1. PICK k \in PtrFields(objs[a]) : w = objs[a].body[k] BY DEF FieldWords
  <2>2. Met(w) BY <1>1, <2>1 DEF FieldsMet
  <2> QED BY <1>1, <2>2 DEF Met
<1> QED BY <1>1, <1>2, <1>3 DEF OnlyReachable

\* mmap of the new chunk: every word still leads into the old one, and is fixed
\* to lead to the new address of the object it leads to.
LEMMA MapReaches == ASSUME Inv, CompactInv, MapNewHeap PROVE CompactInv'
<1> USE DEF roots, call, queue
<1>1. PICK b \in Bases, o \in Nat :
           /\ o = heap.begin /\ old_heap' = heap
           /\ pc = "compute" /\ pc' = "update"
           /\ scan \in Dom \cup {heap.current} /\ scan >= heap.current
           /\ heap' = [begin |-> b, end |-> b + WORD * NextHeapPseudoSize,
                       current |-> b + (heap.current - o), size |-> NextHeapPseudoSize]
           /\ Dom' = {x + b - o : x \in Dom}
           /\ marked' = {x + b - o : x \in marked} /\ enqueued' = {}
           /\ \A a \in Dom : /\ objs'[a + b - o] = objs[a]
                             /\ fwd'[a + b - o] = fwd[a]
           /\ DOMAIN fwd' = Dom'
           /\ fwd' = [a \in DOMAIN fwd' |-> fwd'[a]]
           /\ scan' = b /\ free_ptr' = b + (free_ptr - o)
           /\ UNCHANGED <<roots, call, root, queue>>
  BY NewChunkIsCopy
<1>2. TypeOK /\ ComputeInv /\ Tiles(Dom, heap.begin, heap.current)
  BY <1>1 DEF Inv, SettledInv, Settled
<1>3. /\ Dom \subseteq Nat /\ fwd \in [Dom -> Nat] /\ marked \subseteq Dom
      /\ heap.current \in Nat /\ free_ptr \in Nat /\ scan \in Nat
  BY <1>2, TypeFacts DEF TypeOK
<1>4. b \in Nat /\ Even(b) /\ Even(o)
  BY <1>1, BaseFacts, BeginIsEven, GCAssumption DEF GCAssumption, Even
<1>5. /\ heap'.begin = b /\ heap'.current = b + (heap.current - o)
      /\ old_heap'.begin = o /\ old_heap'.current = heap.current
  BY <1>1
<1>6. \A a \in Dom : o <= a /\ a + 4 <= heap.current
  <2>1. \A a \in Dom : a + 4 <= heap.current BY <1>2, <1>3, TilesFacts
  <2> QED BY <1>1, <1>2, <2>1 DEF Tiles
<1>7. Placed = marked /\ free_ptr <= heap.current
  <2>1. scan = heap.current BY <1>1, <1>3, <1>6
  <2>2. \A a \in marked : a < scan BY <1>3, <1>6, <2>1
  <2> QED BY <1>1, <1>2, <2>1, <2>2 DEF Placed, ComputeInv
<1>8. \A a \in marked : o <= fwd[a] /\ fwd[a] + 4 <= heap.current /\ Even(fwd[a])
  <2> TAKE a \in marked
  <2>1. Slides(marked, o) BY <1>1, <1>2, <1>7 DEF ComputeInv
  <2>2. o <= fwd[a] /\ fwd[a] + ObjSize(a) <= free_ptr BY <1>1, <2>1 DEF Slides, Target
  <2>3. a \in Dom /\ ObjSize(a) \in Nat /\ ObjSize(a) >= 4 BY <1>2, <1>3, ObjSizeFacts
  <2>4. fwd[a] \in Nat BY <1>3, <2>3
  <2>5. Even(fwd[a]) BY <1>1, <1>7 DEF CompactInv, EvenInv
  <2> QED BY <1>3, <1>7, <2>2, <2>3, <2>4, <2>5
<1>9. \A a \in marked : /\ NewAddress(a + b - o)' = b + (fwd[a] - o)
                        /\ b + (fwd[a] - o) \in Nat /\ Even(b + (fwd[a] - o))
                        /\ b + (fwd[a] - o) + 4 <= heap'.current
  <2> TAKE a \in marked
  <2>1. NewAddress(a + b - o)' = b + (fwd[a] - o) BY <1>1, <1>3, <1>5 DEF NewAddress
  <2>2. PICK t \in Nat : t = fwd[a] /\ o <= t /\ t + 4 <= heap.current /\ Even(t)
    BY <1>3, <1>8
  <2>3. b + (t - o) \in Nat /\ Even(b + (t - o)) BY <1>1, <1>4, <2>2 DEF Even
  <2>4. b + (t - o) + 4 <= b + (heap.current - o) BY <1>1, <1>3, <1>4, <2>2
  <2> QED BY <1>5, <2>1, <2>2, <2>3, <2>4
<1>10. \A a \in marked, w \in Nat :
         ~UNBOXED(w) /\ Header(w) = a =>
           \E v \in Nat : /\ v = Fixed(w)'
                         /\ IsValidHeapPointer(v)'
                         /\ Header(v) = b + (fwd[a] - o)
  <2> SUFFICES ASSUME NEW a \in marked, NEW w \in Nat, ~UNBOXED(w), Header(w) = a
               PROVE  \E v \in Nat : /\ v = Fixed(w)'
                                     /\ IsValidHeapPointer(v)'
                                     /\ Header(v) = b + (fwd[a] - o)
    OBVIOUS
  <2>1. a \in Nat /\ o <= a /\ a + 4 <= heap.current /\ w = a + 4
    BY <1>3, <1>6 DEF Header, DATA_HEADER_SZ, WORD
  <2>2. InOldHeap(w)' BY <1>1, <1>3, <1>5, <2>1 DEF InOldHeap
  <2>3. Header(b + (w - o)) = a + b - o
    BY <1>1, <1>4, <2>1 DEF Header, DATA_HEADER_SZ, WORD
  <2>4. PICK t \in Nat : /\ t = b + (fwd[a] - o) /\ NewAddress(a + b - o)' = t
                         /\ Even(t) /\ t + 4 <= heap'.current
    BY <1>9
  <2>5. b <= t
    <3>1. PICK f \in Nat : f = fwd[a] /\ o <= f BY <1>3, <1>8
    <3> QED BY <1>1, <1>4, <2>4, <3>1
  <2>6. Fixed(w)' = Content(t) BY <1>5, <2>2, <2>3, <2>4 DEF Fixed
  <2>7. Content(t) = t + 4 BY DEF Content, DATA_HEADER_SZ, WORD
  <2>8. ~UNBOXED(t + 4) BY <2>4 DEF UNBOXED, Even
  <2>9. IsValidHeapPointer(t + 4)' BY <1>4, <1>5, <2>4, <2>5, <2>8 DEF IsValidHeapPointer
  <2>10. Header(t + 4) = t BY <2>4 DEF Header, DATA_HEADER_SZ, WORD
  <2> QED BY <2>4, <2>6, <2>7, <2>9, <2>10
<1>11. OrderInv'
  <2>1. \A a \in Dom' : \E x \in Dom : a = x + b - o /\ objs'[a].id = objs[x].id BY <1>1
  <2>2. \A x, y \in Dom : x + b - o < y + b - o => x < y BY <1>1, <1>3, <1>4
  <2>3. InOrder(Dom)'
    <3> SUFFICES ASSUME NEW a \in Dom', NEW c \in Dom', a < c PROVE objs'[a].id < objs'[c].id
      BY DEF InOrder
    <3>1. PICK x \in Dom : a = x + b - o /\ objs'[a].id = objs[x].id BY <2>1
    <3>2. PICK y \in Dom : c = y + b - o /\ objs'[c].id = objs[y].id BY <2>1
    <3>3. x < y BY <2>2, <3>1, <3>2
    <3> QED BY <1>1, <3>1, <3>2, <3>3 DEF CompactInv, OrderInv, InOrder
  <2>4. \A a \in Dom' : objs'[a].id <= cur_id' BY <1>1, <2>1 DEF CompactInv, OrderInv
  <2> QED BY <2>3, <2>4 DEF OrderInv
<1>12. EvenInv'
  <2>1. \A a \in marked' : Even(NewAddress(a)') BY <1>1, <1>9
  <2> QED BY <1>1, <2>1 DEF EvenInv
<1>13. UpdateReaches'
  <2>1. RootSet' = RootSet BY <1>1 DEF RootSet, RootWords, Deref
  <2>2. \A a \in marked : NewFields(a + b - o)' = {Fixed(w)' : w \in FieldWords(a)}
    <3> TAKE a \in marked
    <3>1. ~ a + b - o < b BY <1>1, <1>3, <1>4, <1>6
    <3>2. FieldWords(a + b - o)' = FieldWords(a) BY <1>1, <1>3 DEF FieldWords
    <3> QED BY <1>1, <3>1, <3>2 DEF NewFields, FixedWords
  <2> SUFFICES ASSUME NEW S \in SUBSET Nat,
                      Targets(FixedWords(RootSet))' \subseteq S,
                      \A a \in marked' : NewAddress(a)' \in S => Targets(NewFields(a))' \subseteq S
               PROVE  NewAddresses(marked)' \subseteq S
    BY DEF UpdateReaches
  <2>3. PICK T : T = {a \in marked : b + (fwd[a] - o) \in S} OBVIOUS
  <2>4. ASSUME NEW w \in RootSet, IsValidHeapPointer(w), Header(w) \in marked
        PROVE  Header(w) \in T
    <3>1. w \in Nat
      <4>1. RootWords \in Seq(Nat) BY RootWordsFacts DEF Inv
      <4> QED BY <4>1 DEF RootSet
    <3>2. ~UNBOXED(w) BY <2>4 DEF IsValidHeapPointer
    <3>3. PICK v \in Nat : /\ v = Fixed(w)'
                          /\ IsValidHeapPointer(v)'
                          /\ Header(v) = b + (fwd[Header(w)] - o)
      BY <1>10, <2>4, <3>1, <3>2
    <3>4. v \in FixedWords(RootSet)' BY <2>1, <3>3 DEF FixedWords
    <3>5. Header(v) \in Targets(FixedWords(RootSet))' BY <3>3, <3>4 DEF Targets
    <3> QED BY <2>3, <2>4, <3>3, <3>5
  <2>5. ASSUME NEW a \in T, NEW w \in FieldWords(a), IsValidHeapPointer(w), Header(w) \in marked
        PROVE  Header(w) \in T
    <3>1. a \in marked /\ a + b - o \in marked' /\ NewAddress(a + b - o)' \in S
      BY <1>1, <1>9, <2>3
    <3>2. w \in Nat /\ ~UNBOXED(w) BY <1>2, <1>3, <2>5, <3>1, FieldFacts DEF IsValidHeapPointer
    <3>3. PICK v \in Nat : /\ v = Fixed(w)'
                          /\ IsValidHeapPointer(v)'
                          /\ Header(v) = b + (fwd[Header(w)] - o)
      BY <1>10, <2>5, <3>2
    <3>4. v \in NewFields(a + b - o)' BY <2>2, <3>1, <3>3
    <3>5. Header(v) \in Targets(NewFields(a + b - o))' BY <3>3, <3>4 DEF Targets
    <3> QED BY <2>3, <2>5, <3>1, <3>3, <3>5
  <2>6. T \subseteq marked BY <2>3
  <2>7. T = marked BY <1>1, <2>4, <2>5, <2>6, MarkedIsLeast
  <2>8. \A a \in marked' : NewAddress(a)' \in S
    <3> TAKE a \in marked'
    <3>1. PICK x \in marked : a = x + b - o BY <1>1
    <3>2. x \in T BY <2>7
    <3> QED BY <1>9, <2>3, <3>1, <3>2
  <2> QED BY <2>8 DEF NewAddresses
<1> QED BY <1>1, <1>11, <1>12, <1>13 DEF CompactInv, CompactedHeap

-----------------------------------------------------------------------------
(* Words are fixed. *)

\* update_references, one object of the heap: its words lead, now that they are
\* fixed, where fixing them was going to make them lead.
LEMMA UpdateObjectReaches == ASSUME Inv, CompactInv, UpdateObject PROVE CompactInv'
<1> USE DEF roots, call, chunks
<1>1. /\ pc = "update" /\ pc' = "update" /\ scan < heap.current /\ scan' = NextObj(scan)
      /\ UNCHANGED <<fwd, marked, enqueued, chunks, roots, call, root, queue, free_ptr>>
  BY DEF UpdateObject
<1>2. TypeOK /\ UpdateInv BY DEF Inv
<1>3. /\ Dom' = Dom
      /\ \A a \in Dom : /\ PtrFields(objs'[a]) = PtrFields(objs[a])
                        /\ a # scan => objs'[a] = objs[a]
      /\ scan \in marked => \A k \in PtrFields(objs[scan]) :
                              objs'[scan].body[k] = Fixed(objs[scan].body[k])
  BY UpdatedObjects
<1>4. Tiles(Dom, heap.begin, heap.current) /\ scan \in Dom \cup {heap.current}
  BY <1>1, <1>2 DEF UpdateInv
<1>5. marked \subseteq Dom /\ Dom \subseteq Nat /\ \A a \in Dom : objs[a] \in HeapObject
  BY <1>2, TypeFacts
<1>6. PICK c \in Dom : /\ c = scan
                       /\ \A a \in Dom : a < scan' <=> a < c \/ a = c
  BY <1>1, <1>2, <1>4, ScanFacts
<1>7. \A a \in Dom : objs'[a].id = objs[a].id
  <2>1. CASE c \in marked
    <3>1. PICK new : objs' = [objs EXCEPT ![c].body = new]
      BY <1>6, <2>1 DEF UpdateObject
    <3>2. objs'[c] = [objs[c] EXCEPT !.body = new] BY <1>6, <3>1 DEF Dom
    <3>3. objs'[c].id = objs[c].id BY <1>5, <3>2 DEF HeapObject
    <3> QED BY <1>3, <1>6, <3>3
  <2>2. CASE c \notin marked
    <3>1. objs' = objs BY <1>6, <2>2 DEF UpdateObject
    <3> QED BY <3>1
  <2> QED BY <2>1, <2>2
<1>8. OrderInv' BY <1>1, <1>3, <1>7 DEF CompactInv, OrderInv, InOrder
<1>9. \A a : NewAddress(a)' = NewAddress(a) BY <1>1 DEF NewAddress
<1>10. EvenInv' BY <1>1, <1>9 DEF CompactInv, EvenInv
<1>11. \A w : Fixed(w)' = Fixed(w) BY <1>1, <1>9 DEF Fixed, InOldHeap
<1>12. \A W : FixedWords(W)' = FixedWords(W) /\ Targets(W)' = Targets(W)
  BY <1>1, <1>11 DEF FixedWords, Targets, IsValidHeapPointer
<1>13. \A a \in marked : NewFields(a)' = NewFields(a)
  <2> TAKE a \in marked
  <2>1. CASE a # c
    <3>1. FieldWords(a)' = FieldWords(a) BY <1>3, <1>5, <1>6, <2>1 DEF FieldWords
    <3>2. a < scan' <=> a < scan BY <1>5, <1>6, <2>1
    <3> QED BY <1>12, <3>1, <3>2 DEF NewFields, FixedWords
  <2>2. CASE a = c
    <3>1. a < scan' /\ ~ a < scan BY <1>5, <1>6, <2>2
    <3>2. NewFields(a)' = {objs'[a].body[k] : k \in PtrFields(objs'[a])}
      BY <3>1 DEF NewFields, FieldWords
    <3>3. NewFields(a) = {Fixed(objs[a].body[k]) : k \in PtrFields(objs[a])}
      BY <3>1 DEF NewFields, FieldWords, FixedWords
    <3> QED BY <1>3, <1>5, <1>6, <2>2, <3>2, <3>3
  <2> QED BY <2>1, <2>2
<1>14. RootSet' = RootSet BY <1>1 DEF RootSet, RootWords, Deref
<1>15. UpdateReaches'
  <2>1. UpdateReaches BY <1>1 DEF CompactInv
  <2>2. Targets(FixedWords(RootSet))' = Targets(FixedWords(RootSet))
    BY <1>1, <1>12, <1>14 DEF Targets, FixedWords, IsValidHeapPointer
  <2>3. \A a \in marked : Targets(NewFields(a))' = Targets(NewFields(a))
    BY <1>1, <1>13 DEF Targets, IsValidHeapPointer
  <2>4. NewAddresses(marked)' = NewAddresses(marked) BY <1>1, <1>9 DEF NewAddresses
  <2> QED BY <1>1, <1>9, <2>1, <2>2, <2>3, <2>4 DEF UpdateReaches
<1> QED BY <1>1, <1>8, <1>10, <1>15 DEF CompactInv, CompactedHeap

\* Every root is fixed, in the word of the stack or in the cell that holds it.
LEMMA RootsFixed ==
  ASSUME Inv, UpdateRoots, NEW w \in RootSet
  PROVE  Fixed(w) \in RootSet'
<1>1. /\ stack' = [i \in DOMAIN stack |-> Fixed(stack[i])] /\ extra_roots' = extra_roots
      /\ cells' = [arg |-> IF IsExtraRoot(ARG) THEN Fixed(cells.arg) ELSE cells.arg,
                   content |-> IF IsExtraRoot(CONTENT) THEN Fixed(cells.content) ELSE cells.content]
  BY DEF UpdateRoots
<1>2. /\ stack \in Seq(Nat) /\ extra_roots \in Seq(Int) /\ req.roots \in Seq(Int) /\ CallInv
  BY DEF Inv, TypeOK
<1>3. PICK n \in Nat, m \in Nat : /\ n = Len(stack) /\ DOMAIN stack = 1..n
                                  /\ m = Len(extra_roots) /\ DOMAIN extra_roots = 1..m
  BY <1>2
<1>4. stack' \in Seq(Nat) /\ Len(stack') = n BY <1>3, UpdatedRoots
<1>5. /\ DOMAIN RootWords = 1..(n + m) /\ DOMAIN RootWords' = 1..(n + m)
  BY <1>1, <1>2, <1>3, <1>4 DEF RootWords
<1>6. \A i \in 1..n : RootWords[i] = stack[i] /\ RootWords'[i] = stack'[i]
  BY <1>1, <1>2, <1>3, <1>4 DEF RootWords
<1>7. \A j \in 1..m : /\ RootWords[n + j] = Deref(extra_roots[j])
                      /\ RootWords'[n + j] = Deref(extra_roots[j])'
  BY <1>1, <1>2, <1>3, <1>4 DEF RootWords
<1>8. \A j \in 1..m : Deref(extra_roots[j])' = Fixed(Deref(extra_roots[j]))
  <2> TAKE j \in 1..m
  <2>1. j \in DOMAIN req.roots /\ extra_roots[j] = req.roots[j]
    <3>1. Len(extra_roots) <= Len(req.roots) BY <1>2 DEF CallInv
    <3>2. extra_roots[j] = req.roots[j] BY <1>2, <1>3 DEF CallInv
    <3> QED BY <1>2, <1>3, <3>1, <3>2
  <2>2. extra_roots[j] \in {ARG, CONTENT} \cup DOMAIN stack BY <1>2, <2>1 DEF CallInv
  <2>3. IsExtraRoot(extra_roots[j]) BY <1>3 DEF IsExtraRoot
  <2> QED BY <1>1, <2>2, <2>3 DEF Deref, ARG, CONTENT
<1>9. PICK i \in DOMAIN RootWords : w = RootWords[i] BY DEF RootSet
<1>10. RootWords'[i] = Fixed(w)
  <2>1. CASE i \in 1..n BY <1>1, <1>3, <1>6, <1>9, <2>1
  <2>2. CASE i \notin 1..n
    <3>1. PICK j \in 1..m : i = n + j
      <4>1. i - n \in 1..m /\ i = n + (i - n) BY <1>3, <1>5, <1>9, <2>2
      <4> QED BY <4>1
    <3> QED BY <1>7, <1>8, <1>9, <3>1
  <2> QED BY <2>1, <2>2
<1> QED BY <1>5, <1>9, <1>10 DEF RootSet

\* When the roots are fixed too, nothing leads into the old chunk any more.
LEMMA UpdateRootsReaches == ASSUME Inv, CompactInv, UpdateRoots PROVE CompactInv'
<1> USE DEF call, chunks, memory
<1>1. /\ pc = "update" /\ pc' = "relocate" /\ scan >= heap.current /\ scan' = heap.begin
      /\ UNCHANGED <<memory, chunks, extra_roots, call, root, queue, free_ptr>>
  BY DEF UpdateRoots
<1>2. TypeOK /\ UpdateInv /\ Inv' BY UpdateRootsStep DEF Inv
<1>3. /\ Tiles(Dom, heap.begin, heap.current) /\ scan \in Dom \cup {heap.current}
  BY <1>1, <1>2 DEF UpdateInv
<1>4. /\ Dom \subseteq Nat /\ marked \subseteq Dom
      /\ heap.begin \in Nat /\ heap.current \in Nat /\ free_ptr \in Nat /\ scan \in Nat
  BY <1>2, TypeFacts DEF TypeOK
<1>5. \A a \in Dom : heap.begin <= a /\ a < scan
  <2>1. \A a \in Dom : a + 4 <= heap.current BY <1>2, <1>3, <1>4, TilesFacts
  <2> QED BY <1>1, <1>3, <1>4, <2>1 DEF Tiles
<1>6. PICK f \in heap.begin..free_ptr : RelocatedTo(f)'
  BY <1>1, <1>2 DEF Inv, RelocateInv
<1>7. f = heap.begin BY <1>1, <1>4, <1>6 DEF RelocatedTo
<1>8. Dom' = Dom /\ Before(f)' = {} /\ Waiting' = marked
  <2>1. Before(f)' = {} BY <1>1, <1>4, <1>5, <1>7 DEF Before, Dom
  <2>2. Waiting' = marked BY <1>1, <1>4, <1>5 DEF Waiting
  <2> QED BY <1>1, <2>1, <2>2 DEF Dom
<1>9. \A a : NewAddress(a)' = NewAddress(a) /\ FieldWords(a)' = FieldWords(a)
  BY <1>1 DEF NewAddress, FieldWords
<1>10. \A W : Targets(W)' = Targets(W) BY <1>1 DEF Targets, IsValidHeapPointer
<1>11. OrderInv' BY <1>1, <1>8 DEF CompactInv, OrderInv
<1>12. EvenInv' BY <1>1, <1>8, <1>9 DEF CompactInv, EvenInv
<1>13. InOrder(Before(f) \cup Waiting)'
  BY <1>1, <1>4, <1>8 DEF CompactInv, OrderInv, InOrder
<1>14. RelocateReaches(f)'
  <2> SUFFICES ASSUME NEW S \in SUBSET Nat, Targets(RootSet)' \subseteq S,
                      \A a \in Waiting' : NewAddress(a)' \in S => Targets(FieldWords(a))' \subseteq S
               PROVE  (Before(f) \cup NewAddresses(Waiting))' \subseteq S
    BY DEF RelocateReaches
  <2>1. Targets(FixedWords(RootSet)) \subseteq S
    <3> SUFFICES ASSUME NEW w \in RootSet, IsValidHeapPointer(Fixed(w)) PROVE Header(Fixed(w)) \in S
      BY DEF Targets, FixedWords
    <3>1. Fixed(w) \in RootSet' BY RootsFixed
    <3> QED BY <1>1, <3>1 DEF Targets, IsValidHeapPointer
  <2>2. \A a \in marked : NewAddress(a) \in S => Targets(NewFields(a)) \subseteq S
    <3> SUFFICES ASSUME NEW a \in marked, NewAddress(a) \in S PROVE Targets(NewFields(a)) \subseteq S
      OBVIOUS
    <3>1. NewFields(a) = FieldWords(a) BY <1>4, <1>5 DEF NewFields
    <3>2. Targets(FieldWords(a))' \subseteq S BY <1>8, <1>9
    <3> QED BY <1>1, <1>9, <3>1, <3>2 DEF Targets, IsValidHeapPointer
  <2>3. UpdateReaches BY <1>1 DEF CompactInv
  <2>4. NewAddresses(marked) \subseteq S BY <2>1, <2>2, <2>3 DEF UpdateReaches
  <2> QED BY <1>8, <1>9, <2>4 DEF NewAddresses
<1>15. f \in (heap.begin..free_ptr)' BY <1>1, <1>6
<1> QED BY <1>1, <1>6, <1>11, <1>12, <1>13, <1>14, <1>15 DEF CompactInv, CompactedHeap

-----------------------------------------------------------------------------
(* Objects are moved. *)

\* physically_relocate, one object of the heap: a moved object has its number
\* and its words in its new place.
LEMMA RelocateReachesOn == ASSUME Inv, CompactInv, Relocate PROVE CompactInv'
<1> USE DEF call, chunks, roots
<1>1. /\ pc = "relocate" /\ pc' = "relocate" /\ scan < heap.current /\ scan' = NextObj(scan)
      /\ UNCHANGED <<chunks, roots, call, root, queue, free_ptr>> /\ TypeOK
  BY DEF Relocate, Inv
<1>2. PICK f \in heap.begin..free_ptr :
        RelocatedTo(f) /\ InOrder(Before(f) \cup Waiting) /\ RelocateReaches(f)
  BY <1>1 DEF CompactInv
<1>3. /\ Dom \subseteq Nat /\ marked \subseteq Dom
      /\ heap.begin \in Nat /\ free_ptr \in Nat /\ f \in Nat
  BY <1>1, <1>2, TypeFacts, SMTT(40) DEF TypeOK
<1>4. \A W : Targets(W)' = Targets(W) BY <1>1 DEF Targets, IsValidHeapPointer
<1>5. RootSet' = RootSet BY <1>1 DEF RootSet, RootWords, Deref
<1>6. (\A a \in Dom : objs[a].id <= cur_id) /\ EvenInv /\ cur_id' = cur_id
  BY <1>1 DEF CompactInv, OrderInv
<1>7. CASE scan \notin marked
  <2>1. RelocatedTo(f)' /\ UNCHANGED memory /\ Waiting' = Waiting
    BY <1>2, <1>3, <1>7, RelocateSkips
  <2>2. /\ Dom' = Dom /\ Before(f)' = Before(f)
        /\ \A a : NewAddress(a)' = NewAddress(a) /\ FieldWords(a)' = FieldWords(a)
    BY <1>1, <2>1 DEF memory, Dom, Before, NewAddress, FieldWords
  <2>3. OrderInv' /\ EvenInv' BY <1>1, <1>6, <2>1, <2>2 DEF OrderInv, EvenInv, memory
  <2>4. InOrder(Before(f) \cup Waiting)' BY <1>2, <2>1, <2>2 DEF InOrder, memory
  <2>5. RelocateReaches(f)'
    <3>1. Targets(RootSet)' = Targets(RootSet) BY <1>1, <1>5 DEF Targets, IsValidHeapPointer
    <3>2. \A a : Targets(FieldWords(a))' = Targets(FieldWords(a))
      BY <1>1, <2>2 DEF Targets, IsValidHeapPointer
    <3>3. NewAddresses(Waiting)' = NewAddresses(Waiting) BY <2>1, <2>2 DEF NewAddresses
    <3> QED BY <1>2, <2>1, <2>2, <3>1, <3>2, <3>3 DEF RelocateReaches
  <2> QED BY <1>1, <1>2, <2>1, <2>3, <2>4, <2>5 DEF CompactInv, CompactedHeap
<1>8. CASE scan \in marked
  <2>1. PICK c : c = scan OBVIOUS
  <2>2. PICK g \in Nat :
           /\ g = f + ObjSize(c)
           /\ f \in Dom' /\ objs'[f] = objs[c] /\ fwd'[f] = fwd[c] /\ f \notin marked'
           /\ Dom' \subseteq Dom \cup {f} /\ marked' \subseteq marked
           /\ \A a \in Dom' \ {f} : objs'[a] = objs[a] /\ fwd'[a] = fwd[a]
           /\ Before(g)' = Before(f) \cup {f}
           /\ \A a \in Dom : NextObj(c) <= a => a \in Dom' /\ a # f
    BY <1>2, <1>3, <1>8, <2>1, MovedObject
  <2>3. g <= free_ptr /\ f <= g /\ RelocatedTo(g)' /\ c \in Waiting /\ Waiting' = Waiting \ {c}
    BY <1>2, <1>3, <1>8, <2>1, <2>2, RelocateMoves
  <2>4. NewAddress(c) = f /\ c \in Dom /\ f <= c
    BY <1>1, <1>2, <1>3, <1>8, <2>1, FirstWaiting
  <2>5. \A a \in Waiting' : a \in Dom' /\ a # f /\ a \in Waiting /\ objs'[a] = objs[a] /\ c < a
                            /\ NewAddress(a)' = NewAddress(a)
    <3> TAKE a \in Waiting'
    <3>1. a \in Waiting /\ a # c /\ a \in Dom BY <1>3, <2>3 DEF Waiting
    <3>2. NextObj(c) <= a /\ c < a
      <4>1. \A x \in Dom : NextObj(scan) <= x <=> scan <= x /\ x # scan
        BY <1>1, <1>2, AheadFacts
      <4>2. c <= a BY <2>1, <3>1 DEF Waiting
      <4> QED BY <1>3, <2>1, <2>4, <3>1, <4>1, <4>2
    <3>3. a \in Dom' /\ a # f BY <2>2, <3>1, <3>2
    <3> QED BY <1>1, <2>2, <3>1, <3>2, <3>3 DEF NewAddress
  <2>6. \A a \in Before(f) : a < f /\ a \in Dom /\ a \in Dom' /\ a # f /\ objs'[a] = objs[a]
    <3> TAKE a \in Before(f)
    <3>1. a < f /\ a \in Dom /\ a \in Nat BY <1>3 DEF Before
    <3>2. a \in Dom' BY <2>2 DEF Before
    <3> QED BY <1>3, <2>2, <3>1, <3>2
  <2>7. OrderInv'
    <3>1. \A a \in Dom' : objs'[a].id <= cur_id' BY <1>6, <2>2, <2>4
    <3> QED BY <1>1, <3>1 DEF OrderInv
  <2>8. EvenInv'
    <3>1. \A a \in Waiting' : Even(NewAddress(a)') BY <1>1, <1>6, <2>5 DEF EvenInv
    <3> QED BY <1>1, <3>1 DEF EvenInv
  <2>9. InOrder(Before(g) \cup Waiting)'
    <3> SUFFICES ASSUME NEW a \in Before(f) \cup {f} \cup Waiting',
                        NEW b \in Before(f) \cup {f} \cup Waiting', a < b
                 PROVE  objs'[a].id < objs'[b].id
      BY <2>2 DEF InOrder
    <3> DEFINE was(x) == IF x = f THEN c ELSE x
    <3>1. \A x \in Before(f) \cup {f} \cup Waiting' :
             was(x) \in Before(f) \cup Waiting /\ objs'[x] = objs[was(x)]
      BY <2>2, <2>3, <2>5, <2>6
    <3>2. was(a) < was(b)
      <4>1. a \in Nat /\ b \in Nat /\ c \in Nat BY <1>3, <2>4, <2>5, <2>6 DEF Waiting
      <4>2. CASE b = f
        <5>1. a \in Before(f)
          <6>1. a \notin Waiting' BY <1>3, <2>4, <2>5, <4>1, <4>2
          <6> QED BY <1>3, <4>2, <6>1
        <5> QED BY <2>4, <2>6, <4>1, <4>2, <5>1, <1>3
      <4>3. CASE a = f /\ b # f
        <5>1. b \in Waiting' BY <1>3, <2>6, <4>1, <4>3
        <5> QED BY <2>5, <4>3, <5>1
      <4>4. CASE a # f /\ b # f BY <4>4
      <4> QED BY <4>2, <4>3, <4>4
    <3> HIDE DEF was
    <3>3. objs[was(a)].id < objs[was(b)].id BY <1>2, <3>1, <3>2 DEF InOrder
    <3> QED BY <3>1, <3>3
  <2>10. RelocateReaches(g)'
    <3> SUFFICES ASSUME NEW S \in SUBSET Nat, Targets(RootSet)' \subseteq S,
                        \A a \in Before(g)' : a \in S => Targets(FieldWords(a))' \subseteq S,
                        \A a \in Waiting' : NewAddress(a)' \in S => Targets(FieldWords(a))' \subseteq S
                 PROVE  (Before(g) \cup NewAddresses(Waiting))' \subseteq S
      BY DEF RelocateReaches
    <3>1. Targets(RootSet) \subseteq S BY <1>1, <1>5 DEF Targets, IsValidHeapPointer
    <3>2. \A a \in Before(f) : a \in S => Targets(FieldWords(a)) \subseteq S
      <4> SUFFICES ASSUME NEW a \in Before(f), a \in S PROVE Targets(FieldWords(a)) \subseteq S
        OBVIOUS
      <4>1. FieldWords(a)' = FieldWords(a) BY <2>6 DEF FieldWords
      <4>2. Targets(FieldWords(a))' \subseteq S BY <2>2
      <4> QED BY <1>1, <4>1, <4>2 DEF Targets, IsValidHeapPointer
    <3>3. \A a \in Waiting : NewAddress(a) \in S => Targets(FieldWords(a)) \subseteq S
      <4> SUFFICES ASSUME NEW a \in Waiting, NewAddress(a) \in S
                   PROVE  Targets(FieldWords(a)) \subseteq S
        OBVIOUS
      <4>1. CASE a = c
        <5>1. FieldWords(f)' = FieldWords(c) BY <2>2 DEF FieldWords
        <5>2. Targets(FieldWords(f))' \subseteq S BY <2>2, <2>4, <4>1
        <5> QED BY <1>1, <4>1, <5>1, <5>2 DEF Targets, IsValidHeapPointer
      <4>2. CASE a # c
        <5>1. a \in Waiting' BY <2>3, <4>2
        <5>2. FieldWords(a)' = FieldWords(a) BY <2>5, <5>1 DEF FieldWords
        <5>3. Targets(FieldWords(a))' \subseteq S BY <2>5, <5>1
        <5> QED BY <1>1, <5>2, <5>3 DEF Targets, IsValidHeapPointer
      <4> QED BY <4>1, <4>2
    <3>4. Before(f) \cup NewAddresses(Waiting) \subseteq S
      BY <1>2, <3>1, <3>2, <3>3 DEF RelocateReaches
    <3>5. f \in S BY <2>3, <2>4, <3>4 DEF NewAddresses
    <3>6. NewAddresses(Waiting)' \subseteq S BY <2>5, <3>4 DEF NewAddresses
    <3> QED BY <2>2, <3>4, <3>5, <3>6
  <2>11. g \in (heap.begin..free_ptr)' BY <1>1, <1>2, <1>3, <2>2, <2>3
  <2> QED BY <1>1, <2>3, <2>7, <2>8, <2>9, <2>10, <2>11 DEF CompactInv, CompactedHeap
<1> QED BY <1>7, <1>8

\* The heap ends where the last live object does: what is left is what the roots
\* reach.
LEMMA CompactPhaseDoneLeaves == ASSUME Inv, CompactInv, CompactPhaseDone PROVE CompactInv'
<1> USE DEF roots, call, queue
<1>1. /\ pc = "relocate" /\ pc' = "retry" /\ scan >= heap.current
      /\ heap' = [heap EXCEPT !.current = free_ptr]
      /\ objs' = [a \in {x \in Dom : x < free_ptr} |-> objs[a]]
      /\ UNCHANGED <<roots, call, root, queue>>
  BY DEF CompactPhaseDone, Dom
<1>2. TypeOK /\ NewChunkInv /\ CallInv /\ Inv' BY CompactPhaseDoneStep DEF Inv
<1>3. /\ heap \in Chunk /\ heap.begin \in Nat /\ heap.current \in Nat
      /\ free_ptr \in Nat /\ scan \in Nat /\ heap.begin \in Bases
      /\ Dom \subseteq Nat /\ marked \subseteq Dom /\ free_ptr <= heap.current
  BY <1>1, <1>2, TypeFacts DEF TypeOK, NewChunkInv
<1>4. PICK f \in heap.begin..free_ptr :
        RelocatedTo(f) /\ InOrder(Before(f) \cup Waiting) /\ RelocateReaches(f)
  BY <1>1 DEF CompactInv
<1>5. Waiting = {}
  <2>1. Tiles(Ahead, scan, heap.current) BY <1>4 DEF RelocatedTo
  <2> SUFFICES ASSUME NEW a \in Waiting PROVE FALSE OBVIOUS
  <2>2. a \in Dom /\ scan <= a /\ a \in Ahead BY <1>3 DEF Waiting, Ahead
  <2>3. NextObj(a) <= heap.current BY <2>1, <2>2 DEF Tiles
  <2>4. NextObj(a) = a + ObjSize(a) /\ ObjSize(a) \in Nat /\ ObjSize(a) >= 4 /\ a \in Nat
    BY <1>2, <2>2, ObjSizeFacts
  <2> QED BY <1>1, <1>3, <2>2, <2>3, <2>4
<1>6. free_ptr = f BY <1>4, <1>5 DEF RelocatedTo, Slides
<1>7. /\ Dom' = Before(f) /\ Before(f) \subseteq Dom
      /\ \A a \in Dom' : objs'[a] = objs[a]
  BY <1>1, <1>6 DEF Dom, Before
<1>8. heap'.begin = heap.begin /\ heap'.current = f BY <1>1, <1>3, <1>6 DEF Chunk
<1>9. OrderInv' BY <1>1, <1>4, <1>7 DEF CompactInv, OrderInv, InOrder
<1>10. EvenInv' BY <1>1 DEF EvenInv
<1>11. ASSUME NEW w \in Nat, LeadsInPlace(w, f), IsValidHeapPointer(w)
       PROVE  Header(w) \in Before(f) /\ IsValidHeapPointer(w)'
  <2>1. ~UNBOXED(w) /\ heap.begin <= w BY <1>11 DEF IsValidHeapPointer
  <2>2. ~Small(w) BY <1>3, <2>1 DEF Small
  <2>3. Header(w) \in Before(f) BY <1>5, <1>11, <2>1, <2>2 DEF LeadsInPlace, NewWord
  <2>4. PICK a \in Before(f) : w = a + 4
    BY <1>3, <2>3 DEF Header, DATA_HEADER_SZ, WORD, Before
  <2>5. NextObj(a) <= f BY <1>4 DEF RelocatedTo, Tiles
  <2>6. a \in Dom /\ NextObj(a) = a + ObjSize(a) /\ ObjSize(a) \in Nat /\ ObjSize(a) >= 4 /\ a \in Nat
    BY <1>2, <1>7, ObjSizeFacts
  <2>7. w <= f BY <1>3, <1>6, <2>4, <2>5, <2>6
  <2> QED BY <1>8, <2>1, <2>3, <2>7 DEF IsValidHeapPointer
<1>12. RootSet' = RootSet BY <1>1 DEF RootSet, RootWords, Deref
<1>13. \A w \in RootSet : w \in Nat /\ LeadsInPlace(w, f)
  <2> TAKE w \in RootSet
  <2>1. PICK i \in DOMAIN RootWords : w = RootWords[i] BY DEF RootSet
  <2>2. w \in Nat /\ w \in StackWords \cup {cells.arg, cells.content}
    BY <1>2, <2>1, RootWordsFacts
  <2> QED BY <1>4, <2>2 DEF RelocatedTo
<1>14. \A a \in Before(f) : /\ FieldWords(a)' = FieldWords(a)
                            /\ \A w \in FieldWords(a) : w \in Nat /\ LeadsInPlace(w, f)
  <2> TAKE a \in Before(f)
  <2>1. FieldWords(a)' = FieldWords(a) BY <1>7 DEF FieldWords
  <2>2. FieldWords(a) \subseteq Nat BY <1>2, <1>7, FieldFacts
  <2> QED BY <1>4, <2>1, <2>2 DEF RelocatedTo
<1>15. ASSUME NEW a \in Dom', NEW S \in SUBSET Dom',
              Targets(RootSet)' \subseteq S, ClosedUnderFields(S)'
       PROVE  a \in S
  <2>1. Targets(RootSet) \subseteq S
    <3> SUFFICES ASSUME NEW w \in RootSet, IsValidHeapPointer(w) PROVE Header(w) \in S
      BY DEF Targets
    <3>1. IsValidHeapPointer(w)' BY <1>11, <1>13
    <3> QED BY <1>12, <1>15, <3>1 DEF Targets
  <2>2. \A x \in Before(f) : x \in S => Targets(FieldWords(x)) \subseteq S
    <3> SUFFICES ASSUME NEW x \in Before(f), x \in S, NEW w \in FieldWords(x), IsValidHeapPointer(w)
                 PROVE  Header(w) \in S
      BY DEF Targets
    <3>1. IsValidHeapPointer(w)' BY <1>11, <1>14
    <3>2. Targets(FieldWords(x))' \subseteq S BY <1>15 DEF ClosedUnderFields
    <3> QED BY <1>14, <3>1, <3>2 DEF Targets
  <2>3. S \in SUBSET Nat BY <1>3, <1>7
  <2>4. Before(f) \cup NewAddresses(Waiting) \subseteq S
    BY <1>4, <1>5, <2>1, <2>2, <2>3 DEF RelocateReaches
  <2> QED BY <1>7, <2>4
<1>16. CompactedHeap'
  <2>1. (DOMAIN objs)' = ReachableObjs' BY <1>15 DEF ReachableObjs, Dom
  <2>2. marked' = {} /\ enqueued' = {} BY <1>1, <1>2 DEF Inv, BitsInv
  <2>3. \A a, b \in (DOMAIN objs)' : a < b => objs'[a].id < objs'[b].id
    BY <1>1, <1>9 DEF OrderInv, InOrder, Dom
  <2> QED BY <2>1, <2>2, <2>3 DEF CompactedHeap
<1> QED BY <1>1, <1>9, <1>10, <1>16 DEF CompactInv

-----------------------------------------------------------------------------

\* A step that changes nothing.
LEMMA CompactStutter == ASSUME CompactInv, UNCHANGED vars PROVE CompactInv'
<1> USE DEF vars, memory, chunks, roots, call, queue, slide
<1>1. /\ Dom' = Dom /\ Waiting' = Waiting /\ Placed' = Placed /\ Ahead' = Ahead
      /\ \A x : Before(x)' = Before(x)
      /\ \A a : /\ NewAddress(a)' = NewAddress(a) /\ FieldWords(a)' = FieldWords(a)
                /\ NextObj(a)' = NextObj(a) /\ ObjSize(a)' = ObjSize(a) /\ Target(a)' = Target(a)
      /\ StackWords' = StackWords /\ RootSet' = RootSet
      /\ \A W : Targets(W)' = Targets(W)
      /\ \A w : Fixed(w)' = Fixed(w)
  BY DEF Dom, Waiting, Placed, Ahead, Before, NewAddress, FieldWords, NextObj, ObjSize, Target,
         StackWords, RootSet, RootWords, Deref, Targets, IsValidHeapPointer, Fixed, InOldHeap
<1>2. OrderInv' /\ EvenInv' BY <1>1 DEF CompactInv, OrderInv, InOrder, EvenInv
<1>3. UpdateReaches => UpdateReaches'
  <2>1. \A W : Targets(FixedWords(W))' = Targets(FixedWords(W))
    BY <1>1 DEF FixedWords, Targets, IsValidHeapPointer
  <2>2. \A a : NewFields(a)' = NewFields(a) BY <1>1 DEF NewFields, FixedWords
  <2>3. \A a : Targets(NewFields(a))' = Targets(NewFields(a))
    BY <2>2 DEF Targets, IsValidHeapPointer
  <2>4. NewAddresses(marked)' = NewAddresses(marked) BY <1>1 DEF NewAddresses
  <2>5. Targets(FixedWords(RootSet))' = Targets(FixedWords(RootSet))
    BY <1>1 DEF FixedWords, Targets, IsValidHeapPointer
  <2> QED BY <1>1, <2>3, <2>4, <2>5 DEF UpdateReaches
<1>4. \A f : InOrder(Before(f) \cup Waiting)' <=> InOrder(Before(f) \cup Waiting)
  BY <1>1 DEF InOrder
<1>5. \A f : RelocateReaches(f) => RelocateReaches(f)'
  <2>1. \A a : Targets(FieldWords(a))' = Targets(FieldWords(a))
    BY <1>1 DEF Targets, IsValidHeapPointer
  <2>2. Targets(RootSet)' = Targets(RootSet) BY <1>1 DEF Targets, IsValidHeapPointer
  <2>3. NewAddresses(Waiting)' = NewAddresses(Waiting) BY <1>1 DEF NewAddresses
  <2> QED BY <1>1, <2>1, <2>2, <2>3 DEF RelocateReaches
<1>6. \A f : RelocatedTo(f) => RelocatedTo(f)'
  <2> SUFFICES ASSUME NEW f, RelocatedTo(f) PROVE RelocatedTo(f)' OBVIOUS
  <2>1. \A w : LeadsInPlace(w, f)' <=> LeadsInPlace(w, f)
    BY <1>1 DEF LeadsInPlace, NewWord, Small
  <2>2. Tiles(Before(f), heap.begin, f)' <=> Tiles(Before(f), heap.begin, f) BY <1>1 DEF Tiles
  <2>3. Tiles(Ahead, scan, heap.current)' <=> Tiles(Ahead, scan, heap.current) BY <1>1 DEF Tiles
  <2>4. Slides(Waiting, f)' <=> Slides(Waiting, f) BY <1>1 DEF Slides
  <2> QED BY <1>1, <2>1, <2>2, <2>3, <2>4 DEF RelocatedTo
<1>7. CompactedHeap'
  <2>1. \A S : ClosedUnderFields(S)' <=> ClosedUnderFields(S)
    BY <1>1 DEF ClosedUnderFields, Targets, IsValidHeapPointer
  <2>2. Targets(RootSet)' = Targets(RootSet) BY <1>1 DEF Targets, IsValidHeapPointer
  <2>3. ReachableObjs' = ReachableObjs BY <2>1, <2>2 DEF ReachableObjs
  <2> QED BY <2>3 DEF CompactInv, CompactedHeap
<1> QED BY <1>2, <1>3, <1>4, <1>5, <1>6, <1>7 DEF CompactInv

\* Every step preserves what the compaction relies on.
LEMMA CompactNext == ASSUME Inv, CompactInv, [Next]_vars PROVE CompactInv'
<1>1. CASE Client BY <1>1, IdleSteps, StoreSteps DEF Client
<1>2. CASE Mark BY <1>2, IdleSteps
<1>3. CASE Compact
  BY <1>3, IdleSteps, MapReaches, UpdateObjectReaches, UpdateRootsReaches, RelocateReachesOn,
     CompactPhaseDoneLeaves DEF Compact
<1>4. CASE Runtime BY <1>2, <1>3, <1>4, IdleSteps, StoreSteps, AllocOrdered DEF Runtime
<1>5. CASE Exited \/ UNCHANGED vars BY <1>5, CompactStutter DEF Exited
<1> QED BY <1>1, <1>4, <1>5 DEF Next

\* A finished collection leaves exactly the reachable objects, in the order they
\* were allocated in, and no bit set (compact_phase, gc.c 276-302).
THEOREM CollectionIsExact == Spec => []CompactedHeap
<1>1. Init => CompactInv BY CompactInit
<1>2. Inv /\ CompactInv /\ [Next]_vars => CompactInv' BY CompactNext
<1>3. CompactInv => CompactedHeap BY DEF CompactInv
<1> QED BY <1>1, <1>2, <1>3, Invariance, PTL DEF Spec
==============================================================================
