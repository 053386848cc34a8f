--------------------------- MODULE FrameRootsProofs ---------------------------
(***************************************************************************)
(* FrameRoots's properties hold for every stack, table of strings, depth   *)
(* of calls and size of pages: the invariant says where the frames lie,    *)
(* which words a collection follows, and which pages the chunks take.      *)
(***************************************************************************)
EXTENDS FrameRoots, InductionFacts, FiniteSetTheorems

-----------------------------------------------------------------------------
(* The sizes of a set of objects: a fold of the community modules. *)

SizeIn(o, S) == MapThenSumSet(LAMBDA a : o[a].size, S)

\* iter computes the sizes of the subsets of S, one object after the other.
Sums(o, S, iter) ==
  iter = [s \in SUBSET S |->
            IF s = {} THEN 0
            ELSE o[CHOOSE x \in s : TRUE].size + iter[s \ {CHOOSE x \in s : TRUE}]]

\* A recursion over finite sets has a solution.
LEMMA SumsExist ==
  ASSUME NEW o, NEW S, IsFiniteSet(S)
  PROVE  \E iter : Sums(o, S, iter)
<1> DEFINE c(s) == CHOOSE x \in s : TRUE
           Sub(n) == {s \in SUBSET S : Cardinality(s) <= n}
           Sat(g, n) == g = [s \in Sub(n) |-> IF s = {} THEN 0 ELSE o[c(s)].size + g[s \ {c(s)}]]
           T == {n \in Nat : \E g : Sat(g, n)}
<1>1. \A s \in SUBSET S : IsFiniteSet(s) /\ Cardinality(s) \in Nat
  BY FS_Subset, FS_CardinalityType
<1>2. \A s \in SUBSET S : s # {} => /\ c(s) \in s /\ s \ {c(s)} \in SUBSET S
                                    /\ Cardinality(s \ {c(s)}) = Cardinality(s) - 1
  <2> SUFFICES ASSUME NEW s \in SUBSET S, s # {}
               PROVE  c(s) \in s /\ Cardinality(s \ {c(s)}) = Cardinality(s) - 1
    OBVIOUS
  <2>1. c(s) \in s OBVIOUS
  <2> HIDE DEF c
  <2> QED BY <1>1, <2>1, FS_RemoveElement
<1> HIDE DEF c
<1>3. 0 \in T
  <2>1. Sub(0) = {{}}
    <3>1. \A s \in Sub(0) : s = {} BY <1>1, FS_EmptySet
    <3>2. {} \in Sub(0) BY FS_EmptySet
    <3> QED BY <3>1, <3>2
  <2>2. PICK g : g = [s \in Sub(0) |-> 0] OBVIOUS
  <2>3. \E f : Sat(f, 0) BY <2>1, <2>2
  <2> HIDE DEF Sat
  <2> QED BY <2>3
<1>4. ASSUME NEW n \in Nat, n \in T PROVE n + 1 \in T
  <2>1. PICK g : Sat(g, n) BY <1>4
  <2>2. PICK h : h = [s \in Sub(n + 1) |-> IF s = {} THEN 0 ELSE o[c(s)].size + g[s \ {c(s)}]]
    OBVIOUS
  <2>3. \A s \in Sub(n) : s \in Sub(n + 1) BY <1>1
  <2>4. \A s \in Sub(n) : h[s] = g[s] BY <2>1, <2>2, <2>3
  <2>5. \A s \in Sub(n + 1) : s # {} => s \ {c(s)} \in Sub(n) BY <1>1, <1>2
  <2>6. \A s \in Sub(n + 1) : h[s] = IF s = {} THEN 0 ELSE o[c(s)].size + h[s \ {c(s)}]
    BY <2>2, <2>4, <2>5
  <2>7. \E f : Sat(f, n + 1) BY <2>2, <2>6, ZenonT(40)
  <2> HIDE DEF Sat
  <2>8. n + 1 \in Nat OBVIOUS
  <2> QED BY <2>7, <2>8, Zenon
<1> HIDE DEF T
<1>5. Nat \subseteq T BY <1>3, <1>4, SetInduction
<1>6. PICK n \in Nat : n = Cardinality(S) BY <1>1
<1>7. PICK g : Sat(g, n) BY <1>5, <1>6 DEF T
<1>8. Sub(n) = SUBSET S BY <1>1, <1>6, FS_Subset
<1>9. g = [s \in SUBSET S |-> IF s = {} THEN 0 ELSE o[c(s)].size + g[s \ {c(s)}]]
  BY <1>7, <1>8
<1> QED BY <1>9 DEF c, Sums

Sized(o, S) == IsFiniteSet(S) /\ \A a \in S : o[a].size \in Nat

Additive(o, S, g) ==
  /\ g[{}] = 0
  /\ \A s \in SUBSET S : g[s] \in Nat /\ \A x \in s : g[s] = o[x].size + g[s \ {x}]

\* The order in which the objects are taken does not matter.
LEMMA SumsStep ==
  ASSUME NEW o, NEW S, Sized(o, S), NEW g, Sums(o, S, g)
  PROVE  Additive(o, S, g)
<1>0. IsFiniteSet(S) /\ \A a \in S : o[a].size \in Nat BY DEF Sized
<1> DEFINE c(s) == CHOOSE x \in s : TRUE
           T == {n \in Nat : \A s \in SUBSET S : Cardinality(s) <= n =>
                   g[s] \in Nat /\ \A x \in s : g[s] = o[x].size + g[s \ {x}]}
<1>1. \A s \in SUBSET S : IsFiniteSet(s) /\ Cardinality(s) \in Nat
  BY <1>0, FS_Subset, FS_CardinalityType
<1>2. \A s \in SUBSET S : g[s] = IF s = {} THEN 0 ELSE o[c(s)].size + g[s \ {c(s)}]
  BY DEF Sums
<1>3. \A s \in SUBSET S : s # {} => c(s) \in s OBVIOUS
<1>4. \A s \in SUBSET S : \A x \in s : /\ s \ {x} \in SUBSET S
                                       /\ Cardinality(s \ {x}) = Cardinality(s) - 1
  BY <1>1, FS_RemoveElement
<1> HIDE DEF c
<1>5. 0 \in T
  <2> SUFFICES ASSUME NEW s \in SUBSET S, Cardinality(s) <= 0
               PROVE  g[s] \in Nat /\ \A x \in s : g[s] = o[x].size + g[s \ {x}]
    OBVIOUS
  <2>1. s = {} BY <1>1, FS_EmptySet
  <2> QED BY <1>2, <2>1
<1>6. ASSUME NEW n \in Nat, n \in T PROVE n + 1 \in T
  <2> SUFFICES ASSUME NEW s \in SUBSET S, Cardinality(s) <= n + 1
               PROVE  g[s] \in Nat /\ \A x \in s : g[s] = o[x].size + g[s \ {x}]
    OBVIOUS
  <2>1. CASE s = {}
    <3>1. g[s] = 0 /\ 0 \in Nat BY <1>2, <2>1
    <3> QED BY <2>1, <3>1
  <2>2. CASE s # {}
    <3>1. PICK y \in s : y = c(s) BY <1>3, <2>2
    <3>2. g[s] = o[y].size + g[s \ {y}] BY <1>2, <2>2, <3>1
    <3>3. \A x \in s : s \ {x} \in SUBSET S /\ Cardinality(s \ {x}) <= n BY <1>1, <1>4
    <3>4. g[s \ {y}] \in Nat /\ o[y].size \in Nat BY <1>0, <1>6, <3>3
    <3>5. ASSUME NEW x \in s, x # y PROVE g[s] = o[x].size + g[s \ {x}]
      <4>1. x \in s \ {y} /\ y \in s \ {x} BY <3>5
      <4>2. g[s \ {y}] = o[x].size + g[(s \ {y}) \ {x}] BY <1>6, <3>3, <4>1
      <4>3. g[s \ {x}] = o[y].size + g[(s \ {x}) \ {y}] BY <1>6, <3>3, <4>1
      <4>4. (s \ {y}) \ {x} = (s \ {x}) \ {y} OBVIOUS
      <4>5. g[(s \ {y}) \ {x}] \in Nat
        <5>1. (s \ {y}) \ {x} \in SUBSET S OBVIOUS
        <5>2. Cardinality((s \ {y}) \ {x}) = Cardinality(s \ {y}) - 1
          BY <1>4, <3>3, <4>1
        <5>3. Cardinality(s \ {y}) \in Nat /\ Cardinality((s \ {y}) \ {x}) <= n
          BY <1>1, <3>3, <5>1, <5>2
        <5> QED BY <1>6, <5>1, <5>3
      <4>6. PICK u \in Nat, v \in Nat, w \in Nat :
              u = o[x].size /\ v = o[y].size /\ w = g[(s \ {y}) \ {x}]
        BY <1>0, <4>5
      <4>7. g[s] = v + (u + w) /\ g[s \ {x}] = v + w BY <3>2, <4>2, <4>3, <4>4, <4>6
      <4> QED BY <4>6, <4>7
    <3>6. g[s] \in Nat BY <3>2, <3>4
    <3> QED BY <3>2, <3>5, <3>6
  <2> QED BY <2>1, <2>2
<1> HIDE DEF T
<1>7. Nat \subseteq T BY <1>5, <1>6, SetInduction
<1>8. g[{}] = 0 BY <1>2
<1>9. ASSUME NEW s \in SUBSET S
      PROVE  g[s] \in Nat /\ \A x \in s : g[s] = o[x].size + g[s \ {x}]
  <2>1. PICK n \in Nat : n = Cardinality(s) BY <1>1
  <2>2. Cardinality(s) <= n BY <2>1
  <2>3. n \in T BY <1>7
  <2> QED BY <2>2, <2>3 DEF T
<1> QED BY <1>8, <1>9 DEF Additive

\* Recursions over a set and over a part of it agree on the part.
LEMMA SumsAgree ==
  ASSUME NEW o, NEW S, IsFiniteSet(S), NEW R \in SUBSET S,
         NEW g, Sums(o, S, g), NEW h, Sums(o, R, h)
  PROVE  \A s \in SUBSET R : g[s] = h[s]
<1> DEFINE c(s) == CHOOSE x \in s : TRUE
           T == {n \in Nat : \A s \in SUBSET R : Cardinality(s) <= n => g[s] = h[s]}
<1>1. \A s \in SUBSET R : IsFiniteSet(s) /\ Cardinality(s) \in Nat
  BY FS_Subset, FS_CardinalityType
<1>2. \A s \in SUBSET R : /\ g[s] = IF s = {} THEN 0 ELSE o[c(s)].size + g[s \ {c(s)}]
                          /\ h[s] = IF s = {} THEN 0 ELSE o[c(s)].size + h[s \ {c(s)}]
  <2>1. \A s \in SUBSET R : s \in SUBSET S OBVIOUS
  <2> QED BY <2>1 DEF Sums
<1>3. \A s \in SUBSET R : s # {} => c(s) \in s OBVIOUS
<1> HIDE DEF c
<1>4. \A s \in SUBSET R : s # {} => /\ s \ {c(s)} \in SUBSET R
                                    /\ Cardinality(s \ {c(s)}) = Cardinality(s) - 1
  BY <1>1, <1>3, FS_RemoveElement
<1>5. 0 \in T
  <2>1. \A s \in SUBSET R : Cardinality(s) <= 0 => s = {} BY <1>1, FS_EmptySet
  <2>2. \A s \in SUBSET R : Cardinality(s) <= 0 => g[s] = h[s] BY <1>2, <2>1
  <2> QED BY <2>2
<1>6. ASSUME NEW n \in Nat, n \in T PROVE n + 1 \in T
  <2> SUFFICES ASSUME NEW s \in SUBSET R, Cardinality(s) <= n + 1
               PROVE  g[s] = h[s]
    OBVIOUS
  <2>1. CASE s = {} BY <1>2, <2>1
  <2>2. CASE s # {}
    <3>1. s \ {c(s)} \in SUBSET R /\ Cardinality(s \ {c(s)}) <= n BY <1>1, <1>4, <2>2
    <3>2. g[s \ {c(s)}] = h[s \ {c(s)}] BY <1>6, <3>1
    <3> QED BY <1>2, <2>2, <3>2
  <2> QED BY <2>1, <2>2
<1> HIDE DEF T
<1>7. Nat \subseteq T BY <1>5, <1>6, SetInduction
<1>8. ASSUME NEW s \in SUBSET R PROVE g[s] = h[s]
  <2>1. PICK n \in Nat : n = Cardinality(s) BY <1>1
  <2>2. Cardinality(s) <= n BY <2>1
  <2>3. n \in T BY <1>7
  <2> QED BY <2>2, <2>3 DEF T
<1> QED BY <1>8

\* The fold is such a recursion.
LEMMA SizeIsSum ==
  ASSUME NEW o, NEW S, IsFiniteSet(S)
  PROVE  \E g : Sums(o, S, g) /\ SizeIn(o, S) = g[S]
<1> DEFINE it == CHOOSE iter :
                   iter = [s \in SUBSET S |->
                             IF s = {} THEN 0
                             ELSE o[CHOOSE x \in s : TRUE].size
                                    + iter[s \ {CHOOSE x \in s : TRUE}]]
<1>1. SizeIn(o, S) = it[S] BY Zenon DEF SizeIn, MapThenSumSet, MapThenFoldSet
<1>2. \E iter : Sums(o, S, iter) BY SumsExist
<1>3. Sums(o, S, it) BY <1>2, Zenon DEF Sums
<1> HIDE DEF it
<1> QED BY <1>1, <1>3

\* One object less takes its words less.
LEMMA SizeStep ==
  ASSUME NEW o, NEW S, Sized(o, S)
  PROVE  /\ SizeIn(o, S) \in Nat
         /\ S = {} => SizeIn(o, S) = 0
         /\ \A x \in S : SizeIn(o, S) = o[x].size + SizeIn(o, S \ {x})
<1>0. IsFiniteSet(S) /\ \A a \in S : o[a].size \in Nat BY DEF Sized
<1>1. PICK g : Sums(o, S, g) /\ SizeIn(o, S) = g[S] BY <1>0, SizeIsSum
<1>2. \A s \in SUBSET S : g[s] \in Nat /\ \A x \in s : g[s] = o[x].size + g[s \ {x}]
  <2>1. Additive(o, S, g) BY <1>1, SumsStep
  <2> QED BY <2>1 DEF Additive
<1>3. S \in SUBSET S OBVIOUS
<1>4. g[S] \in Nat /\ g[{}] = 0 BY <1>1, <1>2, <1>3, SumsStep DEF Additive
<1>5. ASSUME NEW x \in S PROVE SizeIn(o, S) = o[x].size + SizeIn(o, S \ {x})
  <2>1. IsFiniteSet(S \ {x}) /\ S \ {x} \in SUBSET S BY <1>0, FS_Subset
  <2>2. PICK h : Sums(o, S \ {x}, h) /\ SizeIn(o, S \ {x}) = h[S \ {x}] BY <2>1, SizeIsSum
  <2>3. g[S \ {x}] = h[S \ {x}]
    <3>1. S \ {x} \in SUBSET (S \ {x}) OBVIOUS
    <3> QED BY <1>0, <1>1, <2>1, <2>2, <3>1, SumsAgree
  <2>4. g[S] = o[x].size + g[S \ {x}] BY <1>2, <1>3
  <2> QED BY <1>1, <2>2, <2>3, <2>4
<1> QED BY <1>1, <1>4, <1>5

\* More objects take more words.
LEMMA SizeMonotone ==
  ASSUME NEW o, NEW S, Sized(o, S), NEW R \in SUBSET S
  PROVE  SizeIn(o, R) <= SizeIn(o, S)
<1> DEFINE T == {n \in Nat : \A s \in SUBSET S :
                   R \subseteq s /\ Cardinality(s) <= n => SizeIn(o, R) <= SizeIn(o, s)}
<1>0. IsFiniteSet(S) BY DEF Sized
<1>1. \A s \in SUBSET S : /\ IsFiniteSet(s) /\ Cardinality(s) \in Nat
                          /\ Sized(o, s) /\ SizeIn(o, s) \in Nat
                          /\ s = {} => SizeIn(o, s) = 0
                          /\ \A x \in s : /\ SizeIn(o, s) = o[x].size + SizeIn(o, s \ {x})
                                          /\ s \ {x} \in SUBSET S
                                          /\ Cardinality(s \ {x}) = Cardinality(s) - 1
  <2> SUFFICES ASSUME NEW s \in SUBSET S
               PROVE  /\ IsFiniteSet(s) /\ Cardinality(s) \in Nat
                      /\ Sized(o, s) /\ SizeIn(o, s) \in Nat
                      /\ s = {} => SizeIn(o, s) = 0
                      /\ \A x \in s : /\ SizeIn(o, s) = o[x].size + SizeIn(o, s \ {x})
                                      /\ s \ {x} \in SUBSET S
                                      /\ Cardinality(s \ {x}) = Cardinality(s) - 1
    OBVIOUS
  <2>1. IsFiniteSet(s) /\ Cardinality(s) \in Nat BY <1>0, FS_Subset, FS_CardinalityType
  <2>2. Sized(o, s) BY <2>1 DEF Sized
  <2>3. \A x \in s : s \ {x} \in SUBSET S /\ Cardinality(s \ {x}) = Cardinality(s) - 1
    BY <2>1, FS_RemoveElement
  <2>4. /\ SizeIn(o, s) \in Nat
        /\ s = {} => SizeIn(o, s) = 0
        /\ \A x \in s : SizeIn(o, s) = o[x].size + SizeIn(o, s \ {x})
    BY <2>2, SizeStep
  <2> QED BY <2>1, <2>2, <2>3, <2>4
<1>2. 0 \in T
  <2> SUFFICES ASSUME NEW s \in SUBSET S, R \subseteq s, Cardinality(s) <= 0
               PROVE  SizeIn(o, R) <= SizeIn(o, s)
    OBVIOUS
  <2>1. s = {} BY <1>1, FS_EmptySet
  <2>2. R = s BY <2>1
  <2> QED BY <1>1, <2>2
<1>3. ASSUME NEW n \in Nat, n \in T PROVE n + 1 \in T
  <2> SUFFICES ASSUME NEW s \in SUBSET S, R \subseteq s, Cardinality(s) <= n + 1
               PROVE  SizeIn(o, R) <= SizeIn(o, s)
    OBVIOUS
  <2>1. CASE s = R BY <1>1, <2>1
  <2>2. CASE s # R
    <3>1. PICK x \in s : x \notin R BY <2>2
    <3>2. s \ {x} \in SUBSET S /\ Cardinality(s \ {x}) <= n /\ R \subseteq s \ {x}
      BY <1>1, <3>1
    <3>3. SizeIn(o, R) <= SizeIn(o, s \ {x}) BY <1>3, <3>2
    <3>4. SizeIn(o, s) = o[x].size + SizeIn(o, s \ {x}) BY <1>1
    <3>5. o[x].size \in Nat /\ SizeIn(o, R) \in Nat /\ SizeIn(o, s \ {x}) \in Nat
      BY <1>1, <3>2 DEF Sized
    <3> HIDE DEF SizeIn
    <3> QED BY <3>3, <3>4, <3>5
  <2> QED BY <2>1, <2>2
<1> HIDE DEF T
<1>4. Nat \subseteq T BY <1>2, <1>3, SetInduction
<1>5. PICK n \in Nat : n = Cardinality(S) BY <1>1
<1>6. n \in T /\ S \in SUBSET S /\ Cardinality(S) <= n BY <1>4, <1>5
<1> QED BY <1>6 DEF T

\* The bytes of a table are such a sum.
LEMMA BytesAreNat ==
  ASSUME NEW t \in Seq(Nat)
  PROVE  BytesOf(t) \in Nat
<1> DEFINE S == DOMAIN t
           o == [i \in S |-> [size |-> t[i] + 1]]
           it == CHOOSE iter :
                   iter = [s \in SUBSET S |->
                             IF s = {} THEN 0
                             ELSE t[CHOOSE x \in s : TRUE] + 1
                                    + iter[s \ {CHOOSE x \in s : TRUE}]]
<1>1. IsFiniteSet(S) /\ \A i \in S : t[i] \in Nat
  <2>1. S = 1..Len(t) /\ Len(t) \in Nat OBVIOUS
  <2>2. IsFiniteSet(1..Len(t)) BY <2>1, FS_Interval
  <2>3. \A i \in 1..Len(t) : t[i] \in Nat OBVIOUS
  <2> QED BY <2>1, <2>2, <2>3
<1>2. BytesOf(t) = it[S]
  BY Zenon DEF BytesOf, FoldFunction, FoldFunctionOnSet, MapThenFoldSet
<1>3. Sized(o, S) BY <1>1 DEF Sized
<1>4. PICK g : Sums(o, S, g) BY <1>1, SumsExist
<1>5. \A s \in SUBSET S : s # {} => /\ (CHOOSE x \in s : TRUE) \in S
                                    /\ o[CHOOSE x \in s : TRUE].size
                                         = t[CHOOSE x \in s : TRUE] + 1
  OBVIOUS
<1>6. g = [s \in SUBSET S |-> IF s = {} THEN 0
                              ELSE t[CHOOSE x \in s : TRUE] + 1
                                     + g[s \ {CHOOSE x \in s : TRUE}]]
  BY <1>4, <1>5 DEF Sums
<1>7. it = [s \in SUBSET S |-> IF s = {} THEN 0
                               ELSE t[CHOOSE x \in s : TRUE] + 1
                                      + it[s \ {CHOOSE x \in s : TRUE}]]
  BY <1>6, Zenon
<1> HIDE DEF it
<1>8. Sums(o, S, it) BY <1>5, <1>7 DEF Sums
<1> HIDE DEF o
<1>9. Additive(o, S, it) BY <1>3, <1>8, SumsStep
<1>10. S \in SUBSET S OBVIOUS
<1>11. it[S] \in Nat BY <1>9, <1>10 DEF Additive
<1> QED BY <1>2, <1>11

-----------------------------------------------------------------------------
(* Collections *)

HeapInv ==
  /\ heap \in [begin : Nat, end : Nat, current : Nat, size : Nat]
  /\ heap.end = heap.begin + heap.size
  /\ heap.begin <= heap.current /\ heap.current <= heap.end
  /\ IsFiniteSet(DOMAIN objs)
  /\ \A a \in DOMAIN objs : /\ a \in Nat /\ objs[a].size \in Nat /\ objs[a].size >= HEADER
                            /\ heap.begin <= a /\ a + objs[a].size <= heap.current

WordsInv ==
  /\ memory = [j \in Words |-> memory[j]] /\ top \in Int
  /\ \A j \in Words : IsPointer(memory[j]) => memory[j][2] \in Int

LEMMA Constants ==
  /\ {global_area_size, STACK, Depth, MINIMUM_HEAP_CAPACITY} \subseteq Nat
  /\ Lengths \cup NArgs \cup NLocals \cup Pages \subseteq Nat
  /\ {WORD, HEADER, PAGE} \subseteq Nat \ {0}
  /\ \A t \in Tables : /\ t \in Seq(Nat) /\ Len(t) \in Nat /\ BytesOf(t) \in Nat
                       /\ Len(t) < BytesOf(t)
                       /\ STACK - BytesOf(t) - global_area_size >= 3
<1>1. \A t \in Tables : t \in Seq(Nat) /\ Len(t) \in Nat BY FrameRootsAssumption
<1>2. \A t \in Tables : BytesOf(t) \in Nat BY <1>1, BytesAreNat
<1> QED BY <1>1, <1>2, FrameRootsAssumption

\* An object has a word for its contents at least.
LEMMA DivWord ==
  ASSUME NEW x \in Nat, NEW d \in Nat \ {0}
  PROVE  x \div d \in Nat
OBVIOUS

LEMMA ObjectSizes ==
  ASSUME NEW l \in Nat
  PROVE  ObjectSize(l) \in Nat /\ ObjectSize(l) >= HEADER
<1>1. (l + WORD) \div WORD \in Nat BY Constants, DivWord
<1> QED BY <1>1, Constants DEF ObjectSize

\* The objects a collection keeps are objects of the heap.
LEMMA LiveObjects ==
  ASSUME HeapInv, RootsAreContents
  PROVE  /\ Live \subseteq DOMAIN objs
         /\ \A S \in SUBSET Live : Sized(objs, S) /\ SizeIn(objs, S) \in Nat
         /\ \A S : SizeOf(S) = SizeIn(objs, S)
<1>1. Live \subseteq DOMAIN objs BY DEF Live, RootsAreContents, IsContent
<1>2. ASSUME NEW S \in SUBSET Live PROVE Sized(objs, S)
  <2>1. S \in SUBSET DOMAIN objs BY <1>1
  <2>2. IsFiniteSet(S) BY <2>1, FS_Subset DEF HeapInv
  <2> QED BY <2>1, <2>2 DEF Sized, HeapInv
<1>3. \A S : SizeOf(S) = SizeIn(objs, S) BY DEF SizeOf, SizeIn
<1> QED BY <1>1, <1>2, <1>3, SizeStep

\* Objects keep their order and do not meet: each ends before the next begins,
\* and before the object that is allocated.
LEMMA ForwardOrder ==
  ASSUME HeapInv, RootsAreContents, NEW begin \in Nat
  PROVE  /\ \A a \in Live : /\ Forward(a, begin) \in Nat /\ begin <= Forward(a, begin)
                            /\ Forward(a, begin) + objs[a].size <= begin + SizeOf(Live)
         /\ \A a, b \in Live : a < b =>
              Forward(a, begin) + objs[a].size <= Forward(b, begin)
<1> DEFINE Below(a) == {b \in Live : b < a}
<1>1. \A a \in Live : /\ Below(a) \in SUBSET Live
                      /\ Forward(a, begin) = begin + SizeIn(objs, Below(a))
                      /\ a \in Nat /\ objs[a].size \in Nat
  BY LiveObjects DEF Forward, HeapInv
<1>2. \A S \in SUBSET Live : SizeIn(objs, S) \in Nat BY LiveObjects
<1>3. ASSUME NEW a \in Live, NEW S \in SUBSET Live, a \in S, Below(a) \subseteq S
      PROVE  SizeIn(objs, Below(a)) + objs[a].size <= SizeIn(objs, S)
  <2>0. a \in Nat BY <1>1
  <2>1. a \notin Below(a) BY <2>0
  <2>2. Below(a) \in SUBSET (S \ {a}) /\ S \ {a} \in SUBSET Live BY <1>3, <2>1
  <2>3. SizeIn(objs, Below(a)) <= SizeIn(objs, S \ {a}) BY <2>2, LiveObjects, SizeMonotone
  <2>4. SizeIn(objs, S) = objs[a].size + SizeIn(objs, S \ {a})
    BY <1>3, LiveObjects, SizeStep
  <2> HIDE DEF SizeIn
  <2> QED BY <1>1, <1>2, <2>2, <2>3, <2>4
<1> HIDE DEF SizeIn
<1>4. ASSUME NEW a \in Live
      PROVE  /\ Forward(a, begin) \in Nat /\ begin <= Forward(a, begin)
             /\ Forward(a, begin) + objs[a].size <= begin + SizeOf(Live)
  <2>1. SizeIn(objs, Below(a)) + objs[a].size <= SizeIn(objs, Live) BY <1>3
  <2>2. SizeOf(Live) = SizeIn(objs, Live) BY LiveObjects
  <2>3. SizeIn(objs, Below(a)) \in Nat /\ SizeIn(objs, Live) \in Nat BY <1>1, <1>2
  <2> HIDE DEF Below
  <2> QED BY <1>1, <2>1, <2>2, <2>3
<1>5. ASSUME NEW a \in Live, NEW b \in Live, a < b
      PROVE  Forward(a, begin) + objs[a].size <= Forward(b, begin)
  <2>0. \A x \in Live : x < a => x < b
    <3>1. \A x \in Live : x \in Nat BY <1>1
    <3> QED BY <1>5, <3>1
  <2>1. a \in Below(b) /\ Below(a) \subseteq Below(b) BY <1>5, <2>0
  <2>2. SizeIn(objs, Below(a)) + objs[a].size <= SizeIn(objs, Below(b)) BY <1>1, <1>3, <2>1
  <2>3. SizeIn(objs, Below(a)) \in Nat /\ SizeIn(objs, Below(b)) \in Nat BY <1>1, <1>2
  <2> HIDE DEF Below
  <2> QED BY <1>1, <2>2, <2>3
<1> QED BY <1>4, <1>5

LEMMA NextSizes ==
  ASSUME HeapInv, RootsAreContents, NEW n \in Nat
  PROVE  /\ NextSize(n) \in Nat /\ heap.size <= NextSize(n)
         /\ SizeOf(Live) \in Nat /\ SizeOf(Live) + n <= NextSize(n)
<1>1. SizeOf(Live) \in Nat
  <2>1. Live \in SUBSET Live OBVIOUS
  <2> QED BY <2>1, LiveObjects
<1> DEFINE a == 2 * SizeOf(Live) + n
           b == MINIMUM_HEAP_CAPACITY
           c == heap.size
<1>2. a \in Nat /\ b \in Nat /\ c \in Nat
  <2>1. MINIMUM_HEAP_CAPACITY \in Nat BY Constants
  <2>2. heap.size \in Nat BY DEF HeapInv
  <2> QED BY <1>1, <2>1, <2>2
<1>3. SizeOf(Live) + n <= a BY <1>1
<1> HIDE DEF a, b, c
<1>4. \E x \in {a, b, c} : \A y \in {a, b, c} : x >= y
  <2>1. CASE a >= b /\ a >= c BY <1>2, <2>1
  <2>2. CASE b >= a /\ b >= c BY <1>2, <2>2
  <2>3. CASE c >= a /\ c >= b BY <1>2, <2>3
  <2> QED BY <1>2, <2>1, <2>2, <2>3
<1>5. Max({a, b, c}) \in {a, b, c} /\ \A y \in {a, b, c} : Max({a, b, c}) >= y
  BY <1>4 DEF Max
<1>6. NextSize(n) = Max({a, b, c}) BY DEF NextSize, a, b, c
<1> QED BY <1>1, <1>2, <1>3, <1>5, <1>6 DEF c

DenotesIn(o, w) == w[2] - HEADER \in DOMAIN o /\ o[w[2] - HEADER].id = w[3]

\* An allocation has n words at r.at behind the objects,
Room(r, n) ==
  /\ r.heap \in [begin : Nat, end : Nat, current : Nat, size : Nat]
  /\ r.heap.end = r.heap.begin + r.heap.size
  /\ r.at \in Nat /\ r.heap.begin <= r.at
  /\ r.heap.current = r.at + n /\ r.heap.current <= r.heap.end
  /\ IsFiniteSet(DOMAIN r.objs) /\ r.at \notin DOMAIN r.objs
  /\ \A a \in DOMAIN r.objs : /\ a \in Nat /\ r.objs[a].size \in Nat /\ r.objs[a].size >= HEADER
                              /\ r.heap.begin <= a /\ a + r.objs[a].size <= r.at

\* and a pointer that denotes its object, and is scanned, still does.
Follows(r) ==
  /\ r.memory = [j \in Words |-> r.memory[j]]
  /\ \A j \in Words :
       /\ \/ r.memory[j] = memory[j]
          \/ /\ j \in Scanned /\ IsPointer(memory[j]) /\ IsPointer(r.memory[j])
             /\ r.memory[j][2] \in Int /\ r.memory[j][3] = memory[j][3]
       /\ j \in Scanned /\ IsPointer(memory[j]) /\ Denotes(memory[j]) =>
            DenotesIn(r.objs, r.memory[j])

\* A pointer to an object is one that a collection takes for a root.
LEMMA ObjectsAreInHeap ==
  ASSUME HeapInv, WordsInv, NEW j \in Words, IsPointer(memory[j]), IsContent(memory[j])
  PROVE  InHeap(memory[j])
<1>1. memory[j][2] \in Int BY DEF WordsInv
<1>2. PICK a \in DOMAIN objs : a = memory[j][2] - HEADER BY DEF IsContent
<1>3. a \in Nat /\ objs[a].size \in Nat /\ objs[a].size >= HEADER
      /\ heap.begin <= a /\ a + objs[a].size <= heap.current
      /\ heap.begin \in Nat /\ heap.current \in Nat
  BY DEF HeapInv
<1>4. HEADER \in Nat BY Constants
<1> QED BY <1>1, <1>2, <1>3, <1>4 DEF InHeap

LEMMA InPlaceFits ==
  ASSUME HeapInv, WordsInv, NEW n \in Nat, HasRoom(n)
  PROVE  Room(InPlace(n), n) /\ Follows(InPlace(n))
         /\ InPlace(n).memory = memory /\ InPlace(n).objs = objs
         /\ InPlace(n).heap.begin = heap.begin /\ InPlace(n).heap.size = heap.size
         /\ InPlace(n).mapped = mapped
<1> DEFINE r == InPlace(n)
<1>1. r.memory = memory /\ r.objs = objs /\ r.at = heap.current /\ r.mapped = mapped
      /\ r.heap = [heap EXCEPT !.current = @ + n]
  BY DEF InPlace
<1>2. r.heap = [begin |-> heap.begin, end |-> heap.end, current |-> heap.current + n,
                size |-> heap.size]
  BY <1>1 DEF HeapInv
<1>3. heap.current \in Nat /\ heap.begin \in Nat /\ heap.size \in Nat /\ heap.end \in Nat
  BY DEF HeapInv
<1>4. heap.begin <= heap.current /\ heap.end = heap.begin + heap.size
      /\ IsFiniteSet(DOMAIN objs)
      /\ \A a \in DOMAIN objs : /\ a \in Nat /\ objs[a].size \in Nat /\ objs[a].size >= HEADER
                                /\ heap.begin <= a /\ a + objs[a].size <= heap.current
  BY DEF HeapInv
<1> HIDE DEF r
<1>5. heap.current \notin DOMAIN objs
  <2> SUFFICES ASSUME heap.current \in DOMAIN objs PROVE FALSE OBVIOUS
  <2>1. objs[heap.current].size \in Nat /\ objs[heap.current].size >= HEADER
        /\ heap.current + objs[heap.current].size <= heap.current
    BY <1>4
  <2>2. HEADER \in Nat \ {0} BY Constants
  <2> QED BY <1>3, <2>1, <2>2
<1>6. Room(r, n)
  <2>1. r.heap \in [begin : Nat, end : Nat, current : Nat, size : Nat] BY <1>2, <1>3
  <2>2. r.heap.begin = heap.begin /\ r.heap.end = heap.end /\ r.heap.size = heap.size
        /\ r.heap.current = heap.current + n
    BY <1>2
  <2>3. r.heap.current <= r.heap.end BY <2>2 DEF HasRoom
  <2> QED BY <1>1, <1>3, <1>4, <1>5, <2>1, <2>2, <2>3 DEF Room
<1>7. Follows(r) BY <1>1 DEF Follows, WordsInv, Denotes, IsContent, DenotesIn
<1> QED BY <1>1, <1>2, <1>6, <1>7 DEF r

\* Objects that are apart have one object each that is forwarded to a place.
LEMMA ForwardApart ==
  ASSUME HeapInv, RootsAreContents, NEW begin \in Nat,
         NEW a \in Live, NEW b \in Live, Forward(a, begin) = Forward(b, begin)
  PROVE  a = b
<1>1. a \in Nat /\ b \in Nat /\ objs[a].size \in Nat /\ objs[b].size \in Nat
      /\ objs[a].size >= HEADER /\ objs[b].size >= HEADER
  BY LiveObjects DEF HeapInv
<1>2. Forward(a, begin) \in Nat /\ Forward(b, begin) \in Nat BY ForwardOrder
<1>3. HEADER \in Nat \ {0} BY Constants
<1>4. ~(a < b)
  <2> SUFFICES ASSUME a < b PROVE FALSE OBVIOUS
  <2>1. Forward(a, begin) + objs[a].size <= Forward(b, begin) BY ForwardOrder
  <2> QED BY <1>1, <1>2, <1>3, <2>1
<1>5. ~(b < a)
  <2> SUFFICES ASSUME b < a PROVE FALSE OBVIOUS
  <2>1. Forward(b, begin) + objs[b].size <= Forward(a, begin) BY ForwardOrder
  <2> QED BY <1>1, <1>2, <1>3, <2>1
<1> QED BY <1>1, <1>4, <1>5

LEMMA CollectedFits ==
  ASSUME HeapInv, WordsInv, RootsAreContents, NEW n \in Nat, NEW begin \in Nat
  PROVE  Room(Collected(begin, n), n) /\ Follows(Collected(begin, n))
<1> DEFINE r == Collected(begin, n)
           at == begin + SizeOf(Live)
           moved == {Forward(a, begin) : a \in Live}
           from(b) == CHOOSE a \in Live : Forward(a, begin) = b
<1>1. /\ r.heap = Chunk(begin, at + n, NextSize(n)) /\ r.at = at
      /\ r.objs = [b \in moved |-> objs[from(b)]]
      /\ r.memory = [j \in Words |->
                       IF j \in Roots
                         THEN Pointer(Content(Forward(memory[j][2] - HEADER, begin)), memory[j][3])
                         ELSE memory[j]]
  BY DEF Collected
<1> HIDE DEF r
<1>2. NextSize(n) \in Nat /\ SizeOf(Live) \in Nat /\ SizeOf(Live) + n <= NextSize(n)
  BY NextSizes
<1>3. at \in Nat /\ begin <= at /\ at + n <= begin + NextSize(n) BY <1>2
<1>4. \A a \in Live : from(Forward(a, begin)) = a
  <2> SUFFICES ASSUME NEW a \in Live PROVE from(Forward(a, begin)) = a OBVIOUS
  <2>1. \E x \in Live : Forward(x, begin) = Forward(a, begin) OBVIOUS
  <2>2. from(Forward(a, begin)) \in Live
        /\ Forward(from(Forward(a, begin)), begin) = Forward(a, begin)
    BY <2>1
  <2> QED BY <2>2, ForwardApart
<1> HIDE DEF from
<1>5. \A a \in Live : Forward(a, begin) \in DOMAIN r.objs /\ r.objs[Forward(a, begin)] = objs[a]
  BY <1>1, <1>4
<1>6. \A b \in DOMAIN r.objs : \E a \in Live : b = Forward(a, begin) BY <1>1
<1>7. \A a \in Live : /\ objs[a].size \in Nat /\ objs[a].size >= HEADER
                      /\ Forward(a, begin) \in Nat /\ begin <= Forward(a, begin)
                      /\ Forward(a, begin) + objs[a].size <= at
  BY LiveObjects, ForwardOrder DEF HeapInv
<1>8. \A b \in DOMAIN r.objs : /\ b \in Nat /\ r.objs[b].size \in Nat /\ r.objs[b].size >= HEADER
                               /\ begin <= b /\ b + r.objs[b].size <= at
  BY <1>5, <1>6, <1>7
<1> HIDE DEF at, moved
<1>9. at \notin DOMAIN r.objs
  <2> SUFFICES ASSUME at \in DOMAIN r.objs PROVE FALSE OBVIOUS
  <2>1. r.objs[at].size \in Nat /\ r.objs[at].size >= HEADER /\ at + r.objs[at].size <= at
    BY <1>8
  <2>2. HEADER \in Nat \ {0} BY Constants
  <2> QED BY <1>3, <2>1, <2>2
<1>10. IsFiniteSet(DOMAIN r.objs)
  <2>1. \A b \in DOMAIN r.objs : b \in 0..at
    <3> SUFFICES ASSUME NEW b \in DOMAIN r.objs PROVE b \in 0..at OBVIOUS
    <3>1. b \in Nat /\ r.objs[b].size \in Nat /\ b + r.objs[b].size <= at BY <1>8
    <3> QED BY <1>3, <3>1
  <2>2. IsFiniteSet(0..at) BY <1>3, FS_Interval
  <2>3. DOMAIN r.objs \in SUBSET (0..at) BY <2>1
  <2> QED BY <2>2, <2>3, FS_Subset
<1>11. Room(r, n)
  <2>1. r.heap = [begin |-> begin, end |-> begin + NextSize(n), current |-> at + n,
                  size |-> NextSize(n)]
    BY <1>1 DEF Chunk
  <2>2. r.heap.begin = begin /\ r.heap.end = begin + NextSize(n)
        /\ r.heap.current = at + n /\ r.heap.size = NextSize(n)
    BY <2>1
  <2>3. r.heap \in [begin : Nat, end : Nat, current : Nat, size : Nat]
    BY <1>2, <1>3, <2>1
  <2> QED BY <1>1, <1>3, <1>8, <1>9, <1>10, <2>2, <2>3 DEF Room
<1>12. Follows(r)
  <2>1. r.memory = [j \in Words |-> r.memory[j]] BY <1>1
  <2>2. ASSUME NEW j \in Words
        PROVE  /\ \/ r.memory[j] = memory[j]
                  \/ /\ j \in Scanned /\ IsPointer(memory[j]) /\ IsPointer(r.memory[j])
                     /\ r.memory[j][2] \in Int /\ r.memory[j][3] = memory[j][3]
               /\ j \in Scanned /\ IsPointer(memory[j]) /\ Denotes(memory[j]) =>
                    DenotesIn(r.objs, r.memory[j])
    <3>1. CASE j \in Roots
      <4>1. PICK a \in Live : a = memory[j][2] - HEADER BY <3>1 DEF Live
      <4>2. r.memory[j] = <<"heap", Content(Forward(a, begin)), memory[j][3]>>
        BY <1>1, <3>1, <4>1 DEF Pointer
      <4>3. r.memory[j][1] = "heap" /\ r.memory[j][2] = Forward(a, begin) + HEADER
            /\ r.memory[j][3] = memory[j][3]
        BY <4>2 DEF Content
      <4>4. HEADER \in Nat /\ Forward(a, begin) \in Nat BY <1>7, Constants
      <4>5. r.memory[j][2] \in Int /\ r.memory[j][2] - HEADER = Forward(a, begin)
        BY <4>3, <4>4
      <4>6. j \in Scanned /\ IsPointer(memory[j]) BY <3>1 DEF Roots, InHeap
      <4>7. Denotes(memory[j]) => DenotesIn(r.objs, r.memory[j])
        BY <1>5, <4>1, <4>3, <4>5 DEF Denotes, DenotesIn
      <4> QED BY <4>3, <4>5, <4>6, <4>7 DEF IsPointer
    <3>2. CASE j \notin Roots
      <4>1. r.memory[j] = memory[j] BY <1>1, <3>2
      <4>2. ~(j \in Scanned /\ IsPointer(memory[j]) /\ Denotes(memory[j]))
        BY <3>2, ObjectsAreInHeap DEF Roots, Denotes
      <4> QED BY <4>1, <4>2
    <3> QED BY <3>1, <3>2
  <2> QED BY <2>1, <2>2 DEF Follows
<1> QED BY <1>11, <1>12 DEF r

\* Either way.
LEMMA AllocatedFits ==
  ASSUME HeapInv, WordsInv, NEW n \in Nat, NEW r \in Allocated(n)
  PROVE  /\ Room(r, n) /\ Follows(r)
         /\ HasRoom(n) => r.memory = memory /\ r.objs = objs
<1>1. CASE HasRoom(n)
  <2>1. r = InPlace(n) BY <1>1 DEF Allocated
  <2> QED BY <1>1, <2>1, InPlaceFits
<1>2. CASE ~HasRoom(n)
  <2>1. RootsAreContents /\ \E b \in Mappings(NextSize(n)) : r = Collected(b, n)
    BY <1>2 DEF Allocated
  <2>2. PICK b \in Mappings(NextSize(n)) : r = Collected(b, n) BY <2>1
  <2>3. b \in Nat
    <3>1. PICK p \in Pages : b = p * PAGE BY DEF Mappings, FreeRuns
    <3>2. p \in Nat /\ PAGE \in Nat BY Constants
    <3> QED BY <3>1, <3>2
  <2> QED BY <1>2, <2>1, <2>2, <2>3, CollectedFits
<1> QED BY <1>1, <1>2

\* The object joins the others, and its pointer denotes it.
LEMMA TakeKeepsHeap ==
  ASSUME NEW n \in Nat, n >= HEADER, NEW r, Room(r, n), NEW m, Take(r, n, m)
  PROVE  /\ HeapInv'
         /\ \A w : DenotesIn(r.objs, w) => DenotesIn(objs', w)
         /\ DenotesIn(objs', Pointer(Content(r.at), NewId))
<1>1. objs' = [a \in DOMAIN r.objs \cup {r.at} |->
                 IF a = r.at THEN [size |-> n, id |-> NewId] ELSE r.objs[a]]
      /\ heap' = r.heap
  BY DEF Take
<1>2. r.at \notin DOMAIN r.objs /\ r.at \in Nat /\ HEADER \in Nat BY Constants DEF Room
<1>3. \A w : DenotesIn(r.objs, w) => DenotesIn(objs', w)
  BY <1>1, <1>2 DEF DenotesIn
<1>4. DenotesIn(objs', Pointer(Content(r.at), NewId))
  <2> DEFINE w == Pointer(Content(r.at), NewId)
  <2>1. w[2] = r.at + HEADER /\ w[3] = NewId BY DEF Pointer, Content
  <2>2. w[2] - HEADER = r.at BY <1>2, <2>1
  <2>3. objs'[r.at].id = NewId /\ r.at \in DOMAIN objs' BY <1>1
  <2> QED BY <2>1, <2>2, <2>3 DEF DenotesIn
<1>5. IsFiniteSet(DOMAIN objs')
  <2>1. DOMAIN objs' = DOMAIN r.objs \cup {r.at} BY <1>1
  <2>2. IsFiniteSet(DOMAIN r.objs) BY DEF Room
  <2> QED BY <2>1, <2>2, FS_AddElement
<1>6. ASSUME NEW a \in DOMAIN objs'
      PROVE  /\ a \in Nat /\ objs'[a].size \in Nat /\ objs'[a].size >= HEADER
             /\ heap'.begin <= a /\ a + objs'[a].size <= heap'.current
  <2>1. CASE a = r.at
    <3>1. objs'[a].size = n BY <1>1, <2>1
    <3> QED BY <1>1, <1>2, <2>1, <3>1 DEF Room
  <2>2. CASE a \in DOMAIN r.objs
    <3>1. objs'[a] = r.objs[a] BY <1>1, <1>2, <2>2
    <3>2. /\ a \in Nat /\ r.objs[a].size \in Nat /\ r.objs[a].size >= HEADER
          /\ r.heap.begin <= a /\ a + r.objs[a].size <= r.at /\ r.heap.current = r.at + n
      BY <2>2 DEF Room
    <3> QED BY <1>1, <1>2, <3>1, <3>2
  <2> QED BY <1>1, <2>1, <2>2
<1>7. /\ heap' \in [begin : Nat, end : Nat, current : Nat, size : Nat]
      /\ heap'.end = heap'.begin + heap'.size
      /\ heap'.begin <= heap'.current /\ heap'.current <= heap'.end
  <2>1. r.heap.begin \in Nat BY DEF Room
  <2> QED BY <1>1, <1>2, <2>1 DEF Room
<1> QED BY <1>3, <1>4, <1>5, <1>6, <1>7 DEF HeapInv

-----------------------------------------------------------------------------
(* Frames *)

Back(b, i) == b[i] + 3 + frames[i].args
Low(b, i) == b[i] - frames[i].locals

\* b has the base of each call's frame.
ChainOf(b) ==
  /\ frames \in Seq([args : Nat, locals : Nat]) /\ Len(frames) >= 1
  /\ b \in [1..Len(frames) -> Int]
  /\ b[1] = fp /\ b[Len(frames)] = START - 3 /\ frames[Len(frames)].args = 0
  /\ \A i, k \in 1..Len(frames) : i < k => Back(b, i) <= Low(b, k)
  /\ \A i \in 1..Len(frames) : i > 1 \/ status = "running" => Low(b, i) >= Depth - 1
  /\ \A i \in 1..(Len(frames) - 1) : i > 1 \/ fp >= -1 =>
       memory[b[i] + 1] = Number(Back(b, i)) /\ memory[b[i] + 2] = Number(b[i + 1])
  /\ \A j \in fresh : j \in Int /\ \E i \in 1..Len(frames) : Low(b, i) < j /\ j <= b[i]
  /\ status = "entering" => top = fp /\ frames[1].locals = 0
  /\ status = "running" => top >= -1 /\ top <= Low(b, 1)

ChainInv == status \in {"entering", "running"} => \E b : ChainOf(b)

BuildInv ==
  status = "building" =>
    /\ built \in Nat /\ built <= string_counter /\ top = STACK - built /\ fresh = {}
    /\ \A j \in Words : j < top => ~IsPointer(memory[j])
    /\ built > 0 => Denotes(memory[top])

FrameInv ==
  /\ strings \in Tables
  /\ HeapInv /\ WordsInv /\ BuildInv /\ ChainInv /\ OnlyFreshOrLostAreStale

\* Below the globals there is a word for every byte of the table.
LEMMA StartFacts ==
  ASSUME strings \in Tables
  PROVE  /\ START \in Nat /\ START >= 3 /\ START + string_size + global_area_size = STACK
         /\ string_counter \in Nat /\ string_size \in Nat /\ string_counter < string_size
         /\ STACK \in Nat /\ global_area_size \in Nat /\ Depth \in Nat
         /\ \A i \in 1..string_counter : strings[i] \in Nat
<1> USE DEF START, string_counter, string_size
<1>1. strings \in Seq(Nat) /\ Len(strings) \in Nat /\ BytesOf(strings) \in Nat
      /\ Len(strings) < BytesOf(strings)
      /\ STACK - BytesOf(strings) - global_area_size >= 3
      /\ STACK \in Nat /\ global_area_size \in Nat /\ Depth \in Nat
  BY Constants
<1>2. \A i \in 1..Len(strings) : strings[i] \in Nat BY <1>1
<1> QED BY <1>1, <1>2

LEMMA SeqElement ==
  ASSUME NEW R, NEW q \in Seq(R), NEW i \in 1..Len(q)
  PROVE  q[i] \in R
OBVIOUS

\* Where the frames lie: apart, in the order of the calls, below the globals.
LEMMA ChainPlaces ==
  ASSUME strings \in Tables, NEW b, ChainOf(b)
  PROVE  /\ Len(frames) \in Nat /\ 1 \in 1..Len(frames) /\ Len(frames) \in 1..Len(frames)
         /\ b[1] = fp
         /\ \A i \in 1..Len(frames) :
              /\ b[i] \in Int /\ frames[i].args \in Nat /\ frames[i].locals \in Nat
              /\ Back(b, i) \in Int /\ Low(b, i) \in Int
              /\ Back(b, i) = b[i] + 3 + frames[i].args /\ Low(b, i) = b[i] - frames[i].locals
              /\ b[i] + 3 <= START /\ Back(b, i) <= START
              /\ i > 1 => b[1] + 3 <= Back(b, 1) /\ Back(b, 1) <= Low(b, i) /\ Low(b, i) <= b[i]
<1>1. Len(frames) \in Nat /\ Len(frames) >= 1 BY DEF ChainOf
<1>2. 1 \in 1..Len(frames) /\ Len(frames) \in 1..Len(frames) BY <1>1
<1>3. ASSUME NEW i \in 1..Len(frames)
      PROVE  /\ b[i] \in Int /\ frames[i].args \in Nat /\ frames[i].locals \in Nat
             /\ Back(b, i) \in Int /\ Low(b, i) \in Int
             /\ Back(b, i) = b[i] + 3 + frames[i].args /\ Low(b, i) = b[i] - frames[i].locals
  <2>1. b[i] \in Int BY DEF ChainOf
  <2>2. frames[i] \in [args : Nat, locals : Nat]
    <3>1. frames \in Seq([args : Nat, locals : Nat]) BY DEF ChainOf
    <3> QED BY <3>1, SeqElement
  <2>3. frames[i].args \in Nat /\ frames[i].locals \in Nat BY <2>2
  <2> QED BY <2>1, <2>3 DEF Back, Low
<1>4. START \in Nat /\ b[Len(frames)] = START - 3 /\ frames[Len(frames)].args = 0
  BY StartFacts DEF ChainOf
<1>5. ASSUME NEW i \in 1..Len(frames)
      PROVE  b[i] + 3 <= START /\ Back(b, i) <= START
  <2>1. CASE i = Len(frames) BY <1>3, <1>4, <2>1
  <2>2. CASE i # Len(frames)
    <3>1. i < Len(frames) BY <1>1, <2>2
    <3>2. Back(b, i) <= Low(b, Len(frames)) BY <1>2, <3>1 DEF ChainOf
    <3>3. /\ frames[Len(frames)].locals \in Nat /\ Low(b, Len(frames)) \in Int
          /\ Low(b, Len(frames)) = b[Len(frames)] - frames[Len(frames)].locals
      BY <1>2, <1>3
    <3>4. b[i] \in Int /\ frames[i].args \in Nat /\ Back(b, i) = b[i] + 3 + frames[i].args
      BY <1>3
    <3> QED BY <1>4, <3>2, <3>3, <3>4, SMTT(60)
  <2> QED BY <2>1, <2>2
<1>6. ASSUME NEW i \in 1..Len(frames), i > 1
      PROVE  b[1] + 3 <= Back(b, 1) /\ Back(b, 1) <= Low(b, i) /\ Low(b, i) <= b[i]
  <2>1. Back(b, 1) <= Low(b, i) BY <1>2, <1>6 DEF ChainOf
  <2>2. b[1] \in Int /\ frames[1].args \in Nat /\ Back(b, 1) = b[1] + 3 + frames[1].args
    BY <1>2, <1>3
  <2>3. b[i] \in Int /\ frames[i].locals \in Nat /\ Low(b, i) = b[i] - frames[i].locals
    BY <1>3
  <2> QED BY <2>1, <2>2, <2>3, SMTT(60)
<1>7. b[1] = fp BY DEF ChainOf
<1> QED BY <1>1, <1>2, <1>3, <1>5, <1>6, <1>7

\* The variables are between the operands and the end of memory, and no frame's.
LEMMA PlacesApart ==
  ASSUME strings \in Tables, NEW b, ChainOf(b), status = "running", NEW j \in Places
  PROVE  /\ j \in Words /\ j > Low(b, 1)
         /\ \A i \in 1..Len(frames) : j # b[i] + 1 /\ j # b[i] + 2 /\ j # b[i] + 3
<1>1. /\ START \in Nat /\ START >= 3 /\ START + string_size + global_area_size = STACK
      /\ string_counter \in Nat /\ string_size \in Nat /\ string_counter < string_size
      /\ STACK \in Nat /\ global_area_size \in Nat /\ Depth \in Nat
  BY StartFacts
<1>2. 1 \in 1..Len(frames) /\ b[1] = fp BY ChainPlaces
<1>3. \A i \in 1..Len(frames) :
        /\ b[i] \in Int /\ frames[i].args \in Nat /\ frames[i].locals \in Nat
        /\ Back(b, i) = b[i] + 3 + frames[i].args /\ Low(b, i) = b[i] - frames[i].locals
        /\ b[i] + 3 <= START /\ Back(b, i) <= START
        /\ i > 1 => b[1] + 3 <= Back(b, 1) /\ Back(b, 1) <= Low(b, i) /\ Low(b, i) <= b[i]
  BY ChainPlaces
<1>4. /\ Low(b, 1) >= Depth - 1
      /\ b[1] \in Int /\ frames[1].args \in Nat /\ frames[1].locals \in Nat
      /\ Back(b, 1) = b[1] + 3 + frames[1].args /\ Low(b, 1) = b[1] - frames[1].locals
      /\ b[1] + 3 <= START /\ Back(b, 1) <= START
  BY <1>2, <1>3 DEF ChainOf
<1>5. CASE \E k \in 0..(global_area_size - 1) : j = GlobalAt(k)
  <2>1. PICK k \in 0..(global_area_size - 1) : j = STACK - k - 1 - string_counter
    BY <1>5 DEF GlobalAt
  <2>2. j \in Int /\ j > START /\ j < STACK BY <1>1, <2>1
  <2>3. j \in Words BY <1>1, <2>2 DEF Words
  <2> QED BY <1>1, <1>2, <1>3, <2>2, <2>3, SMTT(60)
<1>6. CASE \E k \in 0..(frames[1].args - 1) : j = fp + 4 + k
  <2>1. PICK k \in 0..(frames[1].args - 1) : j = fp + 4 + k BY <1>6
  <2>2. j \in Int /\ j > b[1] + 3 /\ j <= Back(b, 1) BY <1>2, <1>4, <2>1, SMTT(60)
  <2>3. j \in Words /\ j > Low(b, 1)
    <3>1. j \in Int /\ 0 <= j /\ j < STACK /\ j > Low(b, 1) BY <1>1, <1>4, <2>2
    <3> QED BY <1>1, <3>1 DEF Words
  <2>4. ASSUME NEW i \in 1..Len(frames) PROVE j # b[i] + 1 /\ j # b[i] + 2 /\ j # b[i] + 3
    <3>1. CASE i = 1 BY <1>2, <1>3, <2>2, <3>1
    <3>2. CASE i > 1
      <4>1. /\ b[i] \in Int /\ frames[i].locals \in Nat /\ Low(b, i) = b[i] - frames[i].locals
            /\ b[1] + 3 <= Back(b, 1) /\ Back(b, 1) <= Low(b, i)
        BY <1>3, <3>2
      <4>2. Back(b, 1) \in Int /\ Low(b, i) \in Int BY <1>4, <4>1, SMTT(60)
      <4>3. Back(b, 1) <= b[i] /\ b[1] + 3 <= b[i] BY <1>4, <4>1, <4>2, SMTT(60)
      <4>4. j <= b[i] BY <1>4, <2>2, <4>1, <4>2, <4>3
      <4>5. \A x, y \in Int : x <= y => x # y + 1 /\ x # y + 2 /\ x # y + 3 OBVIOUS
      <4> QED BY <2>2, <4>1, <4>4, <4>5
    <3> QED BY <3>1, <3>2
  <2> QED BY <2>3, <2>4
<1>7. CASE \E k \in 0..(frames[1].locals - 1) : j = fp - k
  <2>1. PICK k \in 0..(frames[1].locals - 1) : j = fp - k BY <1>7
  <2>2. j \in Int /\ j <= b[1] /\ j > Low(b, 1) BY <1>2, <1>4, <2>1
  <2>3. j \in Words
    <3>1. 0 <= j /\ j < STACK BY <1>1, <1>4, <2>2
    <3> QED BY <1>1, <2>2, <3>1 DEF Words
  <2>4. ASSUME NEW i \in 1..Len(frames) PROVE j # b[i] + 1 /\ j # b[i] + 2 /\ j # b[i] + 3
    <3>1. CASE i = 1 BY <1>2, <1>3, <2>2, <3>1
    <3>2. CASE i > 1
      <4>1. /\ b[i] \in Int /\ frames[i].locals \in Nat /\ Low(b, i) = b[i] - frames[i].locals
            /\ b[1] + 3 <= Back(b, 1) /\ Back(b, 1) <= Low(b, i)
        BY <1>3, <3>2
      <4>2. Back(b, 1) \in Int /\ Low(b, i) \in Int BY <1>4, <4>1, SMTT(60)
      <4>3. Back(b, 1) <= b[i] /\ b[1] + 3 <= b[i] BY <1>4, <4>1, <4>2, SMTT(60)
      <4>4. j <= b[i] BY <1>4, <2>2, <4>1, <4>2, <4>3
      <4>5. \A x, y \in Int : x <= y => x # y + 1 /\ x # y + 2 /\ x # y + 3 OBVIOUS
      <4> QED BY <2>2, <4>1, <4>4, <4>5
    <3> QED BY <3>1, <3>2
  <2> QED BY <2>2, <2>3, <2>4
<1> QED BY <1>5, <1>6, <1>7 DEF Places

LEMMA StringsApart ==
  ASSUME strings \in Tables, NEW b, ChainOf(b), NEW k \in 0..(string_counter - 1)
  PROVE  StringAt(k) \in Words /\ StringAt(k) > START
<1>1. /\ START \in Nat /\ START >= 3 /\ START + string_size + global_area_size = STACK
      /\ string_counter \in Nat /\ string_size \in Nat /\ string_counter < string_size
      /\ STACK \in Nat /\ global_area_size \in Nat
  BY StartFacts
<1>2. StringAt(k) = STACK - k - 1 BY DEF StringAt
<1> QED BY <1>1, <1>2 DEF Words

LEMMA InvariantIsApart ==
  ASSUME FrameInv
  PROVE  VariablesAreApart
<1> SUFFICES ASSUME status = "running", NEW j \in Variables
             PROVE  j \in Scanned /\ j \notin (fp + 1)..(fp + 3)
  BY DEF VariablesAreApart
<1>1. PICK b : ChainOf(b) BY DEF FrameInv, ChainInv
<1>2. strings \in Tables /\ top \in Int BY DEF FrameInv, WordsInv
<1>3. 1 \in 1..Len(frames) /\ b[1] = fp /\ b[1] \in Int /\ Low(b, 1) \in Int
      /\ b[1] + 3 <= START /\ top <= Low(b, 1) /\ Low(b, 1) <= b[1]
  <2>1. 1 \in 1..Len(frames) /\ b[1] = fp BY <1>1, <1>2, ChainPlaces
  <2>2. /\ b[1] \in Int /\ frames[1].locals \in Nat /\ Low(b, 1) \in Int
        /\ Low(b, 1) = b[1] - frames[1].locals /\ b[1] + 3 <= START
    BY <1>1, <1>2, <2>1, ChainPlaces
  <2> QED BY <1>1, <2>1, <2>2, SMTT(60) DEF ChainOf
<1>4. CASE j \in Places
  <2>1. j \in Words /\ j > Low(b, 1) /\ j # fp + 1 /\ j # fp + 2 /\ j # fp + 3
    BY <1>1, <1>2, <1>3, <1>4, PlacesApart
  <2>2. j \in Int BY <2>1 DEF Words
  <2> QED BY <1>2, <1>3, <2>1, <2>2 DEF Scanned
<1>5. CASE j \in {StringAt(k) : k \in 0..(string_counter - 1)}
  <2>1. j \in Words /\ j > START BY <1>1, <1>2, <1>5, StringsApart
  <2>2. j \in Int /\ START \in Int BY <1>2, <2>1, StartFacts DEF Words
  <2> QED BY <1>2, <1>3, <2>1, <2>2 DEF Scanned
<1> QED BY <1>4, <1>5 DEF Variables

-----------------------------------------------------------------------------
(* Handlers keep the frames. *)

\* What the other lemmas need of the frame of the running function.
LEMMA Running ==
  ASSUME FrameInv, status = "running", NEW b, ChainOf(b)
  PROVE  /\ strings \in Tables /\ top \in Int /\ top >= -1 /\ top <= Low(b, 1)
         /\ Low(b, 1) \in Int /\ Low(b, 1) = fp - frames[1].locals /\ Low(b, 1) >= Depth - 1
         /\ Low(b, 1) <= fp /\ fp + 3 <= START /\ fp \in Int /\ fp >= -1
         /\ Back(b, 1) \in Int /\ fp + 3 <= Back(b, 1) /\ Back(b, 1) <= START
         /\ Depth \in Nat /\ STACK \in Nat /\ START \in Nat /\ START <= STACK
         /\ Operands = Low(b, 1) - top
<1>1. strings \in Tables /\ top \in Int BY DEF FrameInv, WordsInv
<1>2. 1 \in 1..Len(frames) /\ b[1] = fp BY <1>1, ChainPlaces
<1>3. /\ b[1] \in Int /\ frames[1].locals \in Nat /\ frames[1].args \in Nat
      /\ Low(b, 1) \in Int /\ Back(b, 1) \in Int
      /\ Back(b, 1) = b[1] + 3 + frames[1].args /\ Low(b, 1) = b[1] - frames[1].locals
      /\ b[1] + 3 <= START /\ Back(b, 1) <= START
  BY <1>1, <1>2, ChainPlaces
<1>4. Low(b, 1) >= Depth - 1 /\ top >= -1 /\ top <= Low(b, 1) BY <1>2 DEF ChainOf
<1>5. /\ Depth \in Nat /\ STACK \in Nat /\ START \in Nat
      /\ START + string_size + global_area_size = STACK
      /\ string_size \in Nat /\ global_area_size \in Nat
  BY <1>1, StartFacts
<1>6. Operands = Low(b, 1) - top BY <1>2, <1>3 DEF Operands
<1>7. Low(b, 1) = fp - frames[1].locals BY <1>2, <1>3
<1>8. Low(b, 1) <= fp /\ fp + 3 <= START /\ fp \in Int /\ fp >= -1 /\ fp + 3 <= Back(b, 1)
  BY <1>2, <1>3, <1>4, <1>5, SMTT(60)
<1> QED BY <1>1, <1>3, <1>4, <1>5, <1>6, <1>7, <1>8

\* The words of the frames are above the operands, and no variable's.
LEMMA FrameWords ==
  ASSUME FrameInv, status = "running", NEW b, ChainOf(b), NEW i \in 1..(Len(frames) - 1)
  PROVE  /\ b[i] + 1 \in Words /\ b[i] + 2 \in Words
         /\ b[i] + 1 > Low(b, 1) /\ b[i] + 2 > Low(b, 1)
         /\ b[i] + 1 \notin Places /\ b[i] + 2 \notin Places
         /\ memory[b[i] + 1] = Number(Back(b, i)) /\ memory[b[i] + 2] = Number(b[i + 1])
<1>1. Len(frames) \in Nat /\ i \in 1..Len(frames) /\ strings \in Tables
  BY ChainPlaces DEF FrameInv
<1>2. /\ b[i] \in Int /\ frames[i].locals \in Nat /\ Low(b, i) \in Int
      /\ Low(b, i) = b[i] - frames[i].locals
      /\ b[i] + 3 <= START
      /\ i > 1 => b[1] + 3 <= Back(b, 1) /\ Back(b, 1) <= Low(b, i) /\ Low(b, i) <= b[i]
  BY <1>1, ChainPlaces
<1>3. Low(b, i) >= Depth - 1 BY <1>1 DEF ChainOf
<1>4. /\ Low(b, 1) \in Int /\ Low(b, 1) <= fp /\ fp + 3 <= START /\ fp \in Int /\ fp >= -1
      /\ Back(b, 1) \in Int /\ fp + 3 <= Back(b, 1)
      /\ Depth \in Nat /\ STACK \in Nat /\ START \in Nat /\ START <= STACK
  BY Running
<1>5. Low(b, 1) <= b[i]
  <2>1. CASE i = 1
    <3>1. b[1] = fp BY <1>1, ChainPlaces
    <3> QED BY <1>4, <2>1, <3>1
  <2>2. CASE i > 1 BY <1>2, <1>4, <2>2
  <2> QED BY <2>1, <2>2
<1>6. b[i] + 1 \in Words /\ b[i] + 2 \in Words
      /\ b[i] + 1 > Low(b, 1) /\ b[i] + 2 > Low(b, 1)
  <2>1. PICK x \in Int, l \in Nat : x = b[i] /\ l = frames[i].locals BY <1>2
  <2>2. PICK y \in Int : y = Low(b, 1) BY <1>4
  <2>3. x - l >= Depth - 1 /\ x + 3 <= START /\ y <= x BY <1>2, <1>3, <1>5, <2>1, <2>2
  <2>4. Depth \in Nat /\ STACK \in Nat /\ START \in Nat /\ START <= STACK BY <1>4
  <2>5. x + 1 \in 0..(STACK - 1) /\ x + 2 \in 0..(STACK - 1) /\ x + 1 > y /\ x + 2 > y
    BY <2>3, <2>4
  <2> QED BY <2>1, <2>2, <2>5 DEF Words
<1>7. b[i] + 1 \notin Places /\ b[i] + 2 \notin Places BY <1>1, PlacesApart
<1>8. memory[b[i] + 1] = Number(Back(b, i)) /\ memory[b[i] + 2] = Number(b[i + 1])
  BY <1>4 DEF ChainOf
<1> QED BY <1>6, <1>7, <1>8

IsNumber(w) == \E x : w = Number(x)

\* A handler that stays in the function changes operands and variables alone.
LEMMA ChainKept ==
  ASSUME FrameInv, status = "running", NEW b, ChainOf(b),
         UNCHANGED <<strings, frames, fp, status>>, fresh' \subseteq fresh,
         top' >= -1, top' <= Low(b, 1),
         \A j \in Words : IsNumber(memory[j]) =>
           memory'[j] = memory[j] \/ j <= Low(b, 1) \/ j \in Places
  PROVE  ChainInv'
<1>1. START' = START BY DEF START, string_size
<1>2. \A i : Back(b, i)' = Back(b, i) /\ Low(b, i)' = Low(b, i) BY DEF Back, Low
<1>3. ASSUME NEW i \in 1..(Len(frames) - 1)
      PROVE  memory'[b[i] + 1] = Number(Back(b, i)) /\ memory'[b[i] + 2] = Number(b[i + 1])
  <2>1. /\ b[i] + 1 \in Words /\ b[i] + 2 \in Words
        /\ b[i] + 1 > Low(b, 1) /\ b[i] + 2 > Low(b, 1)
        /\ b[i] + 1 \notin Places /\ b[i] + 2 \notin Places
        /\ memory[b[i] + 1] = Number(Back(b, i)) /\ memory[b[i] + 2] = Number(b[i + 1])
    BY FrameWords
  <2>2. IsNumber(memory[b[i] + 1]) /\ IsNumber(memory[b[i] + 2]) BY <2>1 DEF IsNumber
  <2>3. Low(b, 1) \in Int BY Running
  <2>4. b[i] + 1 \in Int /\ b[i] + 2 \in Int BY <2>1 DEF Words
  <2>5. ~(b[i] + 1 <= Low(b, 1)) /\ ~(b[i] + 2 <= Low(b, 1)) BY <2>1, <2>3, <2>4
  <2> QED BY <2>1, <2>2, <2>5
<1>4. /\ frames' \in Seq([args : Nat, locals : Nat]) /\ Len(frames') >= 1
      /\ b \in [1..Len(frames') -> Int] /\ b[1] = fp' /\ b[Len(frames')] = START' - 3
      /\ frames'[Len(frames')].args = 0
      /\ \A i, k \in 1..Len(frames') : i < k => Back(b, i)' <= Low(b, k)'
      /\ \A i \in 1..Len(frames') : i > 1 \/ status' = "running" => Low(b, i)' >= Depth - 1
  BY <1>1, <1>2 DEF ChainOf
<1>5. \A j \in fresh' : j \in Int /\ \E i \in 1..Len(frames') : Low(b, i)' < j /\ j <= b[i]
  BY <1>2 DEF ChainOf
<1>6. ChainOf(b)' BY <1>2, <1>3, <1>4, <1>5 DEF ChainOf
<1> QED BY <1>6 DEF ChainInv

\* A word that has a right to be where a collection looks.
Settled(w) == IsPointer(w) => w[2] \in Int /\ (Denotes(w) \/ w[3] \in lost)

LEMMA ScannedSettled ==
  ASSUME FrameInv, NEW j \in Scanned, j \notin fresh
  PROVE  Settled(memory[j])
BY DEF FrameInv, WordsInv, OnlyFreshOrLostAreStale, Settled, Scanned

\* Locals not assigned yet are above the operands and below the globals.
LEMMA FreshPlaces ==
  ASSUME FrameInv, status \in {"entering", "running"}, NEW b, ChainOf(b), NEW j \in fresh
  PROVE  /\ \E i \in 1..Len(frames) : Low(b, i) < j /\ j <= b[i]
         /\ j <= START - 3
         /\ status = "running" => j > Low(b, 1)
<1>1. PICK i \in 1..Len(frames) : Low(b, i) < j /\ j <= b[i] BY DEF ChainOf
<1>2. strings \in Tables BY DEF FrameInv
<1>3. /\ b[i] \in Int /\ Low(b, i) \in Int /\ b[i] + 3 <= START
      /\ i > 1 => b[1] + 3 <= Back(b, 1) /\ Back(b, 1) <= Low(b, i)
  BY <1>2, ChainPlaces
<1>4. START \in Nat BY <1>2, StartFacts
<1>5. j \in Int BY DEF ChainOf
<1>6. j <= START - 3 BY <1>1, <1>3, <1>4, <1>5
<1>7. ASSUME status = "running" PROVE j > Low(b, 1)
  <2>1. /\ Low(b, 1) \in Int /\ Low(b, 1) <= fp /\ fp \in Int
        /\ Back(b, 1) \in Int /\ fp + 3 <= Back(b, 1)
    BY <1>7, Running
  <2>2. CASE i = 1 BY <1>1, <2>2, <1>5, <2>1
  <2>3. CASE i > 1
    <3>1. PICK x \in Int, y \in Int, z \in Int :
            x = Low(b, i) /\ y = Back(b, 1) /\ z = Low(b, 1)
      BY <1>3, <2>1
    <3>2. y <= x /\ z <= fp /\ fp + 3 <= y /\ x < j BY <1>1, <1>3, <2>1, <2>3, <3>1
    <3>3. j > z BY <1>5, <2>1, <3>2
    <3> QED BY <3>1, <3>3
  <2> QED BY <2>2, <2>3
<1> QED BY <1>1, <1>6, <1>7

\* The word at which a handler pushes.
Pushed(w) ==
  /\ memory' = [j \in Words |-> IF j = top THEN w ELSE memory[j]] /\ top' = top - 1

\* A push of a settled word by the running function keeps the invariant.
LEMMA PushKeeps ==
  ASSUME FrameInv, status = "running", Operands <= Depth - 1, NEW w, Settled(w), Pushed(w),
         UNCHANGED <<chunk, fp, frames, fresh, table, allocs, status>>
  PROVE  FrameInv'
<1>1. PICK b : ChainOf(b) BY DEF FrameInv, ChainInv
<1>2. /\ top \in Int /\ top <= Low(b, 1) /\ Low(b, 1) \in Int /\ Low(b, 1) >= Depth - 1
      /\ Depth \in Nat /\ Operands = Low(b, 1) - top
  BY <1>1, Running
<1>3. top >= 0 /\ top' \in Int /\ top' >= -1 /\ top' <= Low(b, 1) BY <1>2 DEF Pushed
<1>4. strings' \in Tables BY DEF FrameInv, table
<1>5. HeapInv' BY DEF FrameInv, HeapInv, chunk
<1>6. WordsInv'
  <2>1. \A j \in Words : IsPointer(memory'[j]) => memory'[j][2] \in Int
    BY DEF Pushed, FrameInv, WordsInv, Settled, IsPointer
  <2>2. memory' = [j \in Words |-> memory'[j]] BY DEF Pushed
  <2> QED BY <1>3, <2>1, <2>2 DEF WordsInv, IsPointer
<1>7. BuildInv' BY DEF BuildInv
<1>8. ChainInv'
  <2>1. \A j \in Words : memory'[j] = memory[j] \/ j <= Low(b, 1) BY <1>2 DEF Pushed
  <2> QED BY <1>1, <1>3, <2>1, ChainKept DEF table
<1>9. OnlyFreshOrLostAreStale'
  <2> SUFFICES ASSUME NEW j \in Scanned', IsPointer(memory'[j])
               PROVE  Denotes(memory'[j]) \/ j \in fresh \/ memory'[j][3] \in lost
    BY DEF OnlyFreshOrLostAreStale, Denotes, IsContent, IsPointer, chunk, table
  <2>1. j \in Words /\ j \in Int /\ j > top - 1 BY DEF Scanned, Pushed, Words
  <2>2. CASE j = top
    <3>1. memory'[j] = w BY <2>1, <2>2 DEF Pushed
    <3> QED BY <3>1 DEF Settled
  <2>3. CASE j # top
    <3>1. memory'[j] = memory[j] BY <2>1, <2>3 DEF Pushed
    <3>2. j \in Scanned BY <1>2, <2>1, <2>3 DEF Scanned
    <3> QED BY <3>1, <3>2 DEF FrameInv, OnlyFreshOrLostAreStale
  <2> QED BY <2>2, <2>3
<1> QED BY <1>4, <1>5, <1>6, <1>7, <1>8, <1>9 DEF FrameInv

\* Exec with one word in the place of none.
LEMMA ExecPushes ==
  ASSUME FrameInv, NEW w, Exec(0, <<w>>)
  PROVE  Pushed(w) /\ Operands <= Depth - 1
<1>1. top \in Int BY DEF FrameInv, WordsInv
<1>2. Len(<<w>>) = 1 /\ <<w>>[1] = w OBVIOUS
<1>3. status = "running" BY DEF Exec, Handler
<1>4. Operands \in Int /\ Depth \in Nat
  <2>1. PICK b : ChainOf(b) BY <1>3 DEF FrameInv, ChainInv
  <2>2. /\ Low(b, 1) \in Int /\ Depth \in Nat /\ Operands = Low(b, 1) - top
    BY <1>3, <2>1, Running
  <2> QED BY <1>1, <2>2
<1>5. memory' = Written(memory, top, <<w>>) /\ top' = top - 1 /\ Operands + 1 <= Depth
  BY <1>1, <1>2, <1>4 DEF Exec, Handler
<1>6. \A j \in Words : (top - 1 < j /\ j <= top) <=> j = top BY <1>1 DEF Words
<1>7. \A j \in Words : j = top => top - j + 1 = 1 BY <1>1
<1>8. memory' = [j \in Words |-> IF j = top THEN w ELSE memory[j]]
  BY <1>1, <1>2, <1>5, <1>6, <1>7 DEF Written
<1> QED BY <1>4, <1>5, <1>8 DEF Pushed

LEMMA ConstKeeps ==
  ASSUME FrameInv, Const
  PROVE  FrameInv'
<1>1. ~IsPointer(Number(0)) BY DEF IsPointer, Number
<1>2. Settled(Number(0)) BY <1>1 DEF Settled
<1> QED BY <1>2, ExecPushes, PushKeeps DEF Const, Exec, Handler

LEMMA PushStringKeeps ==
  ASSUME FrameInv, PushString
  PROVE  FrameInv'
<1>1. PICK k \in 0..(string_counter - 1) : Exec(0, <<memory[StringAt(k)]>>) BY DEF PushString
<1>2. status = "running" BY <1>1 DEF Exec, Handler
<1>3. PICK b : ChainOf(b) BY <1>2 DEF FrameInv, ChainInv
<1>4. strings \in Tables BY DEF FrameInv
<1>5. StringAt(k) \in Words /\ StringAt(k) > START /\ START \in Nat
  BY <1>3, <1>4, StringsApart, StartFacts
<1>6. StringAt(k) \in Int BY <1>5 DEF Words
<1>7. StringAt(k) \notin fresh
  <2>1. ~(StringAt(k) <= START - 3) BY <1>5, <1>6
  <2> QED BY <1>2, <1>3, <2>1, FreshPlaces
<1>8. StringAt(k) \in Scanned
  <2>1. top \in Int /\ top <= Low(b, 1) /\ Low(b, 1) \in Int /\ Low(b, 1) <= fp
        /\ fp + 3 <= START /\ fp \in Int
    BY <1>2, <1>3, Running
  <2> QED BY <1>5, <1>6, <2>1 DEF Scanned
<1>9. Settled(memory[StringAt(k)]) BY <1>7, <1>8, ScannedSettled
<1> QED BY <1>1, <1>2, <1>9, ExecPushes, PushKeeps DEF Exec

LEMMA LoadKeeps ==
  ASSUME FrameInv, Load
  PROVE  FrameInv'
<1>1. PICK j \in Places \ fresh : Exec(0, <<memory[j]>>) BY DEF Load
<1>2. status = "running" BY DEF Load
<1>3. PICK b : ChainOf(b) BY <1>2 DEF FrameInv, ChainInv
<1>4. j \in Scanned
  <2>1. top \in Int /\ top <= Low(b, 1) /\ Low(b, 1) \in Int BY <1>2, <1>3, Running
  <2>2. j \in Words /\ j > Low(b, 1) BY <1>1, <1>2, <1>3, PlacesApart DEF FrameInv
  <2> QED BY <2>1, <2>2 DEF Scanned, Words
<1>5. Settled(memory[j]) BY <1>1, <1>4, ScannedSettled
<1> QED BY <1>1, <1>2, <1>5, ExecPushes, PushKeeps DEF Exec

LEMMA DropKeeps ==
  ASSUME FrameInv, Drop
  PROVE  FrameInv'
<1>1. status = "running" /\ UNCHANGED <<chunk, fp, frames, fresh, table, allocs, status>>
      /\ Operands >= 1 /\ memory' = Written(memory, top + 1, <<>>) /\ top' = top + 1 - Len(<<>>)
  BY DEF Drop, Exec, Handler
<1>2. PICK b : ChainOf(b) BY <1>1 DEF FrameInv, ChainInv
<1>3. top \in Int /\ top >= -1 /\ Low(b, 1) \in Int /\ Operands = Low(b, 1) - top
  BY <1>1, <1>2, Running
<1>4. Len(<<>>) = 0 OBVIOUS
<1>5. top' = top + 1 /\ top' <= Low(b, 1) /\ top' >= -1 /\ top' \in Int BY <1>1, <1>3, <1>4
<1>6. memory' = memory
  <2>1. \A j \in Words : ~(top + 1 - 0 < j /\ j <= top + 1) BY <1>3 DEF Words
  <2>2. memory' = [j \in Words |-> memory[j]] BY <1>1, <1>4, <2>1 DEF Written
  <2> QED BY <2>2 DEF FrameInv, WordsInv
<1>7. ChainInv' BY <1>1, <1>2, <1>5, <1>6, ChainKept DEF table
<1>8. OnlyFreshOrLostAreStale'
  <2>1. \A j \in Scanned' : j \in Scanned BY <1>3, <1>5 DEF Scanned, Words
  <2> QED BY <1>1, <1>6, <2>1
    DEF FrameInv, OnlyFreshOrLostAreStale, Denotes, IsContent, IsPointer, chunk, table
<1> QED BY <1>1, <1>5, <1>6, <1>7, <1>8
      DEF FrameInv, HeapInv, WordsInv, BuildInv, chunk, table

LEMMA StoreKeeps ==
  ASSUME FrameInv, Store
  PROVE  FrameInv'
<1>1. /\ status = "running" /\ UNCHANGED <<chunk, top, fp, frames, table, allocs, status>>
      /\ Operands >= 1
  BY DEF Store, Handler
<1>2. PICK j \in Places : memory' = [memory EXCEPT ![j] = memory[top + 1]] /\ fresh' = fresh \ {j}
  BY DEF Store
<1>3. PICK b : ChainOf(b) BY <1>1 DEF FrameInv, ChainInv
<1>4. /\ top \in Int /\ top >= -1 /\ top <= Low(b, 1) /\ Low(b, 1) \in Int /\ Low(b, 1) <= fp
      /\ fp + 3 <= START /\ START <= STACK /\ STACK \in Nat /\ START \in Nat /\ fp \in Int
      /\ Operands = Low(b, 1) - top
  BY <1>1, <1>3, Running
<1>5. top + 1 \in Scanned /\ top + 1 <= Low(b, 1)
  <2>1. 0 <= top + 1 /\ top + 1 < STACK /\ top + 1 <= Low(b, 1) BY <1>1, <1>4
  <2> QED BY <1>4, <2>1 DEF Scanned, Words
<1>6. top + 1 \notin fresh
  <2>1. ~(top + 1 > Low(b, 1)) BY <1>4, <1>5
  <2> QED BY <1>1, <1>3, <2>1, FreshPlaces
<1>7. Settled(memory[top + 1]) BY <1>5, <1>6, ScannedSettled
<1>8. j \in Words BY <1>1, <1>3, PlacesApart DEF FrameInv
<1>9. memory = [x \in Words |-> memory[x]] BY DEF FrameInv, WordsInv
<1>10. /\ memory' = [x \in Words |-> memory'[x]] /\ memory'[j] = memory[top + 1]
       /\ \A x \in Words : x # j => memory'[x] = memory[x]
  BY <1>2, <1>8, <1>9
<1>11. WordsInv'
  <2>1. \A x \in Words : IsPointer(memory'[x]) => memory'[x][2] \in Int
    BY <1>7, <1>10 DEF FrameInv, WordsInv, Settled, IsPointer
  <2> QED BY <1>1, <1>4, <1>10, <2>1 DEF WordsInv, IsPointer
<1>12. ChainInv' BY <1>1, <1>2, <1>3, <1>4, <1>10, ChainKept DEF table, ChainOf
<1>13. OnlyFreshOrLostAreStale'
  <2> SUFFICES ASSUME NEW x \in Scanned, IsPointer(memory'[x])
               PROVE  Denotes(memory'[x]) \/ x \in fresh' \/ memory'[x][3] \in lost
    BY <1>1 DEF OnlyFreshOrLostAreStale, Denotes, IsContent, IsPointer, chunk, table, Scanned
  <2>1. CASE x = j BY <1>7, <1>10, <2>1 DEF Settled
  <2>2. CASE x # j
    <3>1. memory'[x] = memory[x] BY <1>10, <2>2 DEF Scanned
    <3> QED BY <1>2, <2>2, <3>1 DEF FrameInv, OnlyFreshOrLostAreStale
  <2> QED BY <2>1, <2>2
<1> QED BY <1>1, <1>11, <1>12, <1>13 DEF FrameInv, HeapInv, BuildInv, chunk, table

\* The word of a new string: what is written once the string is allocated.
LEMMA StringTaken ==
  ASSUME FrameInv, NEW l \in Nat, NEW n, n = ObjectSize(l), NEW r \in Allocated(n),
         NEW k \in Words, NEW m, m = [r.memory EXCEPT ![k] = Pointer(Content(r.at), NewId)],
         Take(r, n, m)
  PROVE  /\ HeapInv'
         /\ memory' = [j \in Words |-> memory'[j]]
         /\ \A j \in Words : IsPointer(memory'[j]) => memory'[j][2] \in Int
         /\ DenotesIn(objs', memory'[k]) /\ IsPointer(memory'[k])
         /\ \A j \in Words \ {k} :
              /\ \/ memory'[j] = memory[j]
                 \/ /\ j \in Scanned /\ IsPointer(memory[j]) /\ IsPointer(memory'[j])
                    /\ memory'[j][3] = memory[j][3]
              /\ j \in Scanned /\ IsPointer(memory[j]) /\ Denotes(memory[j]) =>
                   DenotesIn(objs', memory'[j])
              /\ HasRoom(n) => memory'[j] = memory[j]
                                /\ (Denotes(memory[j]) => DenotesIn(objs', memory[j]))
<1>1. n \in Nat /\ n >= HEADER BY ObjectSizes
<1>2. Room(r, n) /\ Follows(r) /\ (HasRoom(n) => r.memory = memory /\ r.objs = objs)
  BY <1>1, AllocatedFits DEF FrameInv
<1>3. /\ HeapInv'
      /\ \A w : DenotesIn(r.objs, w) => DenotesIn(objs', w)
      /\ DenotesIn(objs', Pointer(Content(r.at), NewId))
  BY <1>1, <1>2, TakeKeepsHeap
<1>4. r.memory = [j \in Words |-> r.memory[j]] BY <1>2 DEF Follows
<1>5. memory' = m BY DEF Take
<1>6. /\ memory' = [j \in Words |-> memory'[j]] /\ memory'[k] = Pointer(Content(r.at), NewId)
      /\ \A j \in Words \ {k} : memory'[j] = r.memory[j]
  BY <1>4, <1>5
<1>7. IsPointer(memory'[k]) /\ memory'[k][2] \in Int
  <2>1. r.at \in Nat /\ HEADER \in Nat BY <1>2, Constants DEF Room
  <2>2. memory'[k][1] = "heap" /\ memory'[k][2] = r.at + HEADER
    BY <1>6 DEF Pointer, Content
  <2> QED BY <2>1, <2>2 DEF IsPointer
<1>8. ASSUME NEW j \in Words \ {k}
      PROVE  /\ \/ memory'[j] = memory[j]
                \/ /\ j \in Scanned /\ IsPointer(memory[j]) /\ IsPointer(memory'[j])
                   /\ memory'[j][2] \in Int /\ memory'[j][3] = memory[j][3]
             /\ j \in Scanned /\ IsPointer(memory[j]) /\ Denotes(memory[j]) =>
                  DenotesIn(objs', memory'[j])
             /\ HasRoom(n) => memory'[j] = memory[j]
                                /\ (Denotes(memory[j]) => DenotesIn(objs', memory[j]))
  <2>1. /\ \/ r.memory[j] = memory[j]
           \/ /\ j \in Scanned /\ IsPointer(memory[j]) /\ IsPointer(r.memory[j])
              /\ r.memory[j][2] \in Int /\ r.memory[j][3] = memory[j][3]
        /\ j \in Scanned /\ IsPointer(memory[j]) /\ Denotes(memory[j]) =>
             DenotesIn(r.objs, r.memory[j])
    BY <1>2 DEF Follows
  <2>2. memory'[j] = r.memory[j] BY <1>6
  <2>3. HasRoom(n) => memory'[j] = memory[j]
                        /\ (Denotes(memory[j]) => DenotesIn(objs', memory[j]))
    BY <1>2, <1>3, <2>2 DEF Denotes, IsContent, DenotesIn
  <2> QED BY <1>3, <2>1, <2>2, <2>3
<1>9. \A j \in Words : IsPointer(memory'[j]) => memory'[j][2] \in Int
  BY <1>7, <1>8 DEF FrameInv, WordsInv
<1> QED BY <1>3, <1>6, <1>7, <1>8, <1>9

LEMMA ToStringKeeps ==
  ASSUME FrameInv, NEW l \in Lengths, NEW r \in Allocated(ObjectSize(l)),
         Take(r, ObjectSize(l), [r.memory EXCEPT ![top + 1] = Pointer(Content(r.at), NewId)]),
         Handler(1, 1), UNCHANGED <<top, fp, frames, fresh, table, status>>
  PROVE  FrameInv'
<1>1. status = "running" /\ Operands >= 1 BY DEF Handler
<1>2. PICK b : ChainOf(b) BY <1>1 DEF FrameInv, ChainInv
<1>3. /\ top \in Int /\ top >= -1 /\ top <= Low(b, 1) /\ Low(b, 1) \in Int /\ Low(b, 1) <= fp
      /\ fp + 3 <= START /\ START <= STACK /\ STACK \in Nat /\ START \in Nat /\ fp \in Int
      /\ Operands = Low(b, 1) - top
  BY <1>1, <1>2, Running
<1>4. top + 1 \in Words /\ top + 1 <= Low(b, 1)
  <2>1. 0 <= top + 1 /\ top + 1 < STACK /\ top + 1 <= Low(b, 1) BY <1>1, <1>3
  <2> QED BY <1>3, <2>1 DEF Words
<1>5. l \in Nat BY Constants
<1>6. /\ HeapInv'
      /\ memory' = [j \in Words |-> memory'[j]]
      /\ \A j \in Words : IsPointer(memory'[j]) => memory'[j][2] \in Int
      /\ DenotesIn(objs', memory'[top + 1]) /\ IsPointer(memory'[top + 1])
      /\ \A j \in Words \ {top + 1} :
           /\ \/ memory'[j] = memory[j]
              \/ /\ j \in Scanned /\ IsPointer(memory[j]) /\ IsPointer(memory'[j])
                 /\ memory'[j][3] = memory[j][3]
           /\ j \in Scanned /\ IsPointer(memory[j]) /\ Denotes(memory[j]) =>
                DenotesIn(objs', memory'[j])
  BY <1>4, <1>5, StringTaken
<1>7. WordsInv' BY <1>3, <1>6 DEF WordsInv, IsPointer
<1>8. ChainInv'
  <2>1. \A w : IsNumber(w) => ~IsPointer(w) BY DEF IsNumber, Number, IsPointer
  <2>2. \A j \in Words : IsNumber(memory[j]) => memory'[j] = memory[j] \/ j <= Low(b, 1)
    BY <1>4, <1>6, <2>1
  <2>3. top' = top /\ UNCHANGED <<strings, frames, fp, status>> /\ fresh' = fresh BY DEF table
  <2> QED BY <1>1, <1>2, <1>3, <2>2, <2>3, ChainKept
<1>9. OnlyFreshOrLostAreStale'
  <2> SUFFICES ASSUME NEW j \in Scanned, IsPointer(memory'[j])
               PROVE  DenotesIn(objs', memory'[j]) \/ j \in fresh \/ memory'[j][3] \in lost
    BY DEF OnlyFreshOrLostAreStale, Denotes, IsContent, DenotesIn, IsPointer, table, Scanned
  <2>1. CASE j = top + 1 BY <1>6, <2>1
  <2>2. CASE j # top + 1
    <3>1. j \in Words \ {top + 1} BY <2>2 DEF Scanned
    <3>2. IsPointer(memory[j]) /\ memory'[j][3] = memory[j][3]
          /\ (Denotes(memory[j]) => DenotesIn(objs', memory'[j]))
      BY <1>6, <3>1
    <3> QED BY <3>2 DEF FrameInv, OnlyFreshOrLostAreStale
  <2> QED BY <2>1, <2>2
<1>10. strings' \in Tables /\ BuildInv' BY <1>1 DEF FrameInv, BuildInv, table
<1> QED BY <1>6, <1>7, <1>8, <1>9, <1>10 DEF FrameInv

LEMMA BeginKeeps ==
  ASSUME FrameInv, BeginFunction
  PROVE  FrameInv'
<1>1. status = "entering" /\ UNCHANGED <<chunk, table, allocs>> BY DEF BeginFunction
<1>2. strings' \in Tables /\ HeapInv' BY <1>1 DEF FrameInv, HeapInv, chunk, table
<1>3. PICK n \in NLocals :
        IF top + 1 < Depth + n
          THEN status' = "overflow" /\ UNCHANGED stack
          ELSE /\ top' = top - n
               /\ frames' = [frames EXCEPT ![1].locals = n]
               /\ fresh' = fresh \cup (top - n + 1)..top
               /\ status' = "running"
               /\ UNCHANGED <<memory, fp>>
  BY DEF BeginFunction
<1>4. CASE top + 1 < Depth + n
  <2>1. status' = "overflow" /\ UNCHANGED stack BY <1>3, <1>4
  <2> QED BY <1>1, <1>2, <2>1
        DEF FrameInv, WordsInv, BuildInv, ChainInv, OnlyFreshOrLostAreStale, Denotes, IsContent,
            IsPointer, Scanned, chunk, table, stack
<1>5. CASE ~(top + 1 < Depth + n)
  <2>1. /\ top' = top - n /\ frames' = [frames EXCEPT ![1].locals = n]
        /\ fresh' = fresh \cup (top - n + 1)..top /\ status' = "running"
        /\ UNCHANGED <<memory, fp>>
    BY <1>3, <1>5
  <2>2. PICK b : ChainOf(b) BY <1>1 DEF FrameInv, ChainInv
  <2>3. top = fp /\ frames[1].locals = 0 BY <1>1, <2>2 DEF ChainOf
  <2>4. strings \in Tables /\ top \in Int /\ n \in Nat /\ Depth \in Nat
    BY Constants DEF FrameInv, WordsInv
  <2>5. Len(frames) \in Nat /\ 1 \in 1..Len(frames) /\ b[1] = fp BY <2>2, <2>4, ChainPlaces
  <2>6. top - n >= Depth - 1 /\ top' \in Int BY <1>5, <2>1, <2>4
  <2>7. /\ frames' \in Seq([args : Nat, locals : Nat]) /\ Len(frames') = Len(frames)
        /\ frames'[1].args = frames[1].args /\ frames'[1].locals = n
        /\ \A i \in 1..Len(frames) : i # 1 => frames'[i] = frames[i]
    <3>1. frames \in Seq([args : Nat, locals : Nat]) BY <2>2 DEF ChainOf
    <3>2. frames[1] \in [args : Nat, locals : Nat] BY <2>5, <3>1, SeqElement
    <3>3. PICK f : f = [frames[1] EXCEPT !.locals = n] OBVIOUS
    <3>4. f \in [args : Nat, locals : Nat] /\ f.args = frames[1].args /\ f.locals = n
      BY <2>4, <3>2, <3>3
    <3>5. frames' = [frames EXCEPT ![1] = f] BY <2>1, <3>3
    <3> QED BY <2>5, <3>1, <3>4, <3>5
  <2>8. \A i \in 1..Len(frames) : /\ Back(b, i)' = Back(b, i)
                                  /\ i # 1 => Low(b, i)' = Low(b, i)
    BY <2>7 DEF Back, Low
  <2>9. Low(b, 1)' = top - n BY <2>3, <2>5, <2>7 DEF Low
  <2>10. START' = START BY <1>1 DEF START, string_size, table
  <2>11. ASSUME NEW j \in fresh'
         PROVE  j \in Int /\ \E i \in 1..Len(frames) : Low(b, i)' < j /\ j <= b[i]
    <3>1. CASE j \in (top - n + 1)..top
      <4>1. j \in Int /\ top - n < j /\ j <= top BY <2>4, <3>1
      <4> QED BY <2>3, <2>5, <2>9, <4>1
    <3>2. CASE j \in fresh
      <4>1. j \in Int BY <2>2, <3>2 DEF ChainOf
      <4>2. PICK i \in 1..Len(frames) : Low(b, i) < j /\ j <= b[i] BY <2>2, <3>2 DEF ChainOf
      <4>3. i # 1
        <5>1. Low(b, 1) = fp - 0 /\ fp \in Int BY <2>3, <2>4, <2>5 DEF Low
        <5> QED BY <2>5, <4>1, <4>2, <5>1
      <4> QED BY <2>8, <4>1, <4>2, <4>3
    <3> QED BY <2>1, <3>1, <3>2
  <2>12. ASSUME NEW i \in 1..Len(frames), NEW k \in 1..Len(frames), i < k
         PROVE  Back(b, i)' <= Low(b, k)'
    <3>1. k # 1 /\ Back(b, i) <= Low(b, k) BY <2>2, <2>12 DEF ChainOf
    <3> QED BY <2>8, <3>1
  <2>13. ASSUME NEW i \in 1..Len(frames) PROVE Low(b, i)' >= Depth - 1
    <3>1. CASE i = 1 BY <2>6, <2>9, <3>1
    <3>2. CASE i # 1
      <4>1. i > 1 BY <2>5, <3>2
      <4>2. Low(b, i) >= Depth - 1 BY <2>2, <4>1 DEF ChainOf
      <4> QED BY <2>8, <3>2, <4>2
    <3> QED BY <3>1, <3>2
  <2>14. ASSUME NEW i \in 1..(Len(frames) - 1)
         PROVE  memory[b[i] + 1] = Number(Back(b, i)') /\ memory[b[i] + 2] = Number(b[i + 1])
    <3>1. i \in 1..Len(frames) BY <2>5
    <3>2. i > 1 \/ fp >= -1 BY <2>3, <2>4, <2>6
    <3>3. memory[b[i] + 1] = Number(Back(b, i)) /\ memory[b[i] + 2] = Number(b[i + 1])
      BY <2>2, <3>2 DEF ChainOf
    <3> QED BY <2>8, <3>1, <3>3
  <2>15. /\ Len(frames') >= 1 /\ b \in [1..Len(frames') -> Int] /\ b[1] = fp'
         /\ b[Len(frames')] = START - 3 /\ frames'[Len(frames')].args = 0
    <3>1. /\ Len(frames) >= 1 /\ b \in [1..Len(frames) -> Int] /\ b[1] = fp
          /\ b[Len(frames)] = START - 3 /\ frames[Len(frames)].args = 0
      BY <2>2 DEF ChainOf
    <3>2. Len(frames) \in 1..Len(frames) BY <2>5, <3>1
    <3> QED BY <2>1, <2>7, <3>1, <3>2
  <2>16. top' >= -1 /\ top' <= Low(b, 1)' BY <2>1, <2>4, <2>6, <2>9
  <2>17. ChainOf(b)'
    BY <2>1, <2>7, <2>10, <2>11, <2>12, <2>13, <2>14, <2>15, <2>16 DEF ChainOf
  <2>18. WordsInv' BY <2>1, <2>6 DEF FrameInv, WordsInv, IsPointer
  <2>19. OnlyFreshOrLostAreStale'
    <3> SUFFICES ASSUME NEW j \in Scanned', IsPointer(memory[j])
                 PROVE  Denotes(memory[j]) \/ j \in fresh' \/ memory[j][3] \in lost
      BY <1>1, <2>1
      DEF OnlyFreshOrLostAreStale, Denotes, IsContent, IsPointer, chunk, table
    <3>1. j \in Words /\ j \in Int /\ j > top - n BY <2>1 DEF Scanned, Words
    <3>2. CASE j > top
      <4>1. j \in Scanned BY <3>1, <3>2 DEF Scanned
      <4> QED BY <2>1, <4>1 DEF FrameInv, OnlyFreshOrLostAreStale
    <3>3. CASE ~(j > top)
      <4>1. j \in (top - n + 1)..top BY <2>4, <3>1, <3>3
      <4> QED BY <2>1, <4>1
    <3> QED BY <3>2, <3>3
  <2> QED BY <1>2, <2>1, <2>17, <2>18, <2>19 DEF FrameInv, BuildInv, ChainInv
<1> QED BY <1>4, <1>5

\* Three words at t, t - 1 and t - 2.
LEMMA WrittenThree ==
  ASSUME NEW m, NEW t \in Int, NEW x, NEW y, NEW z, NEW j \in Words
  PROVE  Written(m, t, <<x, y, z>>)[j] =
           IF j = t THEN x ELSE IF j = t - 1 THEN y ELSE IF j = t - 2 THEN z ELSE m[j]
<1> DEFINE ws == <<x, y, z>>
<1>1. Len(ws) = 3 /\ ws[1] = x /\ ws[2] = y /\ ws[3] = z OBVIOUS
<1>2. j \in Int BY Constants DEF Words
<1>3. Written(m, t, ws)[j] = IF t - 3 < j /\ j <= t THEN ws[t - j + 1] ELSE m[j]
  BY <1>1 DEF Written
<1> HIDE DEF ws
<1>4. CASE j = t
  <2>1. t - j + 1 = 1 /\ t - 3 < j /\ j <= t BY <1>2, <1>4
  <2> QED BY <1>1, <1>3, <1>4, <2>1 DEF ws
<1>5. CASE j = t - 1
  <2>1. t - j + 1 = 2 /\ t - 3 < j /\ j <= t /\ j # t BY <1>2, <1>5
  <2> QED BY <1>1, <1>3, <1>5, <2>1 DEF ws
<1>6. CASE j = t - 2
  <2>1. t - j + 1 = 3 /\ t - 3 < j /\ j <= t /\ j # t /\ j # t - 1 BY <1>2, <1>6
  <2> QED BY <1>1, <1>3, <1>6, <2>1 DEF ws
<1>7. CASE j # t /\ j # t - 1 /\ j # t - 2
  <2>1. ~(t - 3 < j /\ j <= t) BY <1>2, <1>7
  <2> QED BY <1>3, <1>7, <2>1 DEF ws
<1> QED BY <1>4, <1>5, <1>6, <1>7

LEMMA EnterMainKeeps ==
  ASSUME FrameInv, EnterMain
  PROVE  FrameInv'
<1>1. /\ status = "building" /\ built = string_counter
      /\ memory' = Written(memory, START, <<Number(0), Number(0), Number(START)>>)
      /\ top' = START - 3 /\ fp' = START - 3
      /\ frames' = <<[args |-> 0, locals |-> 0]>>
      /\ status' = "entering"
      /\ UNCHANGED <<chunk, fresh, table, allocs>>
  BY DEF EnterMain
<1>2. /\ built \in Nat /\ top = STACK - built /\ fresh = {}
      /\ \A j \in Words : j < top => ~IsPointer(memory[j])
      /\ built > 0 => Denotes(memory[top])
  BY <1>1 DEF FrameInv, BuildInv
<1>3. strings \in Tables BY DEF FrameInv
<1>4. START \in Nat /\ START >= 3 /\ START + string_size + global_area_size = STACK
      /\ STACK \in Nat /\ global_area_size \in Nat /\ string_size \in Nat
  BY <1>3, StartFacts
<1>5. strings' \in Tables /\ HeapInv' BY <1>1 DEF FrameInv, HeapInv, chunk, table
<1>6. \A j \in Words : memory'[j] = Number(0) \/ memory'[j] = Number(START)
                         \/ (memory'[j] = memory[j] /\ j # START /\ j # START - 1 /\ j # START - 2)
  BY <1>1, <1>4, WrittenThree
<1>7. \A n : ~IsPointer(Number(n)) BY DEF IsPointer, Number
<1>8. WordsInv'
  <2>1. memory' = [j \in Words |-> memory'[j]] BY <1>1 DEF Written
  <2>2. \A j \in Words : IsPointer(memory'[j]) => memory'[j][2] \in Int
    BY <1>6, <1>7 DEF FrameInv, WordsInv
  <2> QED BY <1>1, <1>4, <2>1, <2>2 DEF WordsInv, IsPointer
<1>9. OnlyFreshOrLostAreStale'
  <2> SUFFICES ASSUME NEW j \in Scanned', IsPointer(memory'[j])
               PROVE  Denotes(memory'[j]) \/ memory'[j][3] \in lost
    BY <1>1 DEF OnlyFreshOrLostAreStale, Denotes, IsContent, IsPointer, chunk, table
  <2>1. j \in Words /\ j \in Int /\ j > START - 3 BY <1>1 DEF Scanned, Words
  <2>2. memory'[j] = memory[j] BY <1>6, <1>7, <2>1
  <2>3. ~(j < top) BY <1>2, <2>1, <2>2
  <2>4. top \in Int BY <1>2, <1>4
  <2>5. CASE j = top
    <3>1. built > 0 BY <1>2, <1>4, <2>1, <2>5 DEF Words
    <3> QED BY <1>2, <2>2, <2>5, <3>1
  <2>6. CASE j > top
    <3>1. j \in Scanned BY <2>1, <2>6 DEF Scanned
    <3> QED BY <1>2, <2>2, <3>1 DEF FrameInv, OnlyFreshOrLostAreStale
  <2> QED BY <2>1, <2>3, <2>4, <2>5, <2>6
<1>10. ChainInv'
  <2>1. PICK b : b = [i \in 1..1 |-> START - 3] OBVIOUS
  <2>2. b[1] = START - 3 /\ b \in [1..1 -> Int] BY <1>4, <2>1
  <2>3. START' = START BY <1>1 DEF START, string_size, table
  <2>4. Len(frames') = 1 /\ frames'[1] = [args |-> 0, locals |-> 0]
        /\ frames' \in Seq([args : Nat, locals : Nat])
    BY <1>1
  <2>5. frames'[1].args = 0 /\ frames'[1].locals = 0 BY <2>4
  <2>6. ChainOf(b)' BY <1>1, <1>2, <2>2, <2>3, <2>4, <2>5 DEF ChainOf
  <2> QED BY <2>6 DEF ChainInv
<1> QED BY <1>1, <1>5, <1>8, <1>9, <1>10 DEF FrameInv, BuildInv

LEMMA BuildStringKeeps ==
  ASSUME FrameInv, status = "building", built < string_counter,
         NEW n, n = ObjectSize(strings[built + 1]), NEW r \in Allocated(n),
         Take(r, n, [r.memory EXCEPT ![top - 1] = Pointer(Content(r.at), NewId)]),
         top' = top - 1, built' = built + 1,
         lost' = IF HasRoom(n) \/ built = 0 THEN lost ELSE lost \cup {memory[top][3]},
         UNCHANGED <<strings, fp, frames, fresh, allocs, status>>
  PROVE  FrameInv'
<1>1. /\ built \in Nat /\ top = STACK - built /\ fresh = {}
      /\ \A j \in Words : j < top => ~IsPointer(memory[j])
      /\ built > 0 => Denotes(memory[top])
  BY DEF FrameInv, BuildInv
<1>2. strings \in Tables BY DEF FrameInv
<1>3. /\ START \in Nat /\ START >= 3 /\ START + string_size + global_area_size = STACK
      /\ STACK \in Nat /\ global_area_size \in Nat /\ string_size \in Nat
      /\ string_counter \in Nat /\ string_counter < string_size
  BY <1>2, StartFacts
<1>4. strings[built + 1] \in Nat
  <2>1. built + 1 \in 1..string_counter BY <1>1, <1>3
  <2> QED BY <1>2, <2>1, StartFacts
<1>5. top \in Int /\ top - 1 \in Words
  <2>1. 0 <= top - 1 /\ top - 1 < STACK /\ top \in Int BY <1>1, <1>3
  <2> QED BY <1>3, <2>1 DEF Words
<1>6. /\ HeapInv'
      /\ memory' = [j \in Words |-> memory'[j]]
      /\ \A j \in Words : IsPointer(memory'[j]) => memory'[j][2] \in Int
      /\ DenotesIn(objs', memory'[top - 1]) /\ IsPointer(memory'[top - 1])
      /\ \A j \in Words \ {top - 1} :
           /\ \/ memory'[j] = memory[j]
              \/ /\ j \in Scanned /\ IsPointer(memory[j]) /\ IsPointer(memory'[j])
                 /\ memory'[j][3] = memory[j][3]
           /\ j \in Scanned /\ IsPointer(memory[j]) /\ Denotes(memory[j]) =>
                DenotesIn(objs', memory'[j])
           /\ HasRoom(n) => memory'[j] = memory[j]
                             /\ (Denotes(memory[j]) => DenotesIn(objs', memory[j]))
  BY <1>4, <1>5, StringTaken
<1>7. WordsInv' BY <1>5, <1>6 DEF WordsInv, IsPointer
<1>8. BuildInv'
  <2>1. \A j \in Words : j < top - 1 => ~IsPointer(memory'[j])
    <3> SUFFICES ASSUME NEW j \in Words, j < top - 1 PROVE ~IsPointer(memory'[j]) OBVIOUS
    <3>1. j \in Int /\ j < top /\ ~(j > top) /\ j # top - 1 BY <1>5 DEF Words
    <3>2. j \notin Scanned BY <3>1 DEF Scanned
    <3> QED BY <1>1, <1>6, <3>1, <3>2
  <2>2. DenotesIn(objs', memory'[top']) BY <1>6
  <2>3. /\ built' \in Nat /\ built' <= Len(strings') /\ top' = STACK - built' /\ fresh' = {}
    BY <1>1, <1>3 DEF string_counter
  <2> QED BY <2>1, <2>2, <2>3
        DEF BuildInv, string_counter, Denotes, IsContent, DenotesIn, IsPointer
<1>9. ChainInv' BY DEF ChainInv
<1>10. OnlyFreshOrLostAreStale'
  <2> SUFFICES ASSUME NEW j \in Scanned', IsPointer(memory'[j])
               PROVE  DenotesIn(objs', memory'[j]) \/ memory'[j][3] \in lost'
    BY DEF OnlyFreshOrLostAreStale, Denotes, IsContent, DenotesIn, IsPointer
  <2>1. j \in Words /\ j \in Int /\ j > top - 1 /\ j \in Words \ {top - 1}
    BY <1>5 DEF Scanned, Words
  <2>2. CASE j = top
    <3>1. built > 0 BY <1>1, <1>3, <2>1, <2>2 DEF Words
    <3>2. j \notin Scanned BY <1>5, <2>2 DEF Scanned
    <3>3. memory'[j] = memory[j] BY <1>6, <2>1, <3>2
    <3>4. CASE HasRoom(n) BY <1>1, <1>6, <2>1, <2>2, <3>1, <3>3, <3>4
    <3>5. CASE ~HasRoom(n) BY <1>1, <2>2, <3>1, <3>3, <3>5
    <3> QED BY <3>4, <3>5
  <2>3. CASE j > top
    <3>1. j \in Scanned BY <2>1, <2>3 DEF Scanned
    <3>2. IsPointer(memory[j]) /\ memory'[j][3] = memory[j][3]
          /\ (Denotes(memory[j]) => DenotesIn(objs', memory'[j]))
      BY <1>6, <2>1, <3>1
    <3>3. Denotes(memory[j]) \/ memory[j][3] \in lost
      BY <1>1, <3>1, <3>2 DEF FrameInv, OnlyFreshOrLostAreStale
    <3> QED BY <3>2, <3>3
  <2> QED BY <1>5, <2>1, <2>2, <2>3
<1> QED BY <1>2, <1>6, <1>7, <1>8, <1>9, <1>10 DEF FrameInv

\* CALL: the arguments change places among themselves, and the frame follows.
LEMMA CalledWords ==
  ASSUME FrameInv, status = "running", NEW b, ChainOf(b), NEW n \in Nat, Operands >= n,
         Frame(n, 1)
  PROVE  /\ memory' = [j \in Words |-> memory'[j]]
         /\ top' = top - 3 /\ fp' = top - 3 /\ top + n <= Low(b, 1)
         /\ \A j \in Words :
              /\ j = top - 1 => memory'[j] = Number(fp)
              /\ j = top - 2 => memory'[j] = Number(top + n)
              /\ top - 3 < j /\ j <= top => IsNumber(memory'[j])
              /\ j > top + n => memory'[j] = memory[j]
              /\ j < top - 2 => memory'[j] = memory[j]
              /\ top < j /\ j <= top + n =>
                   \E k \in Words : top < k /\ k <= Low(b, 1) /\ memory'[j] = memory[k]
<1>1. /\ top \in Int /\ top >= -1 /\ Low(b, 1) \in Int /\ Low(b, 1) <= fp
      /\ fp + 3 <= START /\ START <= STACK /\ STACK \in Nat /\ START \in Nat /\ fp \in Int
      /\ Operands = Low(b, 1) - top
  BY Running
<1>2. top + n <= Low(b, 1) BY <1>1
<1>3. PICK m : m = IF n > 1 THEN Reversed(memory, top + 1, n) ELSE memory OBVIOUS
<1>4. memory' = Written(m, top, <<Number(1), Number(fp), Number(top + n)>>)
      /\ top' = top - 3 /\ fp' = top - 3
  BY <1>3 DEF Frame
<1>5. ASSUME NEW j \in Words
      PROVE  /\ ~(top < j /\ j <= top + n) => m[j] = memory[j]
             /\ top < j /\ j <= top + n =>
                  \E k \in Words : top < k /\ k <= Low(b, 1) /\ m[j] = memory[k]
  <2>1. j \in Int /\ 0 <= j /\ j < STACK BY <1>1 DEF Words
  <2>2. CASE n > 1
    <3>1. m[j] = IF top + 1 <= j /\ j < top + 1 + n
                   THEN memory[top + 1 + n - 1 - (j - (top + 1))] ELSE memory[j]
      BY <1>3, <2>2 DEF Reversed
    <3>2. ASSUME top < j, j <= top + n
          PROVE  \E k \in Words : top < k /\ k <= Low(b, 1) /\ m[j] = memory[k]
      <4>1. PICK k \in Int : k = top + 1 + n - 1 - (j - (top + 1)) BY <1>1, <2>1
      <4>2. top < k /\ k <= top + n BY <1>1, <2>1, <3>2, <4>1
      <4>3. 0 <= k /\ k < STACK BY <1>1, <1>2, <4>2
      <4>4. top + 1 <= j /\ j < top + 1 + n BY <1>1, <2>1, <3>2
      <4>5. k \in Words BY <1>1, <4>3 DEF Words
      <4>6. m[j] = memory[k] BY <3>1, <4>1, <4>4
      <4>7. k <= Low(b, 1) BY <1>1, <1>2, <4>2
      <4> QED BY <4>2, <4>5, <4>6, <4>7
    <3>3. ASSUME ~(top < j /\ j <= top + n) PROVE m[j] = memory[j]
      <4>1. ~(top + 1 <= j /\ j < top + 1 + n) BY <1>1, <2>1, <3>3
      <4> QED BY <3>1, <4>1
    <3> QED BY <3>2, <3>3
  <2>3. CASE ~(n > 1)
    <3>1. m = memory BY <1>3, <2>3
    <3>2. ASSUME j <= top + n PROVE j <= Low(b, 1) BY <1>1, <1>2, <2>1, <3>2
    <3> QED BY <3>1, <3>2
  <2> QED BY <2>2, <2>3
<1>6. ASSUME NEW j \in Words
      PROVE  /\ j = top - 1 => memory'[j] = Number(fp)
             /\ j = top - 2 => memory'[j] = Number(top + n)
             /\ top - 3 < j /\ j <= top => IsNumber(memory'[j])
             /\ j > top + n => memory'[j] = memory[j]
             /\ j < top - 2 => memory'[j] = memory[j]
             /\ top < j /\ j <= top + n =>
                  \E k \in Words : top < k /\ k <= Low(b, 1) /\ memory'[j] = memory[k]
  <2>1. memory'[j] = IF j = top THEN Number(1) ELSE IF j = top - 1 THEN Number(fp)
                       ELSE IF j = top - 2 THEN Number(top + n) ELSE m[j]
    BY <1>1, <1>4, WrittenThree
  <2>2. j \in Int BY <1>1 DEF Words
  <2>3. j = top - 1 => j # top BY <1>1
  <2>4. j = top - 2 => j # top /\ j # top - 1 BY <1>1
  <2>5. top - 3 < j /\ j <= top => j = top \/ j = top - 1 \/ j = top - 2 BY <1>1, <2>2
  <2>6. top < j => j # top /\ j # top - 1 /\ j # top - 2 BY <1>1, <2>2
  <2>7. j > top + n => top < j /\ ~(j <= top + n) BY <1>1, <2>2
  <2>8. j < top - 2 => ~(top < j) /\ j # top /\ j # top - 1 /\ j # top - 2 BY <1>1, <2>2
  <2> QED BY <1>5, <2>1, <2>3, <2>4, <2>5, <2>6, <2>7, <2>8 DEF IsNumber
<1>7. memory' = [j \in Words |-> memory'[j]] BY <1>4 DEF Written
<1> QED BY <1>2, <1>4, <1>6, <1>7

LEMMA CallKeeps ==
  ASSUME FrameInv, Call
  PROVE  FrameInv'
<1>1. PICK n \in NArgs : /\ Handler(n, 0) /\ Frame(n, 1)
                         /\ frames' = <<[args |-> n, locals |-> 0]>> \o frames
  BY DEF Call
<1>2. status = "running" /\ status' = "entering" /\ UNCHANGED <<chunk, fresh, table, allocs>>
      /\ Operands >= n /\ n \in Nat
  BY <1>1, Constants DEF Call, Handler
<1>3. PICK b : ChainOf(b) BY <1>2 DEF FrameInv, ChainInv
<1>4. /\ top \in Int /\ top >= -1 /\ top <= Low(b, 1) /\ Low(b, 1) \in Int /\ Low(b, 1) <= fp
      /\ fp \in Int /\ strings \in Tables
  BY <1>2, <1>3, Running
<1>5. /\ memory' = [j \in Words |-> memory'[j]]
      /\ top' = top - 3 /\ fp' = top - 3 /\ top + n <= Low(b, 1)
      /\ \A j \in Words :
           /\ j = top - 1 => memory'[j] = Number(fp)
           /\ j = top - 2 => memory'[j] = Number(top + n)
           /\ top - 3 < j /\ j <= top => IsNumber(memory'[j])
           /\ j > top + n => memory'[j] = memory[j]
           /\ j < top - 2 => memory'[j] = memory[j]
           /\ top < j /\ j <= top + n =>
                \E k \in Words : top < k /\ k <= Low(b, 1) /\ memory'[j] = memory[k]
  BY <1>1, <1>2, <1>3, CalledWords
<1>6. strings' \in Tables /\ HeapInv' BY <1>2, <1>4 DEF FrameInv, HeapInv, chunk, table
<1>7. \A w : IsNumber(w) => ~IsPointer(w) BY DEF IsNumber, Number, IsPointer
<1>8. ASSUME NEW j \in Words, IsPointer(memory'[j])
      PROVE  \E k \in Words : /\ memory'[j] = memory[k]
                              /\ k = j \/ (top < k /\ k <= Low(b, 1))
                              /\ j > top => k > top
  <2>1. j \in Int BY DEF Words
  <2>2. CASE top - 3 < j /\ j <= top BY <1>5, <1>7, <1>8, <2>2
  <2>3. CASE j > top + n BY <1>5, <2>3
  <2>4. CASE j < top - 2 BY <1>5, <2>4
  <2>5. CASE top < j /\ j <= top + n BY <1>5, <2>5
  <2>6. (top - 3 < j /\ j <= top) \/ j > top + n \/ j < top - 2 \/ (top < j /\ j <= top + n)
    BY <1>2, <1>4, <2>1
  <2> QED BY <2>2, <2>3, <2>4, <2>5, <2>6
<1>9. WordsInv'
  <2>1. \A j \in Words : IsPointer(memory'[j]) => memory'[j][2] \in Int
    BY <1>8 DEF FrameInv, WordsInv
  <2>2. top' \in Int BY <1>4, <1>5
  <2> QED BY <1>5, <2>1, <2>2 DEF WordsInv, IsPointer
<1>10. OnlyFreshOrLostAreStale'
  <2> SUFFICES ASSUME NEW j \in Scanned', IsPointer(memory'[j])
               PROVE  Denotes(memory'[j]) \/ j \in fresh \/ memory'[j][3] \in lost
    BY <1>2 DEF OnlyFreshOrLostAreStale, Denotes, IsContent, IsPointer, chunk, table
  <2>1. j \in Words /\ j \in Int /\ j > top - 3 BY <1>5 DEF Scanned, Words
  <2>2. j > top
    <3>1. ~(top - 3 < j /\ j <= top) BY <1>5, <1>7, <2>1
    <3> QED BY <1>4, <2>1, <3>1
  <2>3. PICK k \in Words : /\ memory'[j] = memory[k]
                           /\ k = j \/ (top < k /\ k <= Low(b, 1))
                           /\ k > top
    BY <1>8, <2>1, <2>2
  <2>4. k \in Scanned BY <2>3 DEF Scanned
  <2>5. CASE k = j BY <2>3, <2>4, <2>5 DEF FrameInv, OnlyFreshOrLostAreStale
  <2>6. CASE top < k /\ k <= Low(b, 1)
    <3>1. k \in Int BY DEF Words
    <3>2. ~(k > Low(b, 1)) BY <1>4, <2>6, <3>1
    <3>3. k \notin fresh BY <1>2, <1>3, <3>2, FreshPlaces
    <3> QED BY <2>3, <2>4, <3>3 DEF FrameInv, OnlyFreshOrLostAreStale
  <2> QED BY <2>3, <2>5, <2>6
<1>11. ChainInv'
  <2> DEFINE L == Len(frames)
  <2>1. L \in Nat /\ L >= 1 /\ frames \in Seq([args : Nat, locals : Nat])
        /\ b \in [1..L -> Int] /\ b[1] = fp /\ b[L] = START - 3 /\ frames[L].args = 0
    BY <1>3, <1>4, ChainPlaces DEF ChainOf
  <2>2. PICK f : f = [args |-> n, locals |-> 0] OBVIOUS
  <2>3. f \in [args : Nat, locals : Nat] /\ f.args = n /\ f.locals = 0 BY <1>2, <2>2
  <2>4. /\ frames' \in Seq([args : Nat, locals : Nat]) /\ Len(frames') = L + 1
        /\ frames'[1] = f /\ \A i \in 2..(L + 1) : frames'[i] = frames[i - 1]
    BY <1>1, <2>1, <2>2, <2>3
  <2>5. PICK c : c = [i \in 1..(L + 1) |-> IF i = 1 THEN top - 3 ELSE b[i - 1]] OBVIOUS
  <2>6. c \in [1..(L + 1) -> Int]
    <3>1. \A i \in 1..(L + 1) : i # 1 => i - 1 \in 1..L BY <2>1
    <3> QED BY <1>4, <2>1, <2>5, <3>1
  <2>7. c[1] = top - 3 /\ \A i \in 2..(L + 1) : c[i] = b[i - 1] /\ i - 1 \in 1..L
    BY <2>1, <2>5
  <2>8. Back(c, 1)' = top + n /\ Low(c, 1)' = top - 3
    BY <1>2, <1>4, <2>3, <2>4, <2>7 DEF Back, Low
  <2>9. \A i \in 2..(L + 1) : /\ Back(c, i)' = Back(b, i - 1) /\ Low(c, i)' = Low(b, i - 1)
                              /\ i - 1 \in 1..L
    BY <2>4, <2>7 DEF Back, Low
  <2>10. START' = START BY <1>2 DEF START, string_size, table
  <2>11. c[L + 1] = START - 3 /\ frames'[L + 1].args = 0
    <3>1. PICK x : x = L + 1 OBVIOUS
    <3>2. x \in 2..(L + 1) /\ x - 1 = L BY <2>1, <3>1
    <3>3. c[x] = b[L] /\ frames'[x] = frames[L] BY <2>4, <2>7, <3>2
    <3> QED BY <2>1, <3>1, <3>3
  <2>12. ASSUME NEW i \in 1..(L + 1), NEW k \in 1..(L + 1), i < k
         PROVE  Back(c, i)' <= Low(c, k)'
    <3>1. k \in 2..(L + 1) /\ k - 1 \in 1..L /\ Low(c, k)' = Low(b, k - 1)
      <4>1. k \in 2..(L + 1) BY <2>1, <2>12
      <4> QED BY <2>9, <4>1
    <3>2. CASE i = 1
      <4>1. Low(b, 1) <= Low(b, k - 1)
        <5>1. CASE k - 1 = 1 BY <1>4, <5>1
        <5>2. CASE k - 1 > 1
          <6>1. Back(b, 1) <= Low(b, k - 1) /\ Low(b, k - 1) \in Int
            BY <1>3, <1>4, <3>1, <5>2, ChainPlaces
          <6>2. Back(b, 1) \in Int /\ fp + 3 <= Back(b, 1) BY <1>2, <1>3, Running
          <6> QED BY <1>4, <6>1, <6>2
        <5>3. k - 1 = 1 \/ k - 1 > 1 BY <3>1
        <5> QED BY <5>1, <5>2, <5>3
      <4>2. Low(b, k - 1) \in Int BY <1>3, <1>4, <3>1, ChainPlaces
      <4> QED BY <1>2, <1>4, <1>5, <2>8, <3>1, <3>2, <4>1, <4>2, SMTT(40)
    <3>3. CASE i # 1
      <4>1. i \in 2..(L + 1) /\ i - 1 < k - 1 BY <2>1, <2>12, <3>3
      <4>2. Back(c, i)' = Back(b, i - 1) /\ i - 1 \in 1..L BY <2>9, <4>1
      <4>3. Back(b, i - 1) <= Low(b, k - 1) BY <1>3, <3>1, <4>1, <4>2 DEF ChainOf
      <4> QED BY <3>1, <4>2, <4>3
    <3> QED BY <3>2, <3>3
  <2>13. ASSUME NEW i \in 1..(L + 1), i > 1 PROVE Low(c, i)' >= Depth - 1
    <3>1. i \in 2..(L + 1) BY <2>1, <2>13
    <3> QED BY <1>2, <1>3, <2>9, <3>1 DEF ChainOf
  <2>14. ASSUME NEW i \in 1..L, i > 1 \/ fp' >= -1
         PROVE  memory'[c[i] + 1] = Number(Back(c, i)') /\ memory'[c[i] + 2] = Number(c[i + 1])
    <3>1. CASE i = 1
      <4>1. 2 \in 2..(L + 1) /\ 2 - 1 = 1 /\ c[2] = b[1] BY <2>1, <2>7
      <4>2. top - 3 >= -1 BY <1>5, <2>14, <3>1
      <4>3. top - 2 \in Words /\ top - 1 \in Words
        <5>1. Low(b, 1) <= STACK - 3 /\ STACK \in Nat
          <6>1. fp + 3 <= START /\ START <= STACK /\ STACK \in Nat /\ START \in Nat
            BY <1>2, <1>3, Running
          <6> QED BY <1>4, <6>1
        <5>2. 0 <= top - 2 /\ top - 1 < STACK BY <1>4, <4>2, <5>1
        <5> QED BY <1>4, <5>1, <5>2 DEF Words
      <4>4. c[1] + 1 = top - 2 /\ c[1] + 2 = top - 1 BY <1>4, <2>7
      <4>5. memory'[top - 2] = Number(top + n) /\ memory'[top - 1] = Number(fp)
        BY <1>5, <4>3
      <4>6. c[i + 1] = fp BY <2>1, <3>1, <4>1
      <4> QED BY <2>8, <3>1, <4>4, <4>5, <4>6
    <3>2. CASE i # 1
      <4>1. i \in 2..(L + 1) /\ i - 1 \in 1..(L - 1) /\ i + 1 \in 2..(L + 1)
            /\ (i + 1) - 1 = (i - 1) + 1
        BY <2>1, <3>2
      <4>2. c[i] = b[i - 1] /\ c[i + 1] = b[(i - 1) + 1] /\ Back(c, i)' = Back(b, i - 1)
        BY <2>7, <2>9, <4>1
      <4>3. PICK x : x = i - 1 OBVIOUS
      <4>4. /\ b[x] + 1 \in Words /\ b[x] + 2 \in Words
            /\ b[x] + 1 > Low(b, 1) /\ b[x] + 2 > Low(b, 1)
            /\ memory[b[x] + 1] = Number(Back(b, x)) /\ memory[b[x] + 2] = Number(b[x + 1])
        BY <1>2, <1>3, <4>1, <4>3, FrameWords
      <4>5. PICK u \in Int, v \in Int : u = b[x] + 1 /\ v = b[x] + 2 BY <4>4 DEF Words
      <4>6. u > top + n /\ v > top + n BY <1>2, <1>4, <1>5, <4>4, <4>5
      <4>7. memory'[u] = memory[u] /\ memory'[v] = memory[v] BY <1>5, <4>4, <4>5, <4>6
      <4> QED BY <4>2, <4>3, <4>4, <4>5, <4>7
    <3> QED BY <3>1, <3>2
  <2>15. ASSUME NEW j \in fresh
         PROVE  j \in Int /\ \E i \in 1..(L + 1) : Low(c, i)' < j /\ j <= c[i]
    <3>1. j \in Int BY <1>3 DEF ChainOf
    <3>2. PICK i \in 1..L : Low(b, i) < j /\ j <= b[i] BY <1>3 DEF ChainOf
    <3>3. PICK x : x = i + 1 OBVIOUS
    <3>4. x \in 2..(L + 1) /\ x \in 1..(L + 1) /\ x - 1 = i BY <2>1, <3>3
    <3>5. Low(c, x)' = Low(b, i) /\ c[x] = b[i] BY <2>7, <2>9, <3>4
    <3> QED BY <3>1, <3>2, <3>4, <3>5
  <2>16. (L + 1) - 1 = L BY <2>1
  <2> HIDE DEF L
  <2>17. frames'[1].locals = 0 BY <2>3, <2>4
  <2>18. L + 1 >= 1 BY <2>1
  <2>19. ChainOf(c)'
    BY <1>2, <1>5, <2>4, <2>6, <2>7, <2>10, <2>11, <2>12, <2>13, <2>14, <2>15, <2>16, <2>17,
       <2>18
    DEF ChainOf
  <2> QED BY <2>19 DEF ChainInv
<1>12. BuildInv' BY <1>2 DEF BuildInv
<1> QED BY <1>6, <1>9, <1>10, <1>11, <1>12 DEF FrameInv

\* END: the result goes where the arguments began, above all that is left behind.
LEMMA EndKeeps ==
  ASSUME FrameInv, EndFunction
  PROVE  FrameInv'
<1>1. status = "running" /\ Operands >= 1 /\ UNCHANGED <<chunk, table, allocs>>
  BY DEF EndFunction, Handler
<1>2. strings' \in Tables /\ HeapInv' BY <1>1 DEF FrameInv, HeapInv, chunk, table
<1>3. PICK b : ChainOf(b) BY <1>1 DEF FrameInv, ChainInv
<1>4. CASE Len(frames) = 1
  <2>1. status' = "finished" /\ UNCHANGED stack BY <1>4 DEF EndFunction
  <2> QED BY <1>1, <1>2, <2>1
        DEF FrameInv, WordsInv, BuildInv, ChainInv, OnlyFreshOrLostAreStale, Denotes, IsContent,
            IsPointer, Scanned, chunk, table, stack
<1>5. CASE Len(frames) # 1
  <2> DEFINE L == Len(frames)
             back == Back(b, 1)
  <2>1. L \in Nat /\ L >= 2 /\ frames \in Seq([args : Nat, locals : Nat])
        /\ b \in [1..L -> Int] /\ b[1] = fp /\ b[L] = START - 3 /\ frames[L].args = 0
        /\ strings \in Tables
    <3>1. strings \in Tables BY DEF FrameInv
    <3>2. L \in Nat BY <1>3, <3>1, ChainPlaces
    <3>3. L >= 1 /\ frames \in Seq([args : Nat, locals : Nat])
          /\ b \in [1..L -> Int] /\ b[1] = fp /\ b[L] = START - 3 /\ frames[L].args = 0
      BY <1>3 DEF ChainOf
    <3>4. L >= 2
      <4>1. \A x \in Nat : x >= 1 /\ x # 1 => x >= 2 OBVIOUS
      <4> QED BY <1>5, <3>2, <3>3, <4>1
    <3> HIDE DEF L
    <3> QED BY <3>1, <3>2, <3>3, <3>4
  <2>2. /\ top \in Int /\ top >= -1 /\ top <= Low(b, 1) /\ Low(b, 1) \in Int /\ Low(b, 1) <= fp
        /\ fp \in Int /\ back \in Int /\ fp + 3 <= back /\ back <= START
        /\ START <= STACK /\ STACK \in Nat /\ START \in Nat /\ fp >= -1
        /\ Operands = Low(b, 1) - top /\ fp + 3 <= START
    BY <1>1, <1>3, Running
  <2>3. memory[fp + 1] = Number(back) /\ memory[fp + 2] = Number(b[2])
    <3>1. 1 \in 1..(L - 1) BY <2>1
    <3>2. memory[b[1] + 1] = Number(Back(b, 1)) /\ memory[b[1] + 2] = Number(b[1 + 1])
      BY <1>1, <1>3, <3>1, FrameWords
    <3> QED BY <2>1, <3>2
  <2>4. memory[fp + 1][2] = back /\ memory[fp + 2][2] = b[2]
    <3>1. \A x : Number(x)[2] = x BY DEF Number
    <3> QED BY <2>3, <3>1
  <2>5. /\ memory' = Written(memory, back, <<memory[top + 1]>>)
        /\ top' = back - 1 /\ fp' = b[2] /\ frames' = Tail(frames)
        /\ fresh' = {j \in fresh : j > back} /\ status' = "running"
    BY <1>1, <1>5, <2>4 DEF EndFunction
  <2> HIDE DEF back
  <2>6. top + 1 \in Scanned /\ top + 1 <= Low(b, 1) /\ top + 1 \notin fresh
    <3>1. 0 <= top + 1 /\ top + 1 < STACK /\ top + 1 <= Low(b, 1) BY <1>1, <2>2
    <3>2. top + 1 \in Scanned BY <2>2, <3>1 DEF Scanned, Words
    <3>3. ~(top + 1 > Low(b, 1)) BY <2>2, <3>1
    <3>4. top + 1 \notin fresh BY <1>1, <1>3, <3>3, FreshPlaces
    <3> QED BY <3>1, <3>2, <3>4
  <2>7. Settled(memory[top + 1]) BY <2>6, ScannedSettled
  <2>8. memory' = [j \in Words |-> IF j = back THEN memory[top + 1] ELSE memory[j]]
    <3>1. Len(<<memory[top + 1]>>) = 1 /\ <<memory[top + 1]>>[1] = memory[top + 1] OBVIOUS
    <3>2. \A j \in Words : (back - 1 < j /\ j <= back) <=> j = back BY <2>2 DEF Words
    <3>3. \A j \in Words : j = back => back - j + 1 = 1 BY <2>2
    <3> QED BY <2>5, <3>1, <3>2, <3>3 DEF Written
  <2>9. WordsInv'
    <3>1. memory' = [j \in Words |-> memory'[j]] BY <2>8
    <3>2. \A j \in Words : IsPointer(memory'[j]) => memory'[j][2] \in Int
      BY <2>7, <2>8 DEF FrameInv, WordsInv, Settled
    <3>3. top' \in Int BY <2>2, <2>5
    <3> QED BY <3>1, <3>2, <3>3 DEF WordsInv, IsPointer
  <2>10. OnlyFreshOrLostAreStale'
    <3> SUFFICES ASSUME NEW j \in Scanned', IsPointer(memory'[j])
                 PROVE  Denotes(memory'[j]) \/ j \in fresh' \/ memory'[j][3] \in lost
      BY <1>1 DEF OnlyFreshOrLostAreStale, Denotes, IsContent, IsPointer, chunk, table
    <3>1. j \in Words /\ j \in Int /\ j > back - 1 BY <2>5 DEF Scanned, Words
    <3>2. CASE j = back BY <2>7, <2>8, <3>1, <3>2 DEF Settled
    <3>3. CASE j # back
      <4>1. j > back /\ j > top BY <2>2, <3>1, <3>3
      <4>2. j \in Scanned /\ memory'[j] = memory[j] BY <2>8, <3>1, <3>3, <4>1 DEF Scanned
      <4> QED BY <2>5, <4>1, <4>2 DEF FrameInv, OnlyFreshOrLostAreStale
    <3> QED BY <3>2, <3>3
  <2>11. PICK c : c = [i \in 1..(L - 1) |-> b[i + 1]] OBVIOUS
  <2>12. /\ frames' \in Seq([args : Nat, locals : Nat]) /\ Len(frames') = L - 1
         /\ \A i \in 1..(L - 1) : frames'[i] = frames[i + 1]
    BY <2>1, <2>5
  <2>13. c \in [1..(L - 1) -> Int] /\ \A i \in 1..(L - 1) : c[i] = b[i + 1] /\ i + 1 \in 1..L
    <3>1. \A i \in 1..(L - 1) : i + 1 \in 1..L BY <2>1
    <3>2. \A i \in 1..L : b[i] \in Int BY <2>1
    <3> QED BY <2>11, <3>1, <3>2
  <2>14. \A i \in 1..(L - 1) : Back(c, i)' = Back(b, i + 1) /\ Low(c, i)' = Low(b, i + 1)
    BY <2>12, <2>13 DEF Back, Low
  <2>15. START' = START BY <1>1 DEF START, string_size, table
  <2>16. ASSUME NEW i \in 2..L
         PROVE  /\ i \in 1..L /\ b[i] \in Int /\ Low(b, i) \in Int /\ back <= Low(b, i)
                /\ Low(b, i) <= b[i] /\ Low(b, i) >= Depth - 1
    <3>1. i \in 1..L /\ i > 1 BY <2>1
    <3> QED BY <1>3, <2>1, <3>1, ChainPlaces DEF ChainOf, back
  <2>17. c[1] = fp' /\ c[L - 1] = START - 3 /\ frames'[L - 1].args = 0
    <3>1. 1 \in 1..(L - 1) /\ 1 + 1 = 2 BY <2>1
    <3>2. PICK x : x = L - 1 OBVIOUS
    <3>3. x \in 1..(L - 1) /\ x + 1 = L BY <2>1, <3>2
    <3>4. c[x] = b[L] /\ frames'[x] = frames[L] BY <2>12, <2>13, <3>3
    <3> QED BY <2>1, <2>5, <2>13, <3>1, <3>2, <3>4
  <2>18. ASSUME NEW i \in 1..(L - 1), NEW k \in 1..(L - 1), i < k
         PROVE  Back(c, i)' <= Low(c, k)'
    <3>1. i + 1 \in 1..L /\ k + 1 \in 1..L /\ i + 1 < k + 1 BY <2>1, <2>18
    <3>2. Back(b, i + 1) <= Low(b, k + 1) BY <1>3, <3>1 DEF ChainOf
    <3> QED BY <2>14, <3>2
  <2>19. ASSUME NEW i \in 1..(L - 1) PROVE Low(c, i)' >= Depth - 1
    <3>1. i + 1 \in 2..L BY <2>1
    <3>2. PICK x \in 2..L : x = i + 1 BY <3>1
    <3> QED BY <2>14, <2>16, <3>2
  <2>20. ASSUME NEW i \in 1..(L - 2)
         PROVE  memory'[c[i] + 1] = Number(Back(c, i)') /\ memory'[c[i] + 2] = Number(c[i + 1])
    <3>1. PICK x : x = i + 1 OBVIOUS
    <3>2. x \in 2..L /\ x \in 1..(L - 1) /\ i \in 1..(L - 1) /\ i + 1 \in 1..(L - 1)
      BY <2>1, <3>1
    <3>3. c[i] = b[x] /\ c[i + 1] = b[x + 1] /\ Back(c, i)' = Back(b, x)
      BY <2>13, <2>14, <3>1, <3>2
    <3>4. /\ b[x] + 1 \in Words /\ b[x] + 2 \in Words
          /\ memory[b[x] + 1] = Number(Back(b, x)) /\ memory[b[x] + 2] = Number(b[x + 1])
      BY <1>1, <1>3, <3>2, FrameWords
    <3>5. b[x] + 1 # back /\ b[x] + 2 # back
      <4>1. PICK u \in Int, v \in Int : u = b[x] /\ v = Low(b, x) BY <2>16, <3>2
      <4>2. back <= v /\ v <= u BY <2>16, <3>2, <4>1
      <4>3. u + 1 # back /\ u + 2 # back BY <2>2, <4>2
      <4> QED BY <4>1, <4>3
    <3> QED BY <2>8, <3>3, <3>4, <3>5
  <2>21. ASSUME NEW j \in fresh'
         PROVE  j \in Int /\ \E i \in 1..(L - 1) : Low(c, i)' < j /\ j <= c[i]
    <3>1. j \in fresh /\ j > back BY <2>5
    <3>2. j \in Int BY <1>3, <3>1 DEF ChainOf
    <3>3. PICK i \in 1..L : Low(b, i) < j /\ j <= b[i] BY <1>3, <3>1 DEF ChainOf
    <3>4. i # 1
      <4>1. ~(j <= fp) BY <2>2, <3>1, <3>2
      <4> QED BY <2>1, <3>3, <4>1
    <3>5. PICK x : x = i - 1 OBVIOUS
    <3>6. x \in 1..(L - 1) /\ x + 1 = i BY <2>1, <3>4, <3>5
    <3>7. Low(c, x)' = Low(b, i) /\ c[x] = b[i] BY <2>13, <2>14, <3>6
    <3> QED BY <3>2, <3>3, <3>6, <3>7
  <2>22. top' >= -1 /\ top' <= Low(c, 1)'
    <3>1. 2 \in 2..L /\ 1 \in 1..(L - 1) /\ 1 + 1 = 2 BY <2>1
    <3>2. Low(c, 1)' = Low(b, 2) BY <2>14, <3>1
    <3>3. back <= Low(b, 2) /\ Low(b, 2) \in Int BY <2>16, <3>1
    <3>4. top' >= -1 BY <2>2, <2>5
    <3>5. top' <= Low(b, 2) BY <2>2, <2>5, <3>3
    <3> QED BY <3>2, <3>4, <3>5
  <2>23. L - 1 >= 1 /\ (L - 1) - 1 = L - 2 BY <2>1
  <2> HIDE DEF L
  <2>24. ChainOf(c)'
    BY <1>1, <2>5, <2>12, <2>13, <2>15, <2>17, <2>18, <2>19, <2>20, <2>21, <2>22, <2>23
    DEF ChainOf
  <2>25. ChainInv' BY <2>24 DEF ChainInv
  <2>26. BuildInv' BY <2>5 DEF BuildInv
  <2> QED BY <1>2, <2>9, <2>10, <2>25, <2>26 DEF FrameInv
<1> QED BY <1>4, <1>5

LEMMA UnchangedKeeps ==
  ASSUME FrameInv, UNCHANGED <<chunk, stack, table>>,
         status' = status \/ status' \notin {"building", "entering", "running"}
  PROVE  FrameInv'
<1>1. UNCHANGED <<heap, objs, mapped, memory, top, fp, frames, fresh, strings, built, lost>>
  BY DEF chunk, stack, table
<1>2. strings' \in Tables /\ HeapInv' /\ WordsInv' BY <1>1 DEF FrameInv, HeapInv, WordsInv, IsPointer
<1>3. OnlyFreshOrLostAreStale'
  BY <1>1 DEF FrameInv, OnlyFreshOrLostAreStale, Denotes, IsContent, IsPointer, Scanned
<1>4. BuildInv'
  BY <1>1 DEF FrameInv, BuildInv, string_counter, Denotes, IsContent, IsPointer
<1>5. ChainInv'
  <2> SUFFICES ASSUME status' \in {"entering", "running"} PROVE \E b : ChainOf(b)' BY DEF ChainInv
  <2>1. status' = status OBVIOUS
  <2>2. PICK b : ChainOf(b) BY <2>1 DEF FrameInv, ChainInv
  <2>3. ChainOf(b)' BY <1>1, <2>1, <2>2 DEF ChainOf, Back, Low, START, string_size
  <2> QED BY <2>3
<1> QED BY <1>2, <1>3, <1>4, <1>5 DEF FrameInv

LEMMA FailureKeeps ==
  ASSUME FrameInv, NEW n, Fails(n)
  PROVE  FrameInv'
<1>1. UNCHANGED <<chunk, stack, table>>
      /\ status' \in {"wrong root", "mmap failed", "fault"}
  BY DEF Fails
<1> QED BY <1>1, UnchangedKeeps

-----------------------------------------------------------------------------
(* The theorems. *)

LEMMA InitiallyApart ==
  ASSUME Init
  PROVE  FrameInv
<1>1. HeapInv
  <2>1. DOMAIN objs = {} BY DEF Init
  <2> QED BY <2>1, FS_EmptySet DEF Init, HeapInv, NoChunk, Chunk
<1>2. \A n : ~IsPointer(Number(n)) BY DEF IsPointer, Number
<1>3. WordsInv BY <1>2, Constants DEF Init, WordsInv
<1>4. BuildInv
  <2>1. strings \in Tables BY DEF Init
  <2>2. string_counter \in Nat /\ STACK \in Nat BY <2>1, StartFacts
  <2> QED BY <1>2, <2>2 DEF Init, BuildInv
<1>5. OnlyFreshOrLostAreStale BY <1>2 DEF Init, OnlyFreshOrLostAreStale, Scanned
<1> QED BY <1>1, <1>3, <1>4, <1>5 DEF Init, FrameInv, ChainInv

LEMMA StepsKeepApart ==
  ASSUME FrameInv, [Next]_vars
  PROVE  FrameInv'
<1>1. CASE BuildString
  <2>1. PICK n : /\ n = ObjectSize(strings[built + 1])
                 /\ \/ /\ \E r \in Allocated(n) :
                            Take(r, n, [r.memory EXCEPT ![top - 1] = Pointer(Content(r.at), NewId)])
                       /\ top' = top - 1 /\ built' = built + 1
                       /\ lost' = IF HasRoom(n) \/ built = 0 THEN lost
                                  ELSE lost \cup {memory[top][3]}
                       /\ UNCHANGED <<strings, fp, frames, fresh, allocs, status>>
                    \/ Fails(n)
    BY <1>1 DEF BuildString
  <2>2. status = "building" /\ built < string_counter BY <1>1 DEF BuildString
  <2> QED BY <2>1, <2>2, BuildStringKeeps, FailureKeeps
<1>2. CASE EnterMain BY <1>2, EnterMainKeeps
<1>3. CASE BeginFunction BY <1>3, BeginKeeps
<1>4. CASE Const BY <1>4, ConstKeeps
<1>5. CASE Drop BY <1>5, DropKeeps
<1>6. CASE PushString BY <1>6, PushStringKeeps
<1>7. CASE Load BY <1>7, LoadKeeps
<1>8. CASE Store BY <1>8, StoreKeeps
<1>9. CASE ToString
  <2>1. Handler(1, 1) BY <1>9 DEF ToString
  <2>2. PICK l \in Lengths :
          \/ /\ \E r \in Allocated(ObjectSize(l)) :
                  Take(r, ObjectSize(l),
                       [r.memory EXCEPT ![top + 1] = Pointer(Content(r.at), NewId)])
             /\ UNCHANGED <<top, fp, frames, fresh, table, status>>
          \/ Fails(ObjectSize(l))
    BY <1>9 DEF ToString
  <2> QED BY <2>1, <2>2, ToStringKeeps, FailureKeeps
<1>10. CASE Call BY <1>10, CallKeeps
<1>11. CASE EndFunction BY <1>11, EndKeeps
<1>12. CASE Ended \/ UNCHANGED vars
  <2>1. UNCHANGED <<chunk, stack, table>> /\ status' = status BY <1>12 DEF Ended, vars
  <2> QED BY <2>1, UnchangedKeeps
<1> QED BY <1>1, <1>2, <1>3, <1>4, <1>5, <1>6, <1>7, <1>8, <1>9, <1>10, <1>11, <1>12 DEF Next

LEMMA FramesAreKept == Spec => []FrameInv
<1>1. Init => FrameInv BY InitiallyApart
<1>2. FrameInv /\ [Next]_vars => FrameInv' BY StepsKeepApart
<1> QED BY <1>1, <1>2, PTL DEF Spec

\* Only a reserved local or a string of the table that a collection of the
\* constructor lost can be a stale root, however deep the calls, whatever the
\* strings, wherever the chunks.
THEOREM RootsAreFresh == Spec => []OnlyFreshOrLostAreStale
<1>1. FrameInv => OnlyFreshOrLostAreStale BY DEF FrameInv
<1> QED BY <1>1, FramesAreKept, PTL

\* The variables of the running function, the globals and the strings are words a
\* collection follows, and never words of a frame.
THEOREM VariablesStayApart == Spec => []VariablesAreApart
<1> QED BY InvariantIsApart, FramesAreKept, PTL

-----------------------------------------------------------------------------
(* The pages of a chunk. *)

LEMMA DivDown ==
  ASSUME NEW x \in Nat, NEW d \in Nat \ {0}
  PROVE  d * (x \div d) <= x
OBVIOUS

LEMMA DivUp ==
  ASSUME NEW x \in Nat, NEW d \in Nat \ {0}
  PROVE  x < d * (x \div d) + d
OBVIOUS

LEMMA TimesMonotone ==
  ASSUME NEW d \in Nat, NEW p \in Nat, NEW q \in Nat, p <= q
  PROVE  d * p <= d * q
OBVIOUS

LEMMA TimesNext ==
  ASSUME NEW d \in Nat, NEW p \in Nat
  PROVE  d * p \in Nat /\ d * (p + 1) = d * p + d
OBVIOUS

LEMMA DivMonotone ==
  ASSUME NEW d \in Nat \ {0}, NEW x \in Nat, NEW y \in Nat, x <= y
  PROVE  x \div d <= y \div d
<1>1. PICK p \in Nat, q \in Nat : p = y \div d /\ q = x \div d BY DivWord
<1>2. d * q <= x BY <1>1, DivDown
<1>3. y < d * p + d BY <1>1, DivUp
<1>4. ASSUME p < q PROVE FALSE
  <2>1. p + 1 <= q BY <1>4
  <2>2. d * (p + 1) <= d * q BY <2>1, TimesMonotone
  <2>3. d * (p + 1) = d * p + d /\ d * p \in Nat /\ d * q \in Nat BY TimesNext
  <2>4. PICK u \in Nat, v \in Nat : u = d * p /\ v = d * q BY <2>3
  <2> QED BY <1>2, <1>3, <2>2, <2>3, <2>4
<1> QED BY <1>1, <1>4

LEMMA DivWhole ==
  ASSUME NEW d \in Nat \ {0}, NEW x \in Nat
  PROVE  /\ x = 0 => (x + d - 1) \div d = 0
         /\ x >= 1 /\ x <= d => (x + d - 1) \div d = 1
<1>1. PICK y \in Nat : y = x + d - 1 OBVIOUS
<1>2. PICK q \in Nat : q = y \div d BY DivWord
<1>3. d * q <= y /\ y < d * q + d BY <1>2, DivDown, DivUp
<1>4. ASSUME x = 0, q >= 1 PROVE FALSE
  <2>1. d * 1 <= d * q BY <1>4, TimesMonotone
  <2>2. d * 1 = d /\ d * q \in Nat BY TimesNext
  <2> QED BY <1>1, <1>3, <1>4, <2>1, <2>2
<1>5. ASSUME x >= 1, x <= d, q = 0 PROVE FALSE
  <2>1. d * q = 0 BY <1>5
  <2> QED BY <1>1, <1>3, <1>5, <2>1
<1>6. ASSUME x <= d, q >= 2 PROVE FALSE
  <2>1. d * 2 <= d * q BY <1>6, TimesMonotone
  <2>2. d * 2 = d + d /\ d * q \in Nat BY TimesNext
  <2> QED BY <1>1, <1>3, <1>6, <2>1, <2>2
<1> QED BY <1>1, <1>2, <1>4, <1>5, <1>6

\* A mapping of more bytes has the pages of one of fewer, and one of a page or less
\* has the page at which it begins.
LEMMA PagesOf ==
  ASSUME NEW begin \in Nat, NEW size \in Nat
  PROVE  /\ PagesAt(begin, size) \subseteq PagesAt(begin, size * WORD)
         /\ size <= PAGE => PagesAt(begin, size) = PagesAt(begin, size * WORD)
         /\ size = 0 => PagesAt(begin, size * WORD) = {}
<1>1. PAGE \in Nat \ {0} /\ WORD \in Nat \ {0} BY Constants
<1>2. PICK K : K = PAGE * WORD OBVIOUS
<1>3. PICK bytes : bytes = size * WORD OBVIOUS
<1>4. /\ K \in Nat \ {0} /\ PAGE <= K
      /\ bytes \in Nat /\ size <= bytes
      /\ size <= PAGE => bytes <= K
      /\ size >= 1 => bytes >= 1
      /\ size = 0 => bytes = 0
  <2>1. K = WORD * PAGE /\ bytes = WORD * size BY <1>1, <1>2, <1>3
  <2>2. K \in Nat /\ bytes \in Nat BY <1>1, <2>1, TimesNext
  <2>3. PAGE * 1 <= PAGE * WORD /\ size * 1 <= size * WORD BY <1>1, TimesMonotone
  <2>4. PAGE * 1 = PAGE /\ size * 1 = size BY <1>1
  <2>5. size <= PAGE => WORD * size <= WORD * PAGE BY <1>1, TimesMonotone
  <2>6. size = 0 => bytes = 0 BY <1>1, <1>3
  <2>7. PAGE <= K /\ size <= bytes BY <1>2, <1>3, <2>3, <2>4
  <2>8. size <= PAGE => bytes <= K BY <2>1, <2>5
  <2> QED BY <1>1, <2>2, <2>6, <2>7, <2>8
<1>5. PICK first \in Nat : first = begin \div PAGE BY <1>1, DivWord
<1>6. \A n : PagesAt(begin, n) = first..(first + ((n + K - 1) \div K) - 1)
  BY <1>2, <1>5 DEF PagesAt
<1>7. PICK p, q : p = (size + K - 1) \div K /\ q = (bytes + K - 1) \div K OBVIOUS
<1>8. p \in Nat /\ q \in Nat /\ p <= q
  <2>1. PICK x \in Nat, y \in Nat : x = size + K - 1 /\ y = bytes + K - 1 /\ x <= y BY <1>4
  <2> QED BY <1>4, <1>7, <2>1, DivWord, DivMonotone
<1>9. PagesAt(begin, size) = first..(first + p - 1)
      /\ PagesAt(begin, size * WORD) = first..(first + q - 1)
  BY <1>3, <1>6, <1>7
<1>10. size = 0 => p = 0 /\ q = 0 BY <1>4, <1>7, DivWhole
<1>11. size >= 1 /\ size <= PAGE => p = 1 /\ q = 1
  <2> SUFFICES ASSUME size >= 1, size <= PAGE PROVE p = 1 /\ q = 1 OBVIOUS
  <2>1. size <= K /\ bytes >= 1 /\ bytes <= K BY <1>1, <1>4
  <2> QED BY <1>4, <1>7, <2>1, DivWhole
<1>12. size = 0 => first..(first + q - 1) = {} BY <1>10
<1>13. size <= PAGE => p = q BY <1>10, <1>11
<1>14. first..(first + p - 1) \subseteq first..(first + q - 1) BY <1>8
<1> QED BY <1>9, <1>12, <1>13, <1>14

\* The new chunk is mapped where the old one is not, and the old one's pages go.
LEMMA CollectedMapped ==
  ASSUME HeapInv, RootsAreContents, HeapIsMapped, NEW n \in Nat,
         NEW begin \in Mappings(NextSize(n)), NEW new, new = Collected(begin, n)
  PROVE  LET pages == PagesAt(new.heap.begin, new.heap.size * WORD)
         IN  /\ pages \subseteq new.mapped
             /\ new.heap.size <= PAGE => new.mapped = pages
<1> DEFINE size == NextSize(n)
           pages == PagesAt(begin, size * WORD)
           gone == IF heap.size = 0 THEN {} ELSE PagesAt(heap.begin, heap.size)
<1>1. new.heap.begin = begin /\ new.heap.size = size /\ new.mapped = (mapped \cup pages) \ gone
  BY DEF Collected, Chunk, Unmapped
<1>2. begin \in FreeRuns(size) BY DEF Mappings
<1>3. pages \cap mapped = {} BY <1>2 DEF FreeRuns
<1>4. heap.begin \in Nat /\ heap.size \in Nat /\ size \in Nat /\ heap.size <= size
  BY NextSizes DEF HeapInv
<1>5. gone \subseteq HeapPages BY <1>4, PagesOf DEF HeapPages
<1>6. HeapPages \subseteq mapped BY DEF HeapIsMapped
<1>7. pages \subseteq new.mapped BY <1>1, <1>3, <1>5, <1>6
<1>8. ASSUME size <= PAGE PROVE new.mapped = pages
  <2>1. heap.size <= PAGE
    <3>1. PAGE \in Nat BY Constants
    <3> QED BY <1>4, <1>8, <3>1
  <2>2. mapped = HeapPages BY <2>1 DEF HeapIsMapped
  <2>3. gone = HeapPages BY <1>4, <2>1, PagesOf DEF HeapPages
  <2> QED BY <1>1, <1>3, <2>2, <2>3
<1> QED BY <1>1, <1>7, <1>8

LEMMA TakeKeepsMapped ==
  ASSUME HeapInv, WordsInv, HeapIsMapped, NEW l \in Nat, NEW n, n = ObjectSize(l),
         NEW r \in Allocated(n), NEW m, Take(r, n, m)
  PROVE  HeapIsMapped'
<1>1. heap' = r.heap /\ mapped' = r.mapped BY DEF Take
<1>2. n \in Nat BY ObjectSizes
<1>3. LET pages == PagesAt(r.heap.begin, r.heap.size * WORD)
      IN  /\ pages \subseteq r.mapped
          /\ r.heap.size <= PAGE => r.mapped = pages
  <2>1. CASE HasRoom(n)
    <3>1. r = InPlace(n) BY <2>1 DEF Allocated
    <3>2. r.heap.begin = heap.begin /\ r.heap.size = heap.size /\ r.mapped = mapped
      BY <1>2, <2>1, <3>1, InPlaceFits
    <3> QED BY <3>2 DEF HeapIsMapped, HeapPages
  <2>2. CASE ~HasRoom(n)
    <3>1. RootsAreContents /\ \E b \in Mappings(NextSize(n)) : r = Collected(b, n)
      BY <2>2 DEF Allocated
    <3> QED BY <1>2, <3>1, CollectedMapped
  <2> QED BY <2>1, <2>2
<1> QED BY <1>1, <1>3 DEF HeapIsMapped, HeapPages

LEMMA StepsKeepMapped ==
  ASSUME FrameInv, HeapIsMapped, [Next]_vars
  PROVE  HeapIsMapped'
<1>0. HeapInv /\ WordsInv BY DEF FrameInv
<1>1. CASE UNCHANGED chunk BY <1>1 DEF HeapIsMapped, HeapPages, chunk
<1>2. CASE BuildString
  <2>1. \/ \E r \in Allocated(ObjectSize(strings[built + 1])) : \E m :
             Take(r, ObjectSize(strings[built + 1]), m)
        \/ UNCHANGED chunk
    BY <1>2 DEF BuildString, Fails
  <2>2. strings[built + 1] \in Nat
    <3>1. built \in Nat /\ built < string_counter /\ strings \in Tables
      BY <1>2 DEF BuildString, FrameInv, BuildInv
    <3>2. string_counter \in Nat BY <3>1, StartFacts
    <3>3. built + 1 \in 1..string_counter BY <3>1, <3>2
    <3> QED BY <3>1, <3>3, StartFacts
  <2> QED BY <1>0, <1>1, <2>1, <2>2, TakeKeepsMapped
<1>3. CASE ToString
  <2>1. \/ \E l \in Lengths : \E r \in Allocated(ObjectSize(l)) : \E m : Take(r, ObjectSize(l), m)
        \/ UNCHANGED chunk
    BY <1>3 DEF ToString, Fails
  <2>2. Lengths \subseteq Nat BY Constants
  <2> QED BY <1>0, <1>1, <2>1, <2>2, TakeKeepsMapped
<1>4. BuildString \/ ToString \/ UNCHANGED chunk
  BY DEF Next, EnterMain, BeginFunction, Const, Drop, PushString, Load, Store, Exec, Call,
         EndFunction, Ended, vars
<1> QED BY <1>1, <1>2, <1>3, <1>4

\* The heap's pages are mapped for every size of page and of word, though munmap is
\* given words for bytes; and while it fits a page no other page is left mapped.
THEOREM HeapStaysMapped == Spec => []HeapIsMapped
<1>1. Init => HeapIsMapped
  <2> SUFFICES ASSUME Init PROVE HeapIsMapped OBVIOUS
  <2>1. mapped = {} /\ heap.begin = 0 /\ heap.size = 0 BY DEF Init, NoChunk, Chunk
  <2>2. PagesAt(0, 0 * WORD) = {} BY PagesOf
  <2> QED BY <2>1, <2>2 DEF HeapIsMapped, HeapPages
<1>2. FrameInv /\ HeapIsMapped /\ [Next]_vars => HeapIsMapped' BY StepsKeepMapped
<1> QED BY <1>1, <1>2, FramesAreKept, PTL DEF Spec
==============================================================================
